--------------------------- MODULE DownloadProofs ---------------------------
(***************************************************************************)
(* Proofs about Download, for torrents of any shape, any number of         *)
(* connections, any files and any number of crashes.                       *)
(*                                                                         *)
(* The types hold whatever the disk and the channels do.  That a piece on  *)
(* disk is noticed rests on two more facts: a block's read half awaits the *)
(* write it has begun (so it is the disk that must not be slow), and the   *)
(* piece that is being hashed is either to be checked again or the monitor *)
(* will come to the right verdict, whatever it has read so far.            *)
(***************************************************************************)
EXTENDS Download, SharedLemmas

-----------------------------------------------------------------------------
(* The invariant, in parts. *)

Check == [piece : Pieces, next : Nat, good : BOOLEAN]

Scenario == [found : SUBSET Files, corrupt : SUBSET Connections, crashes : Nat]

DiskOK ==
  /\ sized \subseteq Files /\ visited \subseteq sized
  /\ disk \in [AllBlocks -> Content]
  /\ writes \subseteq Write
  /\ phase \in {"starting", "running"} /\ fresh \in BOOLEAN

ConnectionsOK ==
  /\ tracker \in [Connections -> Tracker \cup {None}]
  /\ asked \in [Connections -> SUBSET AllBlocks]
  /\ storing \in [Connections -> AllBlocks \cup {None}]
  /\ updates \in [Connections -> SUBSET Message]

MonitorOK ==
  /\ myBitfield \subseteq Pieces
  /\ Bounded(inbox, Message, Capacity)
  /\ ended \in BOOLEAN
  /\ check \in Check \cup {None}
  /\ check # None => check.next <= NumBlocks(check.piece)
  /\ scenario \in Scenario

\* Without it num_requested might fall below zero.
CountsOK ==
  \A c \in Connections :
    Running(c) => tracker[c].num_requested = Cardinality(PendingRequests(tracker[c]))

\* A connection that has not started has nothing to do, and none starts before
\* Download::new has returned.
IdleOK ==
  /\ \A c \in Connections :
       ~Running(c) => asked[c] = {} /\ storing[c] = None /\ updates[c] = {}
  /\ phase = "starting" =>
       /\ \A c \in Connections : ~Running(c)
       /\ writes = {} /\ check = None /\ inbox = NoMessages

\* A file that does not exist holds nothing, and all the files that are found
\* new hold nothing.
FilesOK ==
  /\ phase = "running" => visited = Files
  /\ \A pb \in AllBlocks : FileOf[pb] \notin sized => disk[pb] = "zeros"
  /\ phase = "starting" /\ fresh =>
       \A pb \in AllBlocks : FileOf[pb] \in visited => disk[pb] = "zeros"

IInv == DiskOK /\ ConnectionsOK /\ MonitorOK /\ CountsOK /\ IdleOK /\ FilesOK

\* On a disk that is not slow a block is reported after it is in its file.
WritesAwaited == \A w \in writes : storing[w.by] = w.block

Checked(p) == check # None /\ check.piece = p

\* What the bitfield says or is about to say of p will be set right.
Noticed(p) ==
  /\ p \in IntactPieces /\ (p \notin myBitfield \/ Checked(p)) => CheckDue(p) \/ WillPass(p)
  /\ p \notin IntactPieces /\ (p \in myBitfield \/ Checked(p)) => CheckDue(p) \/ WillFail(p)

AllNoticed == phase = "running" /\ ~ended => \A p \in Pieces : Noticed(p)

NoticeInv == IInv /\ WritesAwaited /\ AllNoticed

-----------------------------------------------------------------------------
(* The types, step by step. *)

LEMMA NoneIsNothing ==
  None \notin AllBlocks /\ None \notin Check /\ None \notin Tracker
<1>1. None \notin AllBlocks
  <2>1. None \in AllBlocks => None \in Pieces \X Nat /\ Pieces \subseteq Nat
    BY Shape
  <2>2. QED
    BY <2>1, NoneAssumption
<1>2. QED
  BY <1>1, DownloadAssumption DEF Check

LEMMA MessagesExist ==
  /\ \A p \in Pieces : Downloaded(p) \in Message /\ Completed(p) \in Message
  /\ FileComplete \in Message
BY DEF Message, Downloaded, Completed, FileComplete

\* What differs about the messages.
LEMMA MessagesDiffer ==
  /\ \A p, q : Downloaded(p) # Completed(q) /\ Downloaded(p) # FileComplete
  /\ \A p, q : Downloaded(p) = Downloaded(q) => p = q
  /\ \A m \in Message : m # FileComplete => m[2] \in Pieces
BY DEF Message, Downloaded, Completed, FileComplete

LEMMA CheckIs ==
  ASSUME NEW p \in Pieces, NEW n \in Nat, NEW g \in BOOLEAN,
         check' = [piece |-> p, next |-> n, good |-> g]
  PROVE  /\ check' \in Check /\ check' # None
         /\ check'.piece = p /\ check'.next = n /\ (check'.good <=> g)
<1>1. check' \in Check /\ check'.piece = p /\ check'.next = n /\ check'.good = g
  BY DEF Check
<1>2. QED
  BY <1>1, NoneIsNothing

\* Each block that is read tells whether the hash can still be right.
LEMMA ReadsOn ==
  ASSUME check \in Check, check.next < NumBlocks(check.piece), MonitorReads
  PROVE  /\ check' \in Check /\ check' # None
         /\ check'.piece = check.piece /\ check'.next = check.next + 1
         /\ check'.good <=> check.good /\ disk[<<check.piece, check.next>>] = "good"
<1> DEFINE g == check.good /\ disk[<<check.piece, check.next>>] = "good"
<1>1. check' = [piece |-> check.piece, next |-> check.next + 1, good |-> g]
  BY DEF MonitorReads, Check
<1>2. check.piece \in Pieces /\ check.next + 1 \in Nat
  BY DEF Check
<1>3. g \in BOOLEAN
  BY Zenon
<1> HIDE DEF g
<1>4. /\ check' \in Check /\ check' # None
      /\ check'.piece = check.piece /\ check'.next = check.next + 1
      /\ check'.good <=> g
  BY <1>1, <1>2, <1>3, CheckIs
<1>5. QED
  BY <1>4 DEF g

LEMMA BeginsToRead ==
  ASSUME NEW p \in Pieces, MonitorDownloaded(p)
  PROVE  /\ check' \in Check /\ check' # None
         /\ check'.piece = p /\ check'.next = 0 /\ check'.good
<1>1. TRUE \in BOOLEAN /\ check' = [piece |-> p, next |-> 0, good |-> TRUE]
  BY Zenon DEF MonitorDownloaded
<1>2. QED
  BY <1>1, CheckIs, Zenon

LEMMA InitInv == Init => IInv /\ WritesAwaited /\ AllNoticed
<1> SUFFICES ASSUME Init PROVE IInv /\ WritesAwaited /\ AllNoticed
  OBVIOUS
<1>1. scenario \in Scenario
  BY DownloadAssumption DEF Init, Scenario
<1>2. DiskOK
  BY <1>1 DEF Init, DiskOK, Scenario, Content
<1>3. ConnectionsOK
  BY DEF Init, ConnectionsOK, ForAll
<1>4. MonitorOK
  BY <1>1, NoMessagesHeld, DownloadAssumption DEF Init, MonitorOK
<1>5. CountsOK /\ IdleOK
  BY DEF Init, CountsOK, IdleOK, Running, ForAll
<1>6. FilesOK
  BY DEF Init, FilesOK
<1>7. WritesAwaited /\ AllNoticed
  BY DEF Init, WritesAwaited, AllNoticed
<1>8. QED
  BY <1>2, <1>3, <1>4, <1>5, <1>6, <1>7 DEF IInv

\* A step of one connection: it changes its own state, and it may begin a write
\* and send to the parent channel.
LEMMA ConnectionStep ==
  ASSUME IInv, phase = "running",
         NEW c \in Connections, NEW t, Counted(t),
         tracker' = [tracker EXCEPT ![c] = t],
         asked' \in [Connections -> SUBSET AllBlocks],
         storing' \in [Connections -> AllBlocks \cup {None}],
         updates' \in [Connections -> SUBSET Message],
         \A d \in Connections \ {c} :
           asked'[d] = asked[d] /\ storing'[d] = storing[d] /\ updates'[d] = updates[d],
         UNCHANGED <<sized, disk, startVars, myBitfield, ended, check, scenario>>,
         writes' \subseteq Write,
         Bounded(inbox', Message, Capacity)
  PROVE  IInv'
<1>1. t \in Tracker /\ t.num_requested = Cardinality(PendingRequests(t))
  BY DEF Counted
<1>2. /\ tracker' \in [Connections -> Tracker \cup {None}]
      /\ \A d \in Connections : tracker'[d] = IF d = c THEN t ELSE tracker[d]
  BY <1>1 DEF IInv, ConnectionsOK
<1>3. ConnectionsOK'
  BY <1>2 DEF ConnectionsOK
<1>4. CountsOK'
  BY <1>1, <1>2 DEF IInv, CountsOK, Running
<1>5. IdleOK'
  <2>1. \A d \in Connections :
          ~Running(d)' => asked'[d] = {} /\ storing'[d] = None /\ updates'[d] = {}
    BY <1>1, <1>2, NoneIsNothing DEF IInv, IdleOK, Running
  <2>2. phase' # "starting"
    BY DEF startVars
  <2>3. QED
    BY <2>1, <2>2 DEF IdleOK
<1>6. DiskOK'
  BY DEF IInv, DiskOK, startVars
<1>7. MonitorOK'
  BY DEF IInv, MonitorOK
<1>8. FilesOK'
  BY DEF IInv, FilesOK, startVars
<1>9. QED
  BY <1>3, <1>4, <1>5, <1>6, <1>7, <1>8 DEF IInv

\* Only a connection that has started does anything.
LEMMA StartedIsRunning ==
  ASSUME IInv, NEW c \in Connections, Running(c)
  PROVE  phase = "running" /\ Counted(tracker[c])
BY DEF IInv, IdleOK, DiskOK, ConnectionsOK, CountsOK, Counted, Running

LEMMA ConnectionsInv ==
  ASSUME IInv, NEW c \in Connections,
         Connect(c) \/ Ask(c) \/ Answers(c) \/ Report(c) \/ HearUpdate(c)
  PROVE  IInv'
<1>0. /\ ConnectionsOK /\ writes \subseteq Write /\ Bounded(inbox, Message, Capacity)
      /\ \A d \in Connections :
           ~Running(d) => asked[d] = {} /\ storing[d] = None /\ updates[d] = {}
  BY DEF IInv, DiskOK, MonitorOK, IdleOK
<1>1. CASE Connect(c)
  <2> DEFINE t == Update(FromFileInfo, myBitfield)
  <2>1. Counted(t)
    BY CopyCounted
  <2>2. /\ phase = "running" /\ tracker' = [tracker EXCEPT ![c] = t] /\ ~Running(c)
        /\ UNCHANGED <<asked, storing, updates>>
        /\ UNCHANGED <<sized, disk, startVars, myBitfield, ended, check, scenario>>
        /\ UNCHANGED <<writes, inbox>>
    BY <1>1 DEF Connect, diskVars, monitorVars
  <2> HIDE DEF t
  <2>3. QED
    BY <1>0, <2>1, <2>2, ConnectionStep DEF ConnectionsOK
<1>2. CASE Ask(c)
  <2>1. PICK r \in Request(tracker[c], PeerHas[c]) :
          /\ r.answer # None
          /\ tracker' = [tracker EXCEPT ![c] = r.tracker]
          /\ asked' = [asked EXCEPT ![c] = @ \cup {r.answer}]
    BY <1>2 DEF Ask
  <2>2. /\ Running(c) /\ UNCHANGED <<storing, updates, writes, inbox>>
        /\ UNCHANGED <<sized, disk, startVars, myBitfield, ended, check, scenario>>
    BY <1>2 DEF Ask, diskVars, monitorVars
  <2>3. phase = "running" /\ Counted(tracker[c])
    BY <2>2, StartedIsRunning
  <2>4. \E p \in Pieces : Takes(tracker[c], p, r)
    <3>1. tracker[c] \in Tracker
      BY <2>3 DEF Counted
    <3>2. QED
      BY <2>1, <3>1, RequestResults
  <2>5. Counted(r.tracker) /\ r.answer \in AllBlocks
    BY <2>3, <2>4, TakeCounted
  <2>6. QED
    BY <1>0, <2>1, <2>2, <2>3, <2>5, ConnectionStep DEF ConnectionsOK
<1>3. CASE Answers(c)
  <2>1. PICK pb \in AllBlocks, content \in {"good", "bad"} : HearPiece(c, pb, content)
    BY <1>3 DEF Answers
  <2>2. /\ storing' = [storing EXCEPT ![c] = pb]
        /\ asked' = [asked EXCEPT ![c] = @ \ {pb}]
        /\ writes' = writes \cup {[by |-> c, block |-> pb, content |-> content]}
        /\ UNCHANGED <<tracker, updates, inbox>> /\ asked[c] # {}
        /\ UNCHANGED <<sized, disk, startVars, myBitfield, ended, check, scenario>>
    BY <2>1 DEF HearPiece, monitorVars
  <2>3. Running(c)
    BY <1>0, <2>2
  <2>4. phase = "running" /\ Counted(tracker[c])
    BY <2>3, StartedIsRunning
  <2>5. writes' \subseteq Write
    BY <1>0, <2>2 DEF Write
  <2>6. tracker' = [tracker EXCEPT ![c] = tracker[c]]
    BY <1>0, <2>2 DEF ConnectionsOK
  <2>7. QED
    BY <1>0, <2>2, <2>4, <2>5, <2>6, ConnectionStep DEF ConnectionsOK
<1>4. CASE Report(c)
  <2> DEFINE pb == storing[c]
  <2> DEFINE t == MarkBlockAsDownloaded(tracker[c], pb)
  <2>1. /\ pb # None /\ storing' = [storing EXCEPT ![c] = None]
        /\ tracker' = [tracker EXCEPT ![c] = t]
        /\ inbox' = IF ended THEN inbox ELSE Push(inbox, Downloaded(pb[1]), Capacity)
        /\ UNCHANGED <<asked, updates, writes>>
        /\ UNCHANGED <<sized, disk, startVars, myBitfield, ended, check, scenario>>
    BY <1>4 DEF Report, diskVars
  <2>2. pb \in AllBlocks /\ Running(c)
    BY <1>0, <2>1 DEF ConnectionsOK
  <2>3. phase = "running" /\ Counted(tracker[c])
    BY <2>2, StartedIsRunning
  <2>4. Counted(t)
    BY <2>2, <2>3, MarkBlockLands, LandCounted DEF Counted
  <2>5. Downloaded(pb[1]) \in Message
    BY <2>2, Shape, MessagesExist
  <2>6. Bounded(inbox', Message, Capacity)
    BY <1>0, <2>1, <2>5, PushEffect, DownloadAssumption
  <2> HIDE DEF t, pb
  <2>7. QED
    BY <1>0, <2>1, <2>3, <2>4, <2>6, ConnectionStep DEF ConnectionsOK
<1>5. CASE HearUpdate(c)
  <2>1. PICK message \in updates[c] :
          /\ updates' = [updates EXCEPT ![c] = @ \ {message}]
          /\ \/ /\ message = FileComplete
                /\ asked' = [asked EXCEPT ![c] = @ \ PendingRequests(tracker[c])]
                /\ UNCHANGED tracker
             \/ /\ message # FileComplete
                /\ tracker' = [tracker EXCEPT
                                 ![c] = MarkPieceAsDownloaded(@, message[2])]
                /\ UNCHANGED asked
    BY <1>5 DEF HearUpdate
  <2>2. /\ UNCHANGED <<storing, writes, inbox>>
        /\ UNCHANGED <<sized, disk, startVars, myBitfield, ended, check, scenario>>
    BY <1>5 DEF HearUpdate, diskVars, monitorVars
  <2>3. message \in Message /\ Running(c)
    BY <1>0, <2>1 DEF ConnectionsOK
  <2>4. phase = "running" /\ Counted(tracker[c])
    BY <2>3, StartedIsRunning
  <2>5. CASE message = FileComplete
    <3>1. /\ asked' = [asked EXCEPT ![c] = @ \ PendingRequests(tracker[c])]
          /\ tracker' = [tracker EXCEPT ![c] = tracker[c]]
      BY <1>0, <2>1, <2>5 DEF ConnectionsOK
    <3>2. QED
      BY <1>0, <2>1, <2>2, <2>4, <3>1, ConnectionStep DEF ConnectionsOK
  <2>6. CASE message # FileComplete
    <3> DEFINE t == MarkPieceAsDownloaded(tracker[c], message[2])
    <3>1. tracker' = [tracker EXCEPT ![c] = t] /\ UNCHANGED asked
      BY <2>1, <2>6
    <3>2. message[2] \in Pieces
      BY <2>3, <2>6, MessagesDiffer
    <3>3. OfPiece(message[2]) \in SUBSET AllBlocks
      BY DEF OfPiece
    <3>4. Counted(t)
      BY <2>4, <3>2, <3>3, MarkPieceLands, LandCounted DEF Counted
    <3> HIDE DEF t
    <3>5. QED
      BY <1>0, <2>1, <2>2, <2>4, <3>1, <3>4, ConnectionStep DEF ConnectionsOK
  <2>7. QED
    BY <2>5, <2>6
<1>6. QED
  BY <1>1, <1>2, <1>3, <1>4, <1>5

\* What Download::new does.
LEMMA StartingInv ==
  ASSUME IInv, Starting
  PROVE  IInv'
<1>1. ASSUME NEW f \in Files, InitializeFile(f)
      PROVE  IInv'
  <2> USE <1>1 DEF IInv, InitializeFile, connVars, monitorVars
  <2>1. DiskOK'
    BY Zenon DEF DiskOK
  <2>2. ConnectionsOK'
    BY DEF ConnectionsOK
  <2>3. MonitorOK'
    BY DEF MonitorOK
  <2>4. CountsOK' /\ IdleOK'
    BY DEF CountsOK, IdleOK, Running
  <2>5. FilesOK'
    BY DEF FilesOK
  <2>6. QED
    BY <2>1, <2>2, <2>3, <2>4, <2>5
<1>2. ASSUME StartMonitor
      PROVE  IInv'
  <2> USE <1>2 DEF IInv, StartMonitor, diskVars, connVars
  <2>1. DiskOK'
    BY DEF DiskOK
  <2>2. ConnectionsOK'
    BY DEF ConnectionsOK
  <2>3. MonitorOK'
    <3>1. myBitfield' \subseteq Pieces
      BY DEF IntactPieces
    <3>2. QED
      BY <3>1 DEF MonitorOK
  <2>4. CountsOK' /\ IdleOK'
    BY DEF CountsOK, IdleOK, Running
  <2>5. FilesOK'
    BY DEF FilesOK
  <2>6. QED
    BY <2>1, <2>2, <2>3, <2>4, <2>5
<1>3. QED
  BY <1>1, <1>2 DEF Starting

\* What the monitor tells: the receivers of the parent channel and the forwarders.
LEMMA MonitorTells ==
  ASSUME IInv, MonitorDecides
  PROVE  /\ check \in Check /\ check.next = NumBlocks(check.piece)
         /\ Bounded(inbox', Message, Capacity)
         /\ inbox'.missed \/ (~inbox.missed /\ Unread(inbox) \subseteq Unread(inbox'))
         /\ Unread(inbox') \subseteq Unread(inbox) \cup {Completed(check.piece), FileComplete}
         /\ updates' \in [Connections -> SUBSET Message]
         /\ \A c \in Connections : ~Running(c) => updates'[c] = {}
<1> DEFINE p == check.piece
<1> DEFINE isNew == p \in myBitfield' \ myBitfield
<1> DEFINE isLast == myBitfield' = Pieces
<1> DEFINE told == IF isNew THEN Push(inbox, Completed(p), Capacity) ELSE inbox
<1> DEFINE news == (IF isNew THEN {Completed(p)} ELSE {})
                     \cup (IF isLast THEN {FileComplete} ELSE {})
<1>0. check \in Check /\ check.next = NumBlocks(p) /\ p \in Pieces
  BY DEF MonitorDecides, IInv, MonitorOK, Check
<1>1. /\ inbox' = IF isLast THEN Push(told, FileComplete, Capacity) ELSE told
      /\ updates' = [c \in Connections |->
                       IF Running(c)
                       THEN updates[c] \cup (IF isNew THEN {Completed(p)} ELSE {})
                                       \cup (IF isLast THEN {FileComplete} ELSE {})
                       ELSE {}]
  BY Zenon DEF MonitorDecides
<1>2. Completed(p) \in Message /\ FileComplete \in Message
  BY <1>0, MessagesExist
<1>3. Bounded(inbox, Message, Capacity) /\ Capacity \in Nat \ {0}
  BY DownloadAssumption DEF IInv, MonitorOK
<1> HIDE DEF isNew, isLast, p
<1>4. /\ Bounded(told, Message, Capacity)
      /\ told.missed \/ (~inbox.missed /\ Unread(inbox) \subseteq Unread(told))
      /\ Unread(told) \subseteq Unread(inbox) \cup {Completed(p)}
  BY <1>2, <1>3, PushEffect, Zenon
<1> HIDE DEF told
<1>5. /\ Bounded(inbox', Message, Capacity)
      /\ inbox'.missed \/ (~told.missed /\ Unread(told) \subseteq Unread(inbox'))
      /\ Unread(inbox') \subseteq Unread(told) \cup {FileComplete}
  BY <1>1, <1>2, <1>3, <1>4, PushEffect, Zenon
<1>6. updates \in [Connections -> SUBSET Message]
  BY DEF IInv, ConnectionsOK
<1>7. updates' \in [Connections -> SUBSET Message]
  BY <1>1, <1>2, <1>6
<1>8. \A c \in Connections : ~Running(c) => updates'[c] = {}
  BY <1>1
<1>9. QED
  BY <1>0, <1>4, <1>5, <1>7, <1>8 DEF p

LEMMA MonitorInv ==
  ASSUME IInv, Monitor
  PROVE  IInv'
<1>0. Bounded(inbox, Message, Capacity) /\ Capacity \in Nat /\ MonitorOK
  BY DownloadAssumption DEF IInv, MonitorOK
<1> DEFINE Kept == UNCHANGED <<diskVars, startVars, tracker, asked, storing, scenario>>
<1> DEFINE Started == phase # "starting"
<1>1. inbox # NoMessages \/ check # None => Started
  BY DEF IInv, IdleOK
<1>2. ASSUME Kept, Started,
             updates' \in [Connections -> SUBSET Message],
             \A c \in Connections : ~Running(c) => updates'[c] = {},
             MonitorOK'
      PROVE  IInv'
  <2>1. DiskOK' /\ FilesOK'
    BY <1>2 DEF IInv, DiskOK, FilesOK, diskVars, startVars
  <2>2. ConnectionsOK' /\ CountsOK'
    BY <1>2 DEF IInv, ConnectionsOK, CountsOK, Running
  <2>3. IdleOK'
    BY <1>2 DEF IInv, IdleOK, Running, startVars
  <2>4. QED
    BY <1>2, <2>1, <2>2, <2>3 DEF IInv
<1>3. UNCHANGED updates => /\ updates' \in [Connections -> SUBSET Message]
                           /\ \A c \in Connections : ~Running(c) => updates'[c] = {}
  BY DEF IInv, ConnectionsOK, IdleOK
<1>4. ASSUME NEW m, Delivers(inbox, m)
      PROVE  Started /\ Bounded(Received(inbox), Message, Capacity)
  <2>1. inbox # NoMessages
    BY <1>4 DEF Delivers, NoMessages
  <2>2. QED
    BY <1>0, <1>1, <1>4, <2>1, DeliverEffect
<1>5. ASSUME NEW p \in Pieces, MonitorDownloaded(p)
      PROVE  IInv'
  <2>1. /\ Kept /\ Started /\ UNCHANGED updates /\ UNCHANGED <<myBitfield, ended>>
        /\ Bounded(inbox', Message, Capacity)
    BY <1>4, <1>5 DEF MonitorDownloaded, connVars
  <2>2. check' \in Check /\ check'.next <= NumBlocks(check'.piece)
    <3>1. check' \in Check /\ check'.piece = p /\ check'.next = 0
      BY <1>5, BeginsToRead
    <3>2. NumBlocks(p) \in Nat
      BY PiecesHaveBlocks
    <3>3. check'.next <= NumBlocks(check'.piece)
      BY <3>1, <3>2
    <3>4. QED
      BY <3>1, <3>3
  <2>3. MonitorOK'
    BY <1>0, <2>1, <2>2 DEF MonitorOK
  <2>4. QED
    BY <1>2, <1>3, <2>1, <2>3
<1>6. CASE MonitorReads
  <2>1. /\ Kept /\ Started /\ UNCHANGED updates /\ UNCHANGED <<myBitfield, inbox, ended>>
        /\ check # None /\ check.next < NumBlocks(check.piece)
    BY <1>1, <1>6 DEF MonitorReads, connVars
  <2>2. check \in Check
    BY <1>0, <2>1 DEF MonitorOK
  <2>3. /\ check'.piece = check.piece /\ check'.next = check.next + 1
        /\ check' \in Check
    BY <1>6, <2>1, <2>2, ReadsOn
  <2>4. check'.next <= NumBlocks(check'.piece)
    <3>1. check.next \in Nat /\ check.piece \in Pieces
      BY <2>2 DEF Check
    <3>2. NumBlocks(check.piece) \in Nat
      BY <3>1, PiecesHaveBlocks
    <3>3. check.next + 1 <= NumBlocks(check.piece)
      BY <2>1, <3>1, <3>2
    <3>4. QED
      BY <2>3, <3>3
  <2>5. MonitorOK'
    BY <1>0, <2>1, <2>3, <2>4 DEF MonitorOK
  <2>6. QED
    BY <1>2, <1>3, <2>1, <2>5
<1>7. CASE MonitorDecides
  <2>1. /\ Kept /\ Started /\ UNCHANGED ended /\ check' = None
        /\ myBitfield' = BitfieldAfterCheck
    BY <1>1, <1>7 DEF MonitorDecides
  <2>2. myBitfield' \subseteq Pieces
    BY <1>0, <1>7, <2>1, MonitorTells DEF BitfieldAfterCheck, Check, MonitorOK
  <2>3. MonitorOK'
    BY <1>0, <1>7, <2>1, <2>2, MonitorTells DEF MonitorOK
  <2>4. QED
    BY <1>2, <1>7, <2>1, <2>3, MonitorTells
<1>8. CASE MonitorLogs
  <2>1. Kept /\ UNCHANGED updates /\ UNCHANGED <<myBitfield, ended, check>>
    BY <1>8 DEF MonitorLogs, connVars
  <2>2. Started /\ Bounded(inbox', Message, Capacity)
    <3>1. CASE Lags(inbox)
      <4>1. inbox # NoMessages
        BY <3>1 DEF Lags, NoMessages
      <4>2. QED
        BY <1>0, <1>1, <1>8, <3>1, <4>1, LagEffect DEF MonitorLogs
    <3>2. ASSUME NEW p \in Pieces, Delivers(inbox, Completed(p))
          PROVE  Started /\ Bounded(inbox', Message, Capacity)
      BY <1>4, <1>8, <3>2 DEF MonitorLogs
    <3>3. QED
      BY <1>8, <3>1, <3>2 DEF MonitorLogs
  <2>3. MonitorOK'
    BY <1>0, <2>1, <2>2 DEF MonitorOK
  <2>4. QED
    BY <1>2, <1>3, <2>1, <2>2, <2>3
<1>9. CASE MonitorEnds
  <2>1. /\ Kept /\ Started /\ UNCHANGED updates /\ UNCHANGED <<myBitfield, check>>
        /\ ended' = TRUE /\ inbox' = NoMessages
    BY <1>4, <1>9 DEF MonitorEnds, connVars
  <2>2. ended' \in BOOLEAN
    BY <2>1, Zenon
  <2>3. MonitorOK'
    BY <1>0, <2>1, <2>2, NoMessagesHeld DEF MonitorOK
  <2>4. QED
    BY <1>2, <1>3, <2>1, <2>3
<1>10. QED
  BY <1>5, <1>6, <1>7, <1>8, <1>9 DEF Monitor

\* What befalls the disk: a write lands, or the process is killed.
LEMMA DiskInv ==
  ASSUME IInv, Crash \/ \E w \in writes : Land(w)
  PROVE  IInv'
<1>0. \A pb \in AllBlocks : writes # {} => FileOf[pb] \in sized
  BY DEF IInv, IdleOK, DiskOK, FilesOK, Files
<1>1. ASSUME NEW w \in writes, Land(w)
      PROVE  IInv'
  <2> USE <1>1 DEF IInv, Land, startVars, connVars, monitorVars
  <2>1. w.block \in AllBlocks /\ w.content \in Content
    BY DEF DiskOK, Write, Content
  <2>2. disk' \in [AllBlocks -> Content]
    BY <2>1 DEF DiskOK
  <2>3. DiskOK'
    BY <2>2 DEF DiskOK
  <2>4. ConnectionsOK' /\ CountsOK'
    BY DEF ConnectionsOK, CountsOK, Running
  <2>5. MonitorOK'
    BY DEF MonitorOK
  <2>6. IdleOK'
    BY DEF IdleOK, Running
  <2>7. FilesOK'
    BY <1>0 DEF FilesOK, IdleOK, DiskOK
  <2>8. QED
    BY <2>3, <2>4, <2>5, <2>6, <2>7
<1>2. CASE Crash
  <2> USE <1>2 DEF Crash
  <2>1. scenario' \in Scenario
    BY DEF IInv, MonitorOK, Scenario
  <2>2. disk' \in [AllBlocks -> Content]
    OBVIOUS
  <2>3. sized' \subseteq Files
    BY DEF IInv, DiskOK
  <2>4. fresh' \in BOOLEAN /\ ended' \in BOOLEAN
    BY Zenon
  <2>5. DiskOK'
    BY <2>2, <2>3, <2>4 DEF DiskOK
  <2>6. ConnectionsOK'
    BY DEF ConnectionsOK, ForAll
  <2>7. MonitorOK'
    BY <2>1, <2>4, NoMessagesHeld, DownloadAssumption DEF MonitorOK
  <2>8. CountsOK' /\ IdleOK'
    BY DEF CountsOK, IdleOK, Running, ForAll
  <2>9. \A pb \in AllBlocks : FileOf[pb] \notin sized' => disk'[pb] = "zeros"
    BY <1>0 DEF IInv, FilesOK
  <2>10. FilesOK'
    BY <2>9 DEF FilesOK
  <2>11. QED
    BY <2>5, <2>6, <2>7, <2>8, <2>10 DEF IInv
<1>3. QED
  BY <1>1, <1>2

LEMMA StepInv == IInv /\ [Next]_vars => IInv'
<1> SUFFICES ASSUME IInv, [Next]_vars PROVE IInv'
  OBVIOUS
<1>1. CASE UNCHANGED vars
  BY <1>1 DEF IInv, DiskOK, ConnectionsOK, MonitorOK, CountsOK, IdleOK, FilesOK, Running,
              vars, diskVars, startVars, connVars, monitorVars
<1>2. QED
  BY <1>1, StartingInv, MonitorInv, ConnectionsInv, DiskInv DEF Next

LEMMA Inductive == Spec => []IInv
<1>1. Init => IInv
  BY InitInv
<1>2. QED
  BY <1>1, StepInv, PTL DEF Spec

\* The tracker of every connection counts its requests however answers, pieces
\* and cancellations interleave, and nothing in the client leaves its type.
THEOREM TypeCorrect == Spec => []TypeOK
<1>1. IInv => TypeOK
  <2> SUFFICES ASSUME IInv PROVE TypeOK
    OBVIOUS
  <2>1. ASSUME NEW c \in Connections
        PROVE  /\ Running(c) => tracker[c] \in Tracker
               /\ asked[c] \subseteq AllBlocks
               /\ storing[c] \in AllBlocks \cup {None}
               /\ updates[c] \subseteq Message
    BY DEF IInv, ConnectionsOK, Running
  <2>2. Unread(inbox) \subseteq Message /\ Len(inbox.q) <= Capacity
    BY DEF IInv, MonitorOK, Bounded, Receiver, Unread
  <2>3. check # None => check.piece \in Pieces /\ check.next \in 0 .. NumBlocks(check.piece)
    BY PiecesHaveBlocks DEF IInv, MonitorOK, Check
  <2>4. QED
    BY <2>1, <2>2, <2>3 DEF TypeOK, IInv, DiskOK, MonitorOK, Scenario
<1>2. QED
  BY <1>1, Inductive, PTL

-----------------------------------------------------------------------------
(* What is on disk is noticed. *)

\* The read half awaits its write, and reports the block only then.
LEMMA AwaitedInv ==
  ASSUME IInv, SlowDisk = FALSE, WritesAwaited, [Next]_vars
  PROVE  WritesAwaited'
<1>0. /\ storing \in [Connections -> AllBlocks \cup {None}]
      /\ \A w \in writes : w.by \in Connections /\ w.block \in AllBlocks
  BY DEF IInv, ConnectionsOK, DiskOK, Write
<1>1. CASE UNCHANGED <<writes, storing>>
  BY <1>1 DEF WritesAwaited
<1>2. ASSUME NEW c \in Connections, NEW pb \in AllBlocks, NEW content,
             HearPiece(c, pb, content)
      PROVE  WritesAwaited'
  <2>1. /\ storing[c] = None /\ storing' = [storing EXCEPT ![c] = pb]
        /\ writes' = writes \cup {[by |-> c, block |-> pb, content |-> content]}
    BY <1>2 DEF HearPiece
  <2>2. \A w \in writes : w.by # c
    BY <1>0, <2>1, NoneIsNothing DEF WritesAwaited
  <2>3. QED
    BY <1>0, <2>1, <2>2 DEF WritesAwaited
<1>3. ASSUME NEW c \in Connections, Report(c)
      PROVE  WritesAwaited'
  <2>1. /\ \A w \in writes : w.by # c
        /\ storing' = [storing EXCEPT ![c] = None] /\ writes' = writes
    BY <1>3 DEF Report, Landed, diskVars
  <2>2. QED
    BY <1>0, <2>1 DEF WritesAwaited
<1>4. ASSUME NEW w \in writes, Land(w)
      PROVE  WritesAwaited'
  BY <1>4 DEF Land, WritesAwaited, connVars
<1>5. CASE Crash
  BY <1>5 DEF Crash, WritesAwaited
<1>6. ASSUME Starting \/ Monitor \/ \E c \in Connections : Connect(c) \/ Ask(c) \/ HearUpdate(c)
      PROVE  UNCHANGED <<writes, storing>>
  BY <1>6 DEF Starting, Monitor, InitializeFile, StartMonitor, MonitorDownloaded,
              MonitorReads, MonitorDecides, MonitorLogs, MonitorEnds, Connect, Ask,
              HearUpdate, diskVars, connVars
<1>7. UNCHANGED vars => UNCHANGED <<writes, storing>>
  BY DEF vars, diskVars, connVars
<1>8. QED
  BY <1>1, <1>2, <1>3, <1>4, <1>5, <1>6, <1>7 DEF Next, Answers

\* A step that leaves the disk, the bitfield and the hash alone, and takes no
\* report of p away.
LEMMA StillNoticed ==
  ASSUME NEW p, Noticed(p), UNCHANGED <<disk, myBitfield, check>>,
         CheckDue(p) => CheckDue(p)'
  PROVE  Noticed(p)'
BY DEF Noticed, Checked, WillPass, WillFail, IntactPieces, Intact

\* A new download has no piece on disk; any other has hashed them all.
LEMMA StartNoticed ==
  ASSUME IInv, StartMonitor
  PROVE  AllNoticed'
<1>1. IntactPieces' = IntactPieces /\ check' = None
  BY DEF StartMonitor, IInv, IdleOK, IntactPieces, Intact, diskVars
<1>2. ASSUME fresh
      PROVE  IntactPieces = {}
  <2> SUFFICES ASSUME NEW p \in Pieces, Intact(p) PROVE FALSE
    BY DEF IntactPieces
  <2>1. <<p, 0>> \in OfPiece(p) /\ <<p, 0>> \in AllBlocks
    BY PiecesHaveBlocks DEF OfPiece
  <2>2. disk[<<p, 0>>] = "zeros"
    BY <1>2, <2>1 DEF StartMonitor, IInv, FilesOK, Files
  <2>3. QED
    BY <2>1, <2>2 DEF Intact
<1>3. myBitfield' = IntactPieces
  BY <1>2 DEF StartMonitor
<1>4. QED
  BY <1>1, <1>3 DEF AllNoticed, Noticed, Checked

\* A block that lands is about to be reported.
LEMMA LandNoticed ==
  ASSUME IInv, WritesAwaited, AllNoticed, NEW w \in writes, Land(w)
  PROVE  AllNoticed'
<1>1. /\ w.by \in Connections /\ w.block \in AllBlocks /\ storing[w.by] = w.block
      /\ disk \in [AllBlocks -> Content] /\ disk' = [disk EXCEPT ![w.block] = w.content]
      /\ UNCHANGED <<storing, inbox, check, myBitfield, phase, ended>>
  BY DEF IInv, DiskOK, Write, WritesAwaited, Land, connVars, monitorVars, startVars
<1>2. \A p \in Pieces : CheckDue(p)' <=> CheckDue(p)
  BY <1>1 DEF CheckDue
<1>3. CheckDue(w.block[1])
  BY <1>1, NoneIsNothing DEF CheckDue
<1>4. ASSUME NEW p \in Pieces, p # w.block[1]
      PROVE  \A pb \in OfPiece(p) : disk'[pb] = disk[pb]
  BY <1>1, <1>4 DEF OfPiece
<1>5. ASSUME NEW p \in Pieces, Noticed(p)
      PROVE  Noticed(p)'
  <2>1. CASE p = w.block[1]
    BY <1>2, <1>3, <2>1 DEF Noticed
  <2>2. CASE p # w.block[1]
    <3>1. /\ p \in IntactPieces' <=> p \in IntactPieces
          /\ WillPass(p)' <=> WillPass(p)
          /\ WillFail(p)' <=> WillFail(p)
      BY <1>1, <1>4, <2>2 DEF IntactPieces, Intact, WillPass, WillFail
    <3>2. QED
      BY <1>1, <1>2, <1>5, <3>1 DEF Noticed, Checked
  <2>3. QED
    BY <2>1, <2>2
<1>6. QED
  BY <1>1, <1>5 DEF AllNoticed

\* A connection's report replaces the block it was storing.
LEMMA ReportNoticed ==
  ASSUME IInv, AllNoticed, NEW c \in Connections, Report(c), ~inbox'.missed
  PROVE  AllNoticed'
<1> DEFINE q == storing[c][1]
<1> SUFFICES ASSUME phase' = "running", ~ended', NEW p \in Pieces PROVE Noticed(p)'
  BY DEF AllNoticed
<1>1. /\ storing[c] \in AllBlocks /\ storing' = [storing EXCEPT ![c] = None]
      /\ storing \in [Connections -> AllBlocks \cup {None}]
      /\ inbox' = IF ended THEN inbox ELSE Push(inbox, Downloaded(q), Capacity)
      /\ UNCHANGED <<disk, check, myBitfield, phase, ended>>
  BY DEF IInv, ConnectionsOK, Report, startVars, diskVars
<1>2. Downloaded(q) \in Message
  BY <1>1, Shape, MessagesExist
<1>3. Bounded(inbox, Message, Capacity) /\ Capacity \in Nat \ {0}
  BY DownloadAssumption DEF IInv, MonitorOK
<1>4. inbox' = Push(inbox, Downloaded(q), Capacity)
  BY <1>1
<1>5. Downloaded(q) \in Unread(inbox') /\ Unread(inbox) \subseteq Unread(inbox')
  <2> DEFINE m == Downloaded(q)
  <2>1. m \in Message /\ inbox' = Push(inbox, m, Capacity)
    BY <1>2, <1>4
  <2> HIDE DEF m
  <2>2. m \in Unread(inbox') /\ Unread(inbox) \subseteq Unread(inbox')
    BY <1>3, <2>1, PushEffect
  <2>3. QED
    BY <2>2 DEF m
<1>6. CheckDue(p) => CheckDue(p)'
  <2>1. ASSUME NEW d \in Connections, storing[d] # None, storing[d][1] = p
        PROVE  CheckDue(p)'
    <3>1. CASE d = c
      BY <1>5, <2>1, <3>1 DEF CheckDue
    <3>2. CASE d # c
      BY <1>1, <2>1, <3>2 DEF CheckDue
    <3>3. QED
      BY <3>1, <3>2
  <2>2. ASSUME Downloaded(p) \in Unread(inbox)
        PROVE  CheckDue(p)'
    BY <1>5, <2>2 DEF CheckDue
  <2>3. QED
    BY <2>1, <2>2 DEF CheckDue
<1>7. Noticed(p)
  BY <1>1 DEF AllNoticed
<1>8. QED
  BY <1>1, <1>6, <1>7, StillNoticed

\* The monitor begins to read, reads one block, or comes to its verdict.
LEMMA MonitorNotices ==
  ASSUME IInv, AllNoticed, Monitor, ~inbox.missed, ~inbox'.missed
  PROVE  AllNoticed'
<1> SUFFICES ASSUME phase' = "running", ~ended', NEW p \in Pieces PROVE Noticed(p)'
  BY DEF AllNoticed
<1>0. /\ Bounded(inbox, Message, Capacity) /\ Capacity \in Nat
      /\ UNCHANGED <<disk, phase, storing>> /\ IntactPieces' = IntactPieces
  BY DownloadAssumption
     DEF IInv, MonitorOK, Monitor, MonitorDownloaded, MonitorReads, MonitorDecides,
         MonitorLogs, MonitorEnds, diskVars, startVars, connVars, IntactPieces, Intact
<1>1. ~ended /\ Noticed(p)
  BY <1>0 DEF AllNoticed, Monitor, MonitorDownloaded, MonitorReads, MonitorDecides,
              MonitorLogs, MonitorEnds, MonitorReceives
<1>2. (Downloaded(p) \in Unread(inbox) => Downloaded(p) \in Unread(inbox'))
        => (CheckDue(p) => CheckDue(p)')
  BY <1>0 DEF CheckDue
<1>3. ASSUME NEW q \in Pieces, MonitorDownloaded(q)
      PROVE  Noticed(p)'
  <2>1. UNCHANGED <<myBitfield, disk>> /\ check = None
    BY <1>3 DEF MonitorDownloaded, MonitorReceives, diskVars
  <2>2. /\ check' # None /\ check'.piece = q /\ check'.next = 0 /\ check'.good
    BY <1>3, BeginsToRead
  <2>3. CASE p = q
    <3>1. \A pb \in OfPiece(p) : pb[2] >= 0
      BY Shape DEF OfPiece
    <3>2. Intact(p) => WillPass(p)'
      BY <2>1, <2>2, <2>3 DEF Intact, WillPass
    <3>3. ~Intact(p) => WillFail(p)'
      BY <2>1, <2>2, <2>3, <3>1 DEF Intact, WillFail
    <3>4. p \in IntactPieces' <=> Intact(p)
      BY <1>0 DEF IntactPieces
    <3>5. QED
      BY <3>2, <3>3, <3>4 DEF Noticed
  <2>4. CASE p # q
    <3>1. Downloaded(p) \in Unread(inbox) => Downloaded(p) \in Unread(inbox')
      BY <1>0, <1>3, <2>4, DeliverEffect, MessagesDiffer DEF MonitorDownloaded
    <3>2. CheckDue(p) => CheckDue(p)'
      BY <1>2, <3>1
    <3>3. ~Checked(p) /\ ~Checked(p)' /\ ~WillPass(p) /\ ~WillFail(p)
      BY <2>1, <2>2, <2>4 DEF Checked, WillPass, WillFail
    <3>4. QED
      BY <1>0, <1>1, <2>1, <3>2, <3>3 DEF Noticed
  <2>5. QED
    BY <2>3, <2>4
<1>4. CASE MonitorReads
  <2>1. /\ check \in Check /\ check # None /\ check.next < NumBlocks(check.piece)
        /\ UNCHANGED <<inbox, myBitfield>>
    BY <1>4 DEF IInv, MonitorOK, MonitorReads
  <2>2. /\ check' \in Check /\ check' # None
        /\ check'.piece = check.piece /\ check'.next = check.next + 1
        /\ check'.good <=> check.good /\ disk[<<check.piece, check.next>>] = "good"
    BY <1>4, <2>1, ReadsOn
  <2>3. check.next \in Nat /\ check.piece \in Pieces
    BY <2>1 DEF Check
  <2>4. <<check.piece, check.next>> \in OfPiece(check.piece)
    BY <2>1, <2>3, BlockOfPiece
  <2>5. \A pb \in OfPiece(check.piece) : /\ pb[2] \in Nat
                                         /\ pb = <<check.piece, pb[2]>>
    BY Shape DEF OfPiece
  <2>6. WillPass(p) => WillPass(p)'
    BY <1>0, <2>2, <2>3, <2>4, <2>5 DEF WillPass
  <2>7. WillFail(p) => WillFail(p)'
    <3>1. ASSUME WillFail(p), check.good
          PROVE  WillFail(p)'
      <4>1. PICK pb \in OfPiece(p) : pb[2] >= check.next /\ disk[pb] # "good"
        BY <3>1 DEF WillFail
      <4>2. p = check.piece
        BY <3>1 DEF WillFail
      <4>3. CASE pb[2] = check.next
        <5>1. ~check'.good
          BY <2>2, <2>5, <4>1, <4>2, <4>3
        <5>2. QED
          BY <2>2, <4>2, <5>1 DEF WillFail
      <4>4. CASE pb[2] # check.next
        <5>1. pb[2] >= check'.next
          BY <2>2, <2>3, <2>5, <4>1, <4>2, <4>4
        <5>2. QED
          BY <1>0, <2>2, <4>1, <4>2, <5>1 DEF WillFail
      <4>5. QED
        BY <4>3, <4>4
    <3>2. ASSUME WillFail(p), ~check.good
          PROVE  WillFail(p)'
      BY <2>2, <3>2 DEF WillFail
    <3>3. QED
      BY <3>1, <3>2
  <2>8. (CheckDue(p) => CheckDue(p)') /\ (Checked(p)' <=> Checked(p))
    BY <1>2, <2>1, <2>2 DEF Checked
  <2>9. QED
    BY <1>0, <1>1, <2>1, <2>6, <2>7, <2>8 DEF Noticed
<1>5. CASE MonitorDecides
  <2>1. /\ check \in Check /\ check.next = NumBlocks(check.piece)
        /\ Unread(inbox) \subseteq Unread(inbox')
    BY <1>5, MonitorTells
  <2>2. check' = None /\ check # None /\ myBitfield' = BitfieldAfterCheck
    BY <1>5 DEF MonitorDecides
  <2>3. CheckDue(p) => CheckDue(p)'
    BY <1>2, <2>1
  <2>4. CASE p = check.piece
    <3>1. WillPass(p) => p \in myBitfield'
      BY <2>2, <2>4 DEF WillPass, BitfieldAfterCheck
    <3>2. WillFail(p) => p \notin myBitfield'
      <4>1. ASSUME NEW pb \in OfPiece(p)
            PROVE  ~ pb[2] >= check.next
        <5>1. pb[2] \in 0 .. NumBlocks(p) - 1 /\ NumBlocks(p) \in Int
          BY Shape DEF OfPiece, Blocks
        <5>2. QED
          BY <2>1, <2>4, <5>1
      <4>2. QED
        BY <2>2, <2>4, <4>1 DEF WillFail, BitfieldAfterCheck
    <3>3. ~Checked(p)' /\ Checked(p)
      BY <2>2, <2>4 DEF Checked
    <3>4. QED
      BY <1>0, <1>1, <2>3, <3>1, <3>2, <3>3 DEF Noticed
  <2>5. CASE p # check.piece
    <3>1. p \in myBitfield' <=> p \in myBitfield
      BY <2>2, <2>5 DEF BitfieldAfterCheck
    <3>2. ~Checked(p)' /\ ~Checked(p) /\ ~WillPass(p) /\ ~WillFail(p)
      BY <2>2, <2>5 DEF Checked, WillPass, WillFail
    <3>3. QED
      BY <1>0, <1>1, <2>3, <3>1, <3>2 DEF Noticed
  <2>6. QED
    BY <2>4, <2>5
<1>6. CASE MonitorLogs
  <2>1. UNCHANGED <<check, myBitfield>> /\ inbox' = Received(inbox)
    BY <1>6 DEF MonitorLogs
  <2>2. PICK q \in Pieces : Delivers(inbox, Completed(q))
    BY <1>6 DEF MonitorLogs, Lags
  <2>3. Downloaded(p) \in Unread(inbox) => Downloaded(p) \in Unread(inbox')
    BY <1>0, <2>1, <2>2, DeliverEffect, MessagesDiffer
  <2>4. QED
    BY <1>0, <1>1, <1>2, <2>1, <2>3, StillNoticed
<1>7. ~MonitorEnds
  BY DEF MonitorEnds
<1>8. QED
  BY <1>3, <1>4, <1>5, <1>6, <1>7 DEF Monitor

\* A step of Download notices, unless the monitor has lost a message.
LEMMA NoticedInv ==
  ASSUME IInv, WritesAwaited, AllNoticed, ~inbox.missed, ~inbox'.missed, [Next]_vars
  PROVE  AllNoticed'
<1>1. CASE Starting
  <2>1. ASSUME NEW f \in Files, InitializeFile(f)
        PROVE  AllNoticed'
    BY <2>1 DEF InitializeFile, AllNoticed
  <2>2. QED
    BY <1>1, <2>1, StartNoticed DEF Starting
<1>2. ASSUME UNCHANGED <<disk, phase, myBitfield, inbox, ended, check>>,
             \A d \in Connections : storing[d] # None => storing'[d] = storing[d]
      PROVE  AllNoticed'
  <2>1. ASSUME NEW p \in Pieces
        PROVE  CheckDue(p) => CheckDue(p)'
    BY <1>2, <2>1 DEF CheckDue
  <2>2. QED
    BY <1>2, <2>1, StillNoticed DEF AllNoticed
<1>3. ASSUME NEW c \in Connections, Connect(c) \/ Ask(c) \/ HearUpdate(c)
      PROVE  AllNoticed'
  BY <1>2, <1>3 DEF Connect, Ask, HearUpdate, diskVars, startVars, monitorVars
<1>4. ASSUME NEW c \in Connections, Answers(c)
      PROVE  AllNoticed'
  <2>1. /\ UNCHANGED <<disk, phase, myBitfield, inbox, ended, check>>
        /\ storing[c] = None /\ \E pb : storing' = [storing EXCEPT ![c] = pb]
    BY <1>4 DEF Answers, HearPiece, startVars, monitorVars
  <2>2. \A d \in Connections : storing[d] # None => storing'[d] = storing[d]
    BY <2>1 DEF IInv, ConnectionsOK
  <2>3. QED
    BY <1>2, <2>1, <2>2
<1>5. CASE Crash
  BY <1>5 DEF Crash, AllNoticed
<1>6. CASE UNCHANGED vars
  BY <1>2, <1>6 DEF vars, diskVars, startVars, connVars, monitorVars
<1>7. QED
  BY <1>1, <1>3, <1>4, <1>5, <1>6, ReportNoticed, MonitorNotices, LandNoticed DEF Next

LEMMA NoticeInductive ==
  ASSUME SlowDisk = FALSE
  PROVE  Spec /\ []~inbox.missed => []AllNoticed
<1>1. Init => IInv /\ WritesAwaited /\ AllNoticed
  BY InitInv
<1>2. IInv /\ WritesAwaited /\ AllNoticed /\ ~inbox.missed /\ (~inbox.missed)' /\ [Next]_vars
        => IInv' /\ WritesAwaited' /\ AllNoticed'
  BY StepInv, AwaitedInv, NoticedInv
<1>3. QED
  BY <1>1, <1>2, PTL DEF Spec

\* On a disk that is not slow, a piece that is entirely on disk is always about
\* to be verified, however the monitor's reading interleaves with blocks that
\* are being stored and with restarts, as long as the monitor has lost no
\* message (monitor_file_progress only logs that it has).
THEOREM NoPieceForgotten ==
  ASSUME SlowDisk = FALSE
  PROVE  Spec /\ []~inbox.missed => []IntactIsNoticed
<1>1. AllNoticed => IntactIsNoticed
  BY DEF AllNoticed, Noticed, IntactIsNoticed, IntactPieces
<1>2. QED
  BY <1>1, NoticeInductive, PTL

\* Under the same conditions a verified piece that a late block has spoilt is
\* always about to be found out.
THEOREM SpoilingFoundOut ==
  ASSUME SlowDisk = FALSE
  PROVE  Spec /\ []~inbox.missed => []SpoiltIsNoticed
<1>1. IInv /\ AllNoticed => SpoiltIsNoticed
  BY DEF IInv, MonitorOK, AllNoticed, Noticed, SpoiltIsNoticed
<1>2. QED
  BY <1>1, Inductive, NoticeInductive, PTL

=============================================================================
