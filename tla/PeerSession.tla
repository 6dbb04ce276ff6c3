---------------------------- MODULE PeerSession ----------------------------
(***************************************************************************)
(* One connection, from the moment handle_peer has spawned its three tasks *)
(* (src/src/peer/mod.rs, connection.rs, state.rs):                         *)
(*                                                                         *)
(*   - the read half, read_peer, takes the peer's messages and the child   *)
(*     channel;                                                            *)
(*   - the write half, write_peer, owns the PieceTracker and selects over  *)
(*     the child channel, the peer's requests, a 10 ms timer and a Notify; *)
(*   - the forwarder passes updates between child and parent channels.     *)
(*                                                                         *)
(* A task gives way at every lock and channel operation, so a handler is   *)
(* cut wherever another task can see or change what it uses next.  The     *)
(* peer, the monitor that verifies pieces and the other connections are    *)
(* the environment.  Messages are read whole.                              *)
(***************************************************************************)
EXTENDS PieceTracker, Broadcast

CONSTANTS
  FastChoices,     \* may both sides have set the Fast Extension bit?
  ChildCapacity,   \* of the child broadcast channel, 32 in the code
  ParentCapacity,  \* of the parent broadcast channel, 32 in the code
  QueueCapacity,   \* of the peer's request queue, 16 in the code
  PeerMessages,    \* the kinds of messages this peer sends
  InitialBitfields,\* what may be on disk when the connection starts
  OthersVerify,    \* pieces that may be verified while it lasts
  OthersReport,    \* blocks other connections may report as downloaded
  MayBreak         \* may the connection fail?

MessageKinds ==
  { "BitField", "HaveAll", "HaveNone", "Have", "Choke", "UnChoke", "Piece",
    "Request", "UnknownRequest", "Cancel", "Port", "Advice" }

ASSUME SessionAssumption ==
  /\ FastChoices \subseteq BOOLEAN
  /\ MayBreak \in BOOLEAN
  /\ ChildCapacity \in Nat \ {0}
  /\ ParentCapacity \in Nat \ {0}
  /\ QueueCapacity \in Nat \ {0}
  /\ PeerMessages \subseteq MessageKinds
  /\ InitialBitfields \subseteq SUBSET Pieces
  /\ OthersVerify \subseteq Pieces
  /\ OthersReport \subseteq AllBlocks

VARIABLES
  \* the read half
  rpc,           \* "run", or how it ended: "ok", "err"
  reading,       \* the steps its handler still has to take; none: in select!
  \* the write half
  wpc,           \* where it is, or how it ended: "ok", "err", "panic"
  held,          \* `request`, the block send_one_round took off the tracker
  tracker,       \* `requested`, the PieceTracker
  told,          \* `am_interested`, what the peer was last told
  \* the forwarder
  fpc,           \* "run", or "ok"
  \* PeerState
  myBitfield, peerBitfield,
  amInterested, permit,   \* the Mutex<bool> and the Notify of am_interested
  peerChoking, amChoking,
  queue,                  \* request_queue, of which block only the piece counts
  \* channels
  child,         \* the child channel's receivers
  parentRx,      \* the forwarder's receiver of the parent channel
  \* the peer and the rest of the program
  supportsFast,  \* reserved.supports_fast(), the same on both sides
  connOpen,
  greeted,       \* has the peer sent anything yet?
  honest,        \* has it sent nothing that it may not send?
  chokes,        \* does the peer choke us?
  asked,         \* requests the peer has and has neither answered nor dropped
  announced,     \* pieces the peer was told we have
  stored,        \* blocks the read half wrote to disk
  reported,      \* blocks the forwarder reported to the parent channel
  verified,      \* the piece whose bit the monitor has set but not broadcast
  fileDone       \* has the monitor broadcast FileComplete?

readVars    == <<rpc, reading>>
writeVars   == <<wpc, held, tracker, told>>
sharedVars  == <<myBitfield, peerBitfield, amInterested, permit,
                 peerChoking, amChoking, queue>>
channelVars == <<child, parentRx>>
peerVars    == <<supportsFast, connOpen, greeted, honest, chokes, asked, announced>>
logVars     == <<stored, reported>>
monitorVars == <<verified, fileDone>>

vars == <<readVars, writeVars, fpc, sharedVars, channelVars, peerVars, logVars,
          monitorVars>>

Downloaded(pb) == <<"Downloaded", pb>>
Completed(p)   == <<"Completed", p>>
FileComplete   == <<"FileComplete", None>>
Disconnect     == <<"Disconnect", None>>

ThreadUpdate ==
  ({"Downloaded"} \X AllBlocks) \cup ({"Completed"} \X Pieces)
    \cup {FileComplete, Disconnect}

Receivers == {"read", "write", "forward"}

WriteRuns == wpc \in {"start", "loop", "ask", "weigh", "lose"}

Running ==
  { r \in Receivers : \/ (r = "read" /\ rpc = "run")
                     \/ (r = "write" /\ WriteRuns)
                     \/ (r = "forward" /\ fpc = "run") }

\* Mutant: the forwarder is not subscribed.
ToHalves(message) ==
  [r \in Receivers |-> IF r \in Running \ {"forward"}
                      THEN Push(child[r], message, ChildCapacity) ELSE child[r]]

\* child_tx.send
ToChildren(message) ==
  [r \in Receivers |-> IF r \in Running THEN Push(child[r], message, ChildCapacity)
                                        ELSE child[r]]

\* A task that ends drops its receiver.
Without(receivers, r) == [receivers EXCEPT ![r] = NoMessages]

Init ==
  /\ rpc = "run" /\ reading = <<>>
  /\ wpc = "start" /\ held = None /\ tracker = FromFileInfo /\ told = FALSE
  /\ fpc = "run"
  /\ myBitfield \in InitialBitfields /\ peerBitfield = {}
  /\ amInterested = FALSE /\ permit = FALSE
  /\ peerChoking = FALSE /\ amChoking = TRUE
  /\ queue = <<>>
  /\ child = [r \in Receivers |-> NoMessages] /\ parentRx = NoMessages
  /\ supportsFast \in FastChoices
  /\ connOpen = TRUE /\ greeted = FALSE /\ honest = TRUE /\ chokes = TRUE
  /\ asked = {} /\ announced = {}
  /\ stored = {} /\ reported = {}
  /\ verified = None /\ fileDone = FALSE

-----------------------------------------------------------------------------
(* The read half.  A handler is the list of steps it still has to take.      *)

Notify       == <<"notify", None>>
Store(value) == <<"store", value>>    \* am_interested := value
Weigh        == <<"weigh", None>>     \* should_be_interested
Lacks        == <<"lacks", None>>     \* HaveAll: are we missing a piece?
Enqueue(p)   == <<"enqueue", p>>      \* request_queue.send, of a block of p

\* Have and HaveAll wake the write half before they record the interest,
\* BitField after.
NotifyFirst == <<Notify, Store(TRUE)>>
StoreFirst  == <<Store(TRUE), Notify>>

Selecting == rpc = "run" /\ reading = <<>>

Permitted ==
  MessageKinds \ ({"UnknownRequest"} \cup IF supportsFast THEN {}
                                          ELSE {"HaveAll", "HaveNone", "Advice"})

\* The peer says something and the read half is free to hear it.
Hears(kind) ==
  /\ Selecting
  /\ connOpen
  /\ kind \in PeerMessages
  /\ greeted' = TRUE
  /\ honest' = (honest /\ kind \in Permitted)
  /\ UNCHANGED <<rpc, writeVars, fpc, parentRx, myBitfield, amInterested, permit,
                 amChoking, queue, supportsFast, connOpen, announced, reported,
                 monitorVars>>

\* A peer that chokes forgets our requests.
HearChoke ==
  /\ Hears("Choke")
  /\ chokes' = TRUE /\ asked' = {}
  /\ peerChoking' = TRUE
  /\ UNCHANGED <<reading, peerBitfield, child, stored>>

HearUnChoke ==
  /\ Hears("UnChoke")
  /\ chokes' = FALSE
  /\ peerChoking' = FALSE
  /\ UNCHANGED <<reading, peerBitfield, child, asked, stored>>

\* Mutant: the interest is weighed before the piece is noted.
HearHaveLate(p) ==
  /\ Hears("Have")
  /\ peerBitfield' = peerBitfield \cup {p}
  /\ reading' = IF peerBitfield \ myBitfield # {} THEN NotifyFirst ELSE <<>>
  /\ UNCHANGED <<peerChoking, child, chokes, asked, stored>>

HearHave(p) ==
  /\ Hears("Have")
  /\ peerBitfield' = peerBitfield \cup {p}
  /\ reading' = IF p \in peerBitfield THEN <<>> ELSE NotifyFirst
  /\ UNCHANGED <<peerChoking, child, chokes, asked, stored>>

\* Only as the first message.
HearBitField(pieces) ==
  /\ Hears("BitField")
  /\ ~greeted
  /\ peerBitfield' = peerBitfield \cup pieces
  /\ reading' = <<Weigh>>
  /\ UNCHANGED <<peerChoking, child, chokes, asked, stored>>

\* Interested, NotInterested and Port: read, and of no consequence.
HearOther ==
  /\ Hears("Port")
  /\ UNCHANGED <<reading, peerBitfield, peerChoking, child, chokes, asked, stored>>

\* Mutant: messages of the extension are refused to those that may send them.
FastInverted == child' = IF supportsFast THEN ToChildren(Disconnect) ELSE child

\* What all messages of the extension do first: without it the connection is to
\* be closed, but the handler goes on.
FastOnly == child' = IF supportsFast THEN child ELSE ToChildren(Disconnect)

\* SuggestPiece, RejectRequest and AllowedFast.  That their payload is not read
\* is the subject of WireFraming; here it makes no difference, for without the
\* extension the connection ends.
HearAdvice ==
  /\ Hears("Advice")
  /\ ~supportsFast
  /\ child["read"].q = <<>>     \* bound: one at a time
  /\ FastOnly
  /\ UNCHANGED <<reading, peerBitfield, peerChoking, chokes, asked, stored>>

HearHaveAll ==
  /\ Hears("HaveAll")
  /\ ~greeted
  /\ FastOnly
  /\ peerBitfield' = Pieces
  /\ reading' = <<Lacks>>
  /\ UNCHANGED <<peerChoking, chokes, asked, stored>>

HearHaveNone ==
  /\ Hears("HaveNone")
  /\ ~greeted
  /\ FastOnly
  /\ peerBitfield' = {}
  /\ reading' = <<Notify, Store(FALSE)>>
  /\ UNCHANGED <<peerChoking, chokes, asked, stored>>

\* A block we asked for: written to its files, then reported to all children.
HearPiece(pb) ==
  /\ Hears("Piece")
  /\ ~chokes /\ pb \in asked
  /\ asked' = asked \ {pb}
  /\ stored' = stored \cup {pb}
  /\ child' = ToChildren(Downloaded(pb))
  /\ UNCHANGED <<reading, peerBitfield, peerChoking, chokes>>

\* The peer asks for a block of a piece it was told we have, or of any piece.
HearRequest(p) ==
  /\ \/ Hears("Request") /\ ~amChoking /\ p \in announced
     \/ Hears("UnknownRequest")
  /\ reading' = <<Enqueue(p)>>
  /\ UNCHANGED <<peerBitfield, peerChoking, child, chokes, asked, stored>>

\* A cancel is queued like a request, for no bytes.
HearCancel(p) ==
  /\ Hears("Cancel")
  /\ p \in announced
  /\ reading' = IF amChoking THEN <<>> ELSE <<Enqueue(p)>>
  /\ UNCHANGED <<peerBitfield, peerChoking, child, chokes, asked, stored>>

\* The handler's next step.
ReadStep ==
  /\ rpc = "run" /\ reading # <<>>
  /\ LET step == Head(reading) IN
       \/ /\ step = Notify
          /\ permit' = TRUE
          /\ reading' = Tail(reading)
          /\ UNCHANGED <<rpc, amInterested, queue, child>>
       \/ /\ step \in {Store(TRUE), Store(FALSE)}
          /\ amInterested' = step[2]
          /\ reading' = Tail(reading)
          /\ UNCHANGED <<rpc, permit, queue, child>>
       \/ /\ step = Weigh
          /\ reading' = IF peerBitfield \ myBitfield # {}
                        THEN StoreFirst ELSE <<>>
          /\ UNCHANGED <<rpc, amInterested, permit, queue, child>>
       \/ /\ step = Lacks
          /\ reading' = IF myBitfield # Pieces THEN NotifyFirst ELSE <<>>
          /\ UNCHANGED <<rpc, amInterested, permit, queue, child>>
       \/ /\ step[1] = "enqueue" /\ WriteRuns
          /\ Len(queue) < QueueCapacity
          /\ queue' = Append(queue, step[2])
          /\ reading' = Tail(reading)
          /\ UNCHANGED <<rpc, amInterested, permit, child>>
       \/ /\ step[1] = "enqueue" /\ ~WriteRuns
          /\ rpc' = "err" /\ reading' = <<>>
          /\ child' = Without(child, "read")
          /\ UNCHANGED <<amInterested, permit, queue>>
  /\ UNCHANGED <<writeVars, fpc, myBitfield, peerBitfield, peerChoking, amChoking,
                 parentRx, peerVars, logVars, monitorVars>>

\* handle_channel_message: only Disconnect and a gap matter to this half.
ReadUpdate ==
  /\ Selecting
  /\ \/ /\ Lags(child["read"])
        /\ rpc' = "err"
        /\ child' = Without(child, "read")
     \/ /\ Delivers(child["read"], Disconnect)
        /\ rpc' = "ok"
        /\ child' = Without(child, "read")
     \/ /\ \E m \in ThreadUpdate \ {Disconnect} : Delivers(child["read"], m)
        /\ child' = [child EXCEPT !["read"] = Received(@)]
        /\ UNCHANGED rpc
  /\ UNCHANGED <<reading, writeVars, fpc, sharedVars, parentRx, peerVars, logVars,
                 monitorVars>>

\* The connection is gone.
ReadFails ==
  /\ Selecting
  /\ ~connOpen
  /\ rpc' = "err"
  /\ child' = Without(child, "read")
  /\ UNCHANGED <<reading, writeVars, fpc, sharedVars, parentRx, peerVars, logVars,
                 monitorVars>>

-----------------------------------------------------------------------------
(* The write half. *)

\* Mutant: only a complete bitfield is announced.
OpensWhenComplete == myBitfield = Pieces

\* Mutant: only a partial bitfield is announced.
OpensWhenPartial == myBitfield \notin {Pieces, {}}

\* Up to the loop.  my_bitfield stays read-locked, so nothing is verified
\* meanwhile; with the Fast Extension a partial bitfield is not sent.
Opens ==
  IF supportsFast THEN myBitfield \in {Pieces, {}} ELSE myBitfield # {}

WriteStart ==
  /\ wpc = "start"
  /\ tracker' = Update(FromFileInfo, myBitfield)
  /\ announced' = IF Opens THEN myBitfield ELSE {}
  /\ amChoking' = (myBitfield = {})
  /\ wpc' = "loop"
  /\ UNCHANGED <<readVars, held, told, fpc, myBitfield, peerBitfield, amInterested,
                 permit, peerChoking, queue, channelVars, supportsFast, connOpen,
                 greeted, honest, chokes, asked, logVars, monitorVars>>

\* process_message of a block this half's sibling stored.
WriteDownloaded(pb) ==
  /\ wpc = "loop"
  /\ Delivers(child["write"], Downloaded(pb))
  /\ child' = [child EXCEPT !["write"] = Received(@)]
  /\ tracker' = MarkBlockAsDownloaded(tracker, pb)
  /\ UNCHANGED <<readVars, wpc, held, told, fpc, sharedVars, parentRx, peerVars,
                 logVars, monitorVars>>

\* A verified piece: the peer is sent a Have, then the interest is weighed anew.
WriteCompleted(p) ==
  /\ wpc = "loop"
  /\ Delivers(child["write"], Completed(p))
  /\ child' = [child EXCEPT !["write"] = Received(@)]
  /\ tracker' = MarkPieceAsDownloaded(tracker, p)
  /\ announced' = announced \cup {p}
  /\ wpc' = "weigh"
  /\ UNCHANGED <<readVars, held, told, fpc, sharedVars, parentRx, supportsFast,
                 connOpen, greeted, honest, chokes, asked, logVars, monitorVars>>

\* should_be_interested: my_bitfield stays locked until peer_bitfield has been
\* read, so the two are read as one.
WriteWeigh ==
  /\ wpc = "weigh"
  /\ wpc' = IF peerBitfield \ myBitfield # {} THEN "loop" ELSE "lose"
  /\ UNCHANGED <<readVars, held, tracker, told, fpc, sharedVars, channelVars,
                 peerVars, logVars, monitorVars>>

WriteLose ==
  /\ wpc = "lose"
  /\ amInterested' = FALSE /\ permit' = TRUE
  /\ wpc' = "loop"
  /\ UNCHANGED <<readVars, held, tracker, told, fpc, myBitfield, peerBitfield,
                 peerChoking, amChoking, queue, channelVars, peerVars, logVars,
                 monitorVars>>

\* FileComplete: what the tracker still holds as pending is cancelled.
WriteFileComplete ==
  /\ wpc = "loop"
  /\ Delivers(child["write"], FileComplete)
  /\ child' = [child EXCEPT !["write"] = Received(@)]
  /\ asked' = asked \ PendingRequests(tracker)
  /\ UNCHANGED <<readVars, writeVars, fpc, sharedVars, parentRx, supportsFast,
                 connOpen, greeted, honest, chokes, announced, logVars, monitorVars>>

WriteDisconnect ==
  /\ wpc = "loop"
  /\ Delivers(child["write"], Disconnect)
  /\ wpc' = "ok"
  /\ child' = Without(child, "write")
  /\ UNCHANGED <<readVars, held, tracker, told, fpc, sharedVars, parentRx, peerVars,
                 logVars, monitorVars>>

\* Mutant: the write half goes on after a gap.
WriteIgnoresGap ==
  /\ wpc = "loop"
  /\ Lags(child["write"])
  /\ child' = [child EXCEPT !["write"] = Received(@)]
  /\ UNCHANGED <<readVars, writeVars, fpc, sharedVars, parentRx, peerVars, logVars,
                 monitorVars>>

\* A gap in the child channel is a `todo!()`.
WriteLagged ==
  /\ wpc = "loop"
  /\ Lags(child["write"])
  /\ wpc' = "panic"
  /\ child' = Without(child, "write")
  /\ UNCHANGED <<readVars, held, tracker, told, fpc, sharedVars, parentRx, peerVars,
                 logVars, monitorVars>>

\* Mutant: a request is looked at but not taken off the queue.
KeepsRequest == queue' = queue

TakesRequest == queue' = Tail(queue)

\* The peer's next request: not served while we choke; served when we have the
\* piece; a request for another piece severs the connection.
WriteServe ==
  /\ wpc = "loop"
  /\ queue # <<>>
  /\ TakesRequest
  /\ IF amChoking \/ Head(queue) \in myBitfield
     THEN UNCHANGED <<wpc, child>>
     ELSE /\ wpc' = "ok"
          /\ child' = Without(ToChildren(Disconnect), "write")
  /\ UNCHANGED <<readVars, held, tracker, told, fpc, myBitfield, peerBitfield,
                 amInterested, permit, peerChoking, amChoking, parentRx, peerVars,
                 logVars, monitorVars>>

\* The 10 ms timer: unless the peer chokes us, send_one_round takes a block off
\* the tracker ...
WriteTick ==
  /\ wpc = "loop"
  /\ ~peerChoking
  /\ \E result \in Request(tracker, peerBitfield) :
       /\ tracker' = result.tracker
       /\ held' = result.answer
       /\ wpc' = IF result.answer = None THEN "loop" ELSE "ask"
  /\ UNCHANGED <<readVars, told, fpc, sharedVars, channelVars, peerVars, logVars,
                 monitorVars>>

\* ... and asks the peer for it if we are interested.
WriteAsk ==
  /\ wpc = "ask"
  /\ asked' = IF amInterested THEN asked \cup {held} ELSE asked
  /\ held' = None
  /\ wpc' = "loop"
  /\ UNCHANGED <<readVars, tracker, told, fpc, sharedVars, channelVars, supportsFast,
                 connOpen, greeted, honest, chokes, announced, logVars, monitorVars>>

\* am_interested.1.notified(): tell the peer when the interest has changed.
WriteNotified ==
  /\ wpc = "loop"
  /\ permit
  /\ permit' = FALSE
  /\ told' = amInterested
  /\ UNCHANGED <<readVars, wpc, held, tracker, fpc, myBitfield, peerBitfield,
                 amInterested, peerChoking, amChoking, queue, channelVars, peerVars,
                 logVars, monitorVars>>

\* Any of the above that writes to the peer fails when the connection is gone.
WriteFails ==
  /\ ~connOpen
  /\ \/ wpc = "start" /\ (Opens \/ myBitfield # {})
     \/ /\ wpc = "loop"
        /\ \/ \E p \in Pieces : Delivers(child["write"], Completed(p))
           \/ /\ Delivers(child["write"], FileComplete)
              /\ PendingRequests(tracker) # {}
           \/ /\ queue # <<>> /\ ~amChoking
              /\ Head(queue) \in myBitfield
           \/ permit /\ told # amInterested
     \/ wpc = "ask" /\ amInterested
  /\ wpc' = "err"
  /\ child' = Without(child, "write")
  /\ UNCHANGED <<readVars, held, tracker, told, fpc, sharedVars, parentRx, peerVars,
                 logVars, monitorVars>>

-----------------------------------------------------------------------------
(* The forwarder. *)

\* From the children only blocks go up; a gap is ignored.
ForwardChild ==
  /\ fpc = "run"
  /\ \/ /\ \E pb \in AllBlocks :
             /\ Delivers(child["forward"], Downloaded(pb))
             /\ reported' = reported \cup {pb}
             /\ parentRx' = Push(parentRx, Downloaded(pb), ParentCapacity)
        /\ child' = [child EXCEPT !["forward"] = Received(@)]
        /\ UNCHANGED fpc
     \/ /\ Delivers(child["forward"], Disconnect)
        /\ fpc' = "ok"
        /\ child' = Without(child, "forward")
        /\ parentRx' = NoMessages
        /\ UNCHANGED reported
     \/ /\ \/ Lags(child["forward"])
           \/ Delivers(child["forward"], FileComplete)
           \/ \E p \in Pieces : Delivers(child["forward"], Completed(p))
        /\ child' = [child EXCEPT !["forward"] = Received(@)]
        /\ UNCHANGED <<fpc, reported, parentRx>>
  /\ UNCHANGED <<readVars, writeVars, sharedVars, peerVars, stored, monitorVars>>

\* Mutant: everything goes down.
PassEverything == ThreadUpdate

\* What goes down: everything but the blocks of other connections.
PassDown == {FileComplete, Disconnect} \cup {Completed(p) : p \in Pieces}

\* From the parent; a gap is ignored.
ForwardParent ==
  /\ fpc = "run"
  /\ \/ /\ \/ Lags(parentRx)
           \/ \E m \in ThreadUpdate \ PassDown : Delivers(parentRx, m)
        /\ UNCHANGED child
     \/ \E m \in PassDown :
          /\ Delivers(parentRx, m)
          /\ child' = ToChildren(m)
  /\ parentRx' = Received(parentRx)
  /\ UNCHANGED <<readVars, writeVars, fpc, sharedVars, peerVars, logVars, monitorVars>>

-----------------------------------------------------------------------------
(* The rest of the program: the monitor (download.rs) and other connections. *)

ParentSends(message) ==
  parentRx' = IF fpc = "run" THEN Push(parentRx, message, ParentCapacity) ELSE parentRx

\* Mutant: the piece is told to everybody but its bit is not set.
MonitorForgetsBit(p) ==
  /\ verified = None
  /\ p \notin myBitfield
  /\ verified' = p
  /\ UNCHANGED <<readVars, writeVars, fpc, sharedVars, channelVars, peerVars, logVars,
                 fileDone>>

\* The monitor sets the bit of a piece under the write lock, which is free but
\* during WriteStart ...
MonitorVerifies(p) ==
  /\ verified = None
  /\ p \notin myBitfield
  /\ myBitfield' = myBitfield \cup {p}
  /\ verified' = p
  /\ UNCHANGED <<readVars, writeVars, fpc, peerBitfield, amInterested, permit,
                 peerChoking, amChoking, queue, channelVars, peerVars, logVars,
                 fileDone>>

\* ... then tells everybody.
MonitorTells ==
  /\ verified # None
  /\ ParentSends(Completed(verified))
  /\ verified' = None
  /\ UNCHANGED <<readVars, writeVars, fpc, sharedVars, child, peerVars, logVars,
                 fileDone>>

MonitorFinishes ==
  /\ verified = None
  /\ myBitfield = Pieces
  /\ ~fileDone
  /\ fileDone' = TRUE
  /\ ParentSends(FileComplete)
  /\ UNCHANGED <<readVars, writeVars, fpc, sharedVars, child, peerVars, logVars,
                 verified>>

\* Another connection stored a block.
OtherReports(pb) ==
  /\ parentRx.q = <<>>          \* bound: one at a time
  /\ ParentSends(Downloaded(pb))
  /\ UNCHANGED <<readVars, writeVars, fpc, sharedVars, child, peerVars, logVars,
                 monitorVars>>

ConnectionBreaks ==
  /\ MayBreak
  /\ connOpen
  /\ connOpen' = FALSE
  /\ UNCHANGED <<readVars, writeVars, fpc, sharedVars, channelVars, supportsFast,
                 greeted, honest, chokes, asked, announced, logVars, monitorVars>>

-----------------------------------------------------------------------------
(* The specification. *)

PeerNext ==
  \/ HearChoke \/ HearUnChoke \/ HearHaveAll \/ HearHaveNone
  \/ HearOther \/ HearAdvice
  \/ \E p \in Pieces : HearHave(p) \/ HearRequest(p) \/ HearCancel(p)
  \/ \E pieces \in SUBSET Pieces : HearBitField(pieces)
  \/ \E pb \in AllBlocks : HearPiece(pb)

ReadNext == ReadStep \/ ReadUpdate \/ ReadFails

WriteUpdate ==
  \/ \E pb \in AllBlocks : WriteDownloaded(pb)
  \/ \E p \in Pieces : WriteCompleted(p)
  \/ WriteFileComplete \/ WriteDisconnect \/ WriteLagged

WriteNext ==
  \/ WriteStart \/ WriteUpdate \/ WriteWeigh \/ WriteLose
  \/ WriteServe \/ WriteTick \/ WriteAsk \/ WriteNotified \/ WriteFails

ForwardNext == ForwardChild \/ ForwardParent

Elsewhere ==
  \/ \E p \in OthersVerify : MonitorVerifies(p)
  \/ MonitorTells \/ MonitorFinishes \/ ConnectionBreaks
  \/ \E pb \in OthersReport : OtherReports(pb)

Next == PeerNext \/ ReadNext \/ WriteNext \/ ForwardNext \/ Elsewhere

Spec == Init /\ [][Next]_vars

\* Tasks that can run do run.  select! polls its branches in random order, so a
\* branch that is ready again and again is taken in the end: strong fairness.
FairSpec ==
  /\ Spec
  /\ WF_vars(ReadStep)
  /\ SF_vars(ReadUpdate)
  /\ SF_vars(ReadFails)
  /\ WF_vars(WriteStart \/ WriteWeigh \/ WriteLose \/ WriteAsk)
  /\ SF_vars(WriteUpdate)
  /\ SF_vars(WriteServe)
  /\ SF_vars(WriteNotified)
  /\ SF_vars(ForwardChild)
  /\ SF_vars(ForwardParent)
  /\ WF_vars(MonitorTells)

-----------------------------------------------------------------------------
(* Properties that hold. *)

\* Every variable has the type its declaration gives it, no channel outgrows its
\* capacity, and num_requested, a usize, never underflows.
TypeOK ==
  /\ rpc \in {"run", "ok", "err"}
  /\ Len(reading) <= 2
  /\ WriteRuns \/ wpc \in {"ok", "err", "panic"}
  /\ held \in AllBlocks \cup {None}
  /\ tracker \in Tracker
  /\ fpc \in {"run", "ok"}
  /\ {told, amInterested, permit, peerChoking, amChoking} \subseteq BOOLEAN
  /\ {connOpen, greeted, honest, chokes, fileDone} \subseteq BOOLEAN
  /\ {myBitfield, peerBitfield, announced} \subseteq SUBSET Pieces
  /\ {asked, stored, reported} \subseteq SUBSET AllBlocks
  /\ Len(queue) <= QueueCapacity
  /\ \A r \in Receivers : /\ Len(child[r].q) <= ChildCapacity
                          /\ Unread(child[r]) \subseteq ThreadUpdate
  /\ Len(parentRx.q) <= ParentCapacity
  /\ verified \in Pieces \cup {None}

\* The loop runs and there is a forwarder to feed it.
Serving == WriteRuns /\ wpc # "start" /\ fpc = "run"

\* The news that p was verified has not reached the write half yet, or a gap
\* that may hold it has not been noticed yet.
OnItsWay(p) ==
  \/ verified = p
  \/ Completed(p) \in Unread(parentRx) \cup Unread(child["write"])
  \/ parentRx.missed \/ child["write"].missed

\* The tracker lags behind what is verified and what this connection stored by
\* no more than the messages still in flight.  The connection subscribes to the
\* channels before write_peer copies the bitfield, so no piece verified in
\* between is lost; and a write half that missed a message does not go on.
TrackerCaughtUp ==
  Serving =>
    /\ \A p \in myBitfield :
         OfPiece(p) \subseteq InState(tracker, "Completed") \/ OnItsWay(p)
    /\ \A pb \in stored :
         \/ pb \in InState(tracker, "Completed")
         \/ Downloaded(pb) \in Unread(child["write"])
         \/ child["write"].missed

\* The peer knows of every verified piece, from the first message or from a
\* Have, except for those whose Completed is still in flight.
PeerKnowsWhatWeHave ==
  Serving => \A p \in myBitfield : p \in announced \/ OnItsWay(p)

\* The tracker takes nothing on trust: a block it holds for Completed was stored
\* by this connection, or its whole piece was verified.
CompletedIsEarned ==
  \A pb \in InState(tracker, "Completed") : pb \in stored \/ pb[1] \in myBitfield

\* Blocks travel up once: what other connections stored, which the parent
\* channel also carries, is not passed to the children and back up again.
ReportsOnlyOwnBlocks == reported \subseteq stored

\* Outstanding requests are for pieces the peer said it has.
AsksOnlyWhatPeerHas == \A pb \in asked : pb[1] \in peerBitfield

\* A request is sent for a block of a verified piece only while the write half
\* cannot know yet: no request repeats what was already stored or verified.
NoRequestForWhatWeHave ==
  [][ Serving => \A pb \in asked' \ asked :
        /\ pb \notin stored
        /\ pb[1] \in myBitfield => OnItsWay(pb[1]) ]_vars

\* The tasks of a connection have ended, so handle_peer has returned.
Returned == Running = {}

\* Somebody decided to close the connection.
Closing ==
  \/ rpc = "ok" \/ wpc = "ok" \/ fpc = "ok"
  \/ \E r \in Receivers : Disconnect \in Unread(child[r])

\* A Disconnect, whoever sent it, ends all three tasks and handle_peer returns.
DisconnectEndsAll == Closing ~> Returned

\* What is stored is reported, so the monitor gets to verify it, unless the
\* connection was closing.
StoredIsReported ==
  \A pb \in AllBlocks : (pb \in stored) ~> (pb \in reported \/ fpc = "ok")

\* A peer that sends no message of the Fast Extension without it and requests
\* only what it was told we have is never disconnected: no announcement runs
\* ahead of my_bitfield.
HonestPeerKept == honest => ~Closing

\* A read half waiting for room in the request queue gets on: it never waits
\* for a write half that waits for it.
ReadHalfGetsOn == (rpc = "run" /\ reading # <<>>) ~> (reading = <<>>)

\* Both halves wait for something to happen and no news is on its way to them.
AtRest ==
  /\ Selecting /\ wpc = "loop" /\ ~permit
  /\ child["read"] = NoMessages /\ child["write"] = NoMessages

\* "if peer has pieces we don't, notify write half": once everything has been
\* handled, a peer whose BitField showed a piece we lack has been told that we
\* are interested (without the extension: HaveAll notifies too early).
InterestSettles ==
  AtRest /\ ~supportsFast /\ peerBitfield \ myBitfield # {} => told

\* A Have or a HaveAll has woken the write half too early: what it would be woken
\* for is not stored yet, and the wake-up is gone.
WokenTooEarly == reading = <<Store(TRUE)>> /\ ~permit /\ ~told

\* The write half is about to give up an interest that an announcement has
\* renewed since it weighed it.
WeighedTooEarly == wpc = "lose" /\ peerBitfield \ myBitfield # {}

\* These are the only two ways to miss an interest: a behaviour that runs into
\* neither settles it, however the peer announces its pieces, with Haves while
\* pieces get verified too.
InterestSettlesUnlessEarly ==
  []~(WokenTooEarly \/ WeighedTooEarly)
    => [](AtRest /\ peerBitfield \ myBitfield # {} => told)

=============================================================================
