-------------------------- MODULE PeerSessionProofs --------------------------
(***************************************************************************)
(* Proofs about PeerSession, for torrents of any shape, channels and       *)
(* queues of any capacity, and any peer.                                   *)
(*                                                                         *)
(* IInv is inductive.  The tracker is caught up only as long as the        *)
(* forwarder reads the parent channel in time: it passes over a gap, so    *)
(* the theorems about verified pieces assume KeepsUp.  Interest settles    *)
(* unless it was woken for, or weighed, too early: Settling is the         *)
(* invariant of such behaviours.                                           *)
(***************************************************************************)
EXTENDS PeerSession, SharedLemmas

-----------------------------------------------------------------------------
(* The invariant, in parts. *)

\* What a handler of the read half may still have to do.
Readings ==
  { <<>>, <<Weigh>>, <<Lacks>>, NotifyFirst, StoreFirst, <<Notify>>,
    <<Store(TRUE)>>, <<Store(FALSE)>>, <<Notify, Store(FALSE)>> }
    \cup { <<Enqueue(p)>> : p \in Pieces }

HalvesOK ==
  /\ rpc \in {"run", "ok", "err"} /\ fpc \in {"run", "ok"}
  /\ wpc \in {"start", "loop", "ask", "weigh", "lose", "ok", "err", "panic"}
  /\ reading \in Readings
  /\ held \in AllBlocks \cup {None}
  /\ WriteRuns => (wpc = "ask" <=> held # None)
  /\ queue \in Seq(Pieces) /\ Len(queue) <= QueueCapacity

FlagsOK ==
  /\ told \in BOOLEAN /\ amInterested \in BOOLEAN /\ permit \in BOOLEAN
  /\ peerChoking \in BOOLEAN /\ amChoking \in BOOLEAN /\ supportsFast \in BOOLEAN
  /\ connOpen \in BOOLEAN /\ greeted \in BOOLEAN /\ honest \in BOOLEAN
  /\ chokes \in BOOLEAN /\ fileDone \in BOOLEAN

SetsOK ==
  /\ myBitfield \subseteq Pieces /\ peerBitfield \subseteq Pieces
  /\ announced \subseteq Pieces
  /\ asked \subseteq AllBlocks /\ stored \subseteq AllBlocks /\ reported \subseteq AllBlocks
  /\ verified \in Pieces \cup {None}

ChannelsOK ==
  /\ child \in [Receivers -> Receiver(ThreadUpdate)]
  /\ \A r \in Receivers : Bounded(child[r], ThreadUpdate, ChildCapacity)
  /\ Bounded(parentRx, ThreadUpdate, ParentCapacity)

\* A usize that never underflows: it counts the pending blocks.
TrackerOK ==
  /\ tracker \in Tracker
  /\ tracker.num_requested = Cardinality(PendingRequests(tracker))

\* Whatever is told of a piece or a block is true.
NewsIsTrue ==
  /\ verified # None => verified \in myBitfield
  /\ announced \subseteq myBitfield
  /\ \A p \in Pieces :
       /\ Completed(p) \in Unread(parentRx) => p \in myBitfield
       /\ \A r \in Receivers : Completed(p) \in Unread(child[r]) => p \in myBitfield
  /\ \A pb \in AllBlocks, r \in Receivers :
       Downloaded(pb) \in Unread(child[r]) => pb \in stored
  /\ Disconnect \notin Unread(parentRx)

\* Nothing is asked for, let alone stored, that the tracker does not know of, and
\* nothing before the loop.
AskedIsMarked ==
  /\ \A pb \in asked \cup stored : tracker.blocks[pb] # "UnRequested"
  /\ held # None => /\ tracker.blocks[held] = "Requested"
                    /\ held \notin asked \cup stored
  /\ wpc = "start" => asked = {} /\ stored = {} /\ tracker = FromFileInfo

\* Everything on its way to the peer is for a piece it said it has.
PeerHasIt ==
  /\ ~greeted => peerBitfield = {}
  /\ tracker.requested # None => tracker.requested \in peerBitfield
  /\ held # None => held[1] \in peerBitfield
  /\ AsksOnlyWhatPeerHas

\* An honest peer's requests are for verified pieces, and no Disconnect is sent.
HonestIsServed ==
  honest =>
    /\ rpc # "ok" /\ wpc # "ok" /\ fpc # "ok"
    /\ \A r \in Receivers : Disconnect \notin Unread(child[r])
    /\ \A i \in 1 .. Len(queue) : queue[i] \in myBitfield
    /\ \A p \in Pieces : reading = <<Enqueue(p)>> => p \in myBitfield

IInv ==
  /\ HalvesOK /\ FlagsOK /\ SetsOK /\ ChannelsOK /\ TrackerOK
  /\ NewsIsTrue /\ AskedIsMarked /\ PeerHasIt /\ HonestIsServed
  /\ CompletedIsEarned /\ ReportsOnlyOwnBlocks

\* The forwarder never finds a gap in the parent channel: it would ignore it.
KeepsUp == [][~(ForwardParent /\ Lags(parentRx))]_vars

-----------------------------------------------------------------------------
(* Which steps change what. *)

TrackerSteps ==
  \/ UNCHANGED tracker
  \/ WriteStart \/ WriteTick
  \/ \E pb \in AllBlocks : WriteDownloaded(pb)
  \/ \E p \in Pieces : WriteCompleted(p)

AskedSteps ==
  /\ asked' \subseteq asked \/ WriteAsk
  /\ UNCHANGED held \/ WriteTick \/ WriteAsk
  /\ UNCHANGED stored \/ \E pb \in AllBlocks : HearPiece(pb)
  /\ UNCHANGED reported \/ ForwardChild

BitfieldSteps ==
  /\ UNCHANGED myBitfield \/ \E p \in Pieces : MonitorVerifies(p)
  /\ UNCHANGED verified \/ MonitorTells \/ \E p \in Pieces : MonitorVerifies(p)
  /\ UNCHANGED announced \/ WriteStart \/ \E p \in Pieces : WriteCompleted(p)
  /\ \/ peerBitfield \subseteq peerBitfield' /\ (UNCHANGED peerBitfield \/ greeted')
     \/ HearHaveNone
  /\ greeted => greeted'

WpcSteps ==
  /\ UNCHANGED wpc \/ wpc' # "start"
  /\ Serving' => Serving \/ WriteStart
  /\ WriteRuns' => WriteRuns

\* Who may end well, and who leaves the honest.
EndSteps ==
  /\ honest' => honest
  /\ rpc' = "ok" => rpc = "ok" \/ ReadUpdate
  /\ wpc' = "ok" => wpc = "ok" \/ WriteDisconnect \/ WriteServe
  /\ fpc' = "ok" => fpc = "ok" \/ ForwardChild

RequestSteps ==
  /\ UNCHANGED queue \/ ReadStep \/ WriteServe
  /\ \/ \A p \in Pieces : reading' = <<Enqueue(p)>> => reading = <<Enqueue(p)>>
     \/ \E p \in Pieces : HearRequest(p) \/ HearCancel(p)

ParentSteps ==
  \/ UNCHANGED parentRx /\ verified \in {None, verified'}
  \/ ForwardChild \/ ForwardParent \/ MonitorTells \/ MonitorFinishes
  \/ \E pb \in AllBlocks : OtherReports(pb)

ChildSteps ==
  \/ UNCHANGED child
  \/ HearHaveAll \/ HearHaveNone \/ HearAdvice
  \/ ReadStep \/ ReadUpdate \/ ReadFails
  \/ WriteFileComplete \/ WriteDisconnect \/ WriteLagged \/ WriteServe \/ WriteFails
  \/ ForwardChild \/ ForwardParent
  \/ \E pb \in AllBlocks : HearPiece(pb) \/ WriteDownloaded(pb)
  \/ \E p \in Pieces : WriteCompleted(p)

Changes ==
  /\ ChildSteps /\ TrackerSteps /\ AskedSteps /\ BitfieldSteps /\ WpcSteps /\ EndSteps
  /\ RequestSteps /\ ParentSteps

ShapedStep == Changes /\ HalvesOK' /\ FlagsOK' /\ SetsOK'

\* A handler takes its steps in their order.
LEMMA ReadingSteps ==
  ASSUME NEW list \in Readings, list # <<>>
  PROVE  /\ Tail(list) \in Readings
         /\ \A p \in Pieces : Tail(list) # <<Enqueue(p)>>
         /\ Head(list) \in {Notify, Store(TRUE), Store(FALSE), Weigh, Lacks}
                              \cup { Enqueue(p) : p \in Pieces }
         /\ \/ Head(list) \in {Notify, Store(TRUE), Store(FALSE), Weigh, Lacks}
            \/ \E p \in Pieces : list = <<Enqueue(p)>>
<1>1. ASSUME NEW x, list = <<x>> PROVE Head(list) = x /\ Tail(list) = <<>>
  BY <1>1
<1>2. ASSUME NEW x, NEW y, list = <<x, y>> PROVE Head(list) = x /\ Tail(list) = <<y>>
  BY <1>2
<1>3. \A p \in Pieces : /\ <<>> # <<Enqueue(p)>> /\ <<Notify>> # <<Enqueue(p)>>
                       /\ \A value : <<Store(value)>> # <<Enqueue(p)>>
  <2>1. \A p \in Pieces : Notify # Enqueue(p) /\ \A value : Store(value) # Enqueue(p)
    BY DEF Notify, Store, Enqueue
  <2>2. \A x, y : <<x>> = <<y>> => x = y
    OBVIOUS
  <2>3. \A x : <<>> # <<x>>
    OBVIOUS
  <2>4. QED
    BY <2>1, <2>2, <2>3
<1>4. ASSUME NEW p \in Pieces, list = <<Enqueue(p)>>
      PROVE  Head(list) = Enqueue(p) /\ Tail(list) = <<>>
  BY <1>1, <1>4
<1>5. CASE list \in { <<Weigh>>, <<Lacks>>, <<Notify>>, <<Store(TRUE)>>, <<Store(FALSE)>> }
  BY <1>1, <1>3, <1>5 DEF Readings
<1>6. CASE list \in { NotifyFirst, StoreFirst, <<Notify, Store(FALSE)>> }
  BY <1>2, <1>3, <1>6 DEF Readings, NotifyFirst, StoreFirst
<1>7. CASE list \in { <<Enqueue(p)>> : p \in Pieces }
  BY <1>3, <1>4, <1>7 DEF Readings
<1>8. QED
  BY <1>5, <1>6, <1>7 DEF Readings

LEMMA StepsAreShaped == IInv /\ [Next]_vars => ShapedStep
<1> SUFFICES ASSUME IInv, [Next]_vars PROVE ShapedStep
  OBVIOUS
<1> USE DEF IInv, ShapedStep, Changes, TrackerSteps, AskedSteps, BitfieldSteps, WpcSteps,
            EndSteps, RequestSteps, ParentSteps, ChildSteps, HalvesOK, FlagsOK, SetsOK, Serving,
            WriteRuns, readVars, writeVars, sharedVars, channelVars, peerVars, logVars,
            monitorVars
<1>1. CASE HearChoke
  BY <1>1 DEF HearChoke, Hears
<1>2. CASE HearUnChoke
  <2>1. FlagsOK'
    BY <1>2, Zenon DEF HearUnChoke, Hears
  <2>2. QED
    BY <1>2, <2>1 DEF HearUnChoke, Hears
<1>3. CASE HearHaveAll
  BY <1>3 DEF HearHaveAll, Hears, Readings, Notify, Store, Weigh, Lacks, Enqueue, NotifyFirst, StoreFirst
<1>4. CASE HearHaveNone
  BY <1>4 DEF HearHaveNone, Hears, Readings, Notify, Store, Weigh, Lacks, Enqueue, NotifyFirst, StoreFirst
<1>5. CASE HearOther
  BY <1>5 DEF HearOther, Hears
<1>6. CASE HearAdvice
  BY <1>6 DEF HearAdvice, Hears
<1>7. ASSUME NEW p \in Pieces, HearHave(p) PROVE ShapedStep
  BY <1>7 DEF HearHave, Hears, Readings, Notify, Store, Weigh, Lacks, Enqueue, NotifyFirst, StoreFirst
<1>8. ASSUME NEW p \in Pieces, HearRequest(p) PROVE ShapedStep
  <2>1. reading' \in Readings
    BY <1>8 DEF HearRequest, Readings
  <2>2. RequestSteps /\ (honest' => honest)
    BY <1>8 DEF HearRequest, Hears
  <2>3. /\ UNCHANGED <<rpc, writeVars, fpc, parentRx, myBitfield, amInterested, permit,
                      amChoking, queue, supportsFast, connOpen, announced, reported,
                      monitorVars, peerBitfield, peerChoking, child, chokes, asked, stored>>
        /\ greeted' = TRUE /\ honest' \in BOOLEAN
    BY <1>8 DEF HearRequest, Hears
  <2>4. QED
    BY <2>1, <2>2, <2>3
<1>9. ASSUME NEW p \in Pieces, HearCancel(p) PROVE ShapedStep
  <2>1. reading' \in Readings
    BY <1>9 DEF HearCancel, Readings
  <2>2. RequestSteps
    BY <1>9 DEF HearCancel, Hears
  <2>3. QED
    BY <1>9, <2>1, <2>2 DEF HearCancel, Hears
<1>10. ASSUME NEW pieces \in SUBSET Pieces, HearBitField(pieces) PROVE ShapedStep
  BY <1>10 DEF HearBitField, Hears, Readings, Notify, Store, Weigh, Lacks, Enqueue, NotifyFirst, StoreFirst
<1>11. ASSUME NEW pb \in AllBlocks, HearPiece(pb) PROVE ShapedStep
  BY <1>11 DEF HearPiece, Hears
<1>12. CASE ReadStep
  <2> DEFINE step == Head(reading)
  <2>1. /\ reading # <<>>
        /\ reading' \in { Tail(reading), StoreFirst, NotifyFirst, <<>> }
    BY <1>12 DEF ReadStep
  <2>2. reading' \in Readings /\ \A p \in Pieces : reading' # <<Enqueue(p)>>
    <3>1. \A p \in Pieces : \A x, y : <<x, y>> # <<Enqueue(p)>> /\ <<>> # <<Enqueue(p)>>
      OBVIOUS
    <3>2. Tail(reading) \in Readings /\ \A p \in Pieces : Tail(reading) # <<Enqueue(p)>>
      BY <2>1, ReadingSteps
    <3>3. QED
      BY <2>1, <3>1, <3>2 DEF Readings, StoreFirst, NotifyFirst
  <2>3. /\ step[1] = "enqueue" => step[2] \in Pieces
        /\ step \in {Store(TRUE), Store(FALSE)} => step[2] \in BOOLEAN
    <3>1. step \in {Notify, Store(TRUE), Store(FALSE), Weigh, Lacks} => step[1] # "enqueue"
      <4>1. Notify[1] = "notify" /\ Weigh[1] = "weigh" /\ Lacks[1] = "lacks"
        BY DEF Notify, Weigh, Lacks
      <4>2. Store(TRUE)[1] = "store" /\ Store(FALSE)[1] = "store"
        BY DEF Store
      <4>3. QED
        BY <4>1, <4>2
    <3>2. step \in { Enqueue(p) : p \in Pieces } => step[2] \in Pieces
      BY DEF Enqueue
    <3>3. step \in {Store(TRUE), Store(FALSE)} => step[2] \in BOOLEAN
      <4>1. Store(TRUE)[2] = TRUE /\ Store(FALSE)[2] = FALSE
        BY DEF Store
      <4>2. QED
        BY <4>1, Zenon
    <3>4. QED
      BY <2>1, <3>1, <3>2, <3>3, ReadingSteps
  <2>4. \/ UNCHANGED queue
        \/ /\ step[1] = "enqueue" /\ Len(queue) < QueueCapacity
           /\ queue' = Append(queue, step[2])
    BY <1>12 DEF ReadStep
  <2>5. queue' \in Seq(Pieces) /\ Len(queue') <= QueueCapacity
    <3>1. queue \in Seq(Pieces) /\ Len(queue) <= QueueCapacity
      OBVIOUS
    <3>2. CASE UNCHANGED queue
      BY <3>1, <3>2
    <3>3. CASE step[2] \in Pieces /\ Len(queue) < QueueCapacity /\ queue' = Append(queue, step[2])
      BY <3>1, <3>3, SessionAssumption
    <3>4. QED
      BY <2>3, <2>4, <3>2, <3>3
  <2>6. FlagsOK'
    <3>1. amInterested' \in BOOLEAN
      BY <1>12, <2>3 DEF ReadStep
    <3>2. permit' \in BOOLEAN
      BY <1>12 DEF ReadStep
    <3>3. UNCHANGED <<told, peerChoking, amChoking, supportsFast, connOpen, greeted, honest,
                      chokes, fileDone>>
      BY <1>12 DEF ReadStep, writeVars, readVars, monitorVars
    <3>4. QED
      BY <3>1, <3>2, <3>3
  <2>7. UNCHANGED <<wpc, held, fpc>> /\ rpc' \in {"run", "ok", "err"}
    BY <1>12 DEF ReadStep
  <2>8. HalvesOK'
    BY <2>2, <2>5, <2>7
  <2> HIDE DEF step, HalvesOK
  <2>9. QED
    BY <1>12, <2>2, <2>6, <2>8 DEF ReadStep
<1>13. CASE ReadUpdate
  BY <1>13 DEF ReadUpdate, Selecting
<1>14. CASE ReadFails
  BY <1>14 DEF ReadFails, Selecting
<1>15. CASE WriteStart
  BY <1>15 DEF WriteStart
<1>16. ASSUME NEW pb \in AllBlocks, WriteDownloaded(pb) PROVE ShapedStep
  BY <1>16 DEF WriteDownloaded
<1>17. ASSUME NEW p \in Pieces, WriteCompleted(p) PROVE ShapedStep
  BY <1>17 DEF WriteCompleted
<1>18. CASE WriteFileComplete
  BY <1>18 DEF WriteFileComplete
<1>19. CASE WriteDisconnect
  BY <1>19 DEF WriteDisconnect
<1>20. CASE WriteLagged
  BY <1>20 DEF WriteLagged
<1>21. CASE WriteWeigh
  BY <1>21 DEF WriteWeigh
<1>22. CASE WriteLose
  <2>1. FlagsOK'
    BY <1>22, Zenon DEF WriteLose
  <2>2. QED
    BY <1>22, <2>1 DEF WriteLose
<1>23. CASE WriteServe
  <2>1. queue' \in Seq(Pieces) /\ Len(queue') <= QueueCapacity
    BY <1>23, HeadAndTail, SessionAssumption DEF WriteServe, TakesRequest
  <2>2. QED
    BY <1>23, <2>1 DEF WriteServe
<1>24. CASE WriteTick
  <2>1. held' \in AllBlocks \cup {None}
    <3>1. PICK r \in Request(tracker, peerBitfield) : held' = r.answer
      BY <1>24 DEF WriteTick
    <3>2. QED
      BY <3>1, RequestResults DEF TrackerOK, Takes, UnRequestedOf, OfPiece
  <2>2. wpc' \in {"loop", "ask"} /\ (wpc' = "ask" <=> held' # None)
    BY <1>24 DEF WriteTick
  <2>3. QED
    BY <1>24, <2>1, <2>2 DEF WriteTick
<1>25. CASE WriteAsk
  <2>1. held \in AllBlocks
    BY <1>25 DEF WriteAsk
  <2>2. QED
    BY <1>25, <2>1 DEF WriteAsk
<1>26. CASE WriteNotified
  <2>1. FlagsOK'
    BY <1>26, Zenon DEF WriteNotified
  <2>2. QED
    BY <1>26, <2>1 DEF WriteNotified
<1>27. CASE WriteFails
  BY <1>27 DEF WriteFails
<1>28. CASE ForwardChild
  BY <1>28 DEF ForwardChild
<1>29. CASE ForwardParent
  BY <1>29 DEF ForwardParent
<1>30. ASSUME NEW p \in OthersVerify, MonitorVerifies(p) PROVE ShapedStep
  BY <1>30, SessionAssumption DEF MonitorVerifies
<1>31. CASE MonitorTells
  BY <1>31 DEF MonitorTells, ParentSends
<1>32. CASE MonitorFinishes
  BY <1>32 DEF MonitorFinishes, ParentSends
<1>33. CASE ConnectionBreaks
  <2>1. FlagsOK'
    BY <1>33, Zenon DEF ConnectionBreaks
  <2>2. QED
    BY <1>33, <2>1 DEF ConnectionBreaks
<1>34. ASSUME NEW pb \in OthersReport, OtherReports(pb) PROVE ShapedStep
  BY <1>34, SessionAssumption DEF OtherReports, ParentSends
<1>35. CASE UNCHANGED vars
  BY <1>35 DEF vars
<1>36. QED
  BY <1>1, <1>2, <1>3, <1>4, <1>5, <1>6, <1>7, <1>8, <1>9, <1>10, <1>11, <1>12, <1>13, <1>14, <1>15, <1>16, <1>17, <1>18, <1>19, <1>20, <1>21, <1>22, <1>23, <1>24, <1>25, <1>26, <1>27, <1>28, <1>29, <1>30, <1>31, <1>32, <1>33, <1>34, <1>35
     DEF Next, PeerNext, ReadNext, WriteNext, WriteUpdate, ForwardNext, Elsewhere

-----------------------------------------------------------------------------
(* What a step does to a receiver of the child channel. *)

\* The task has ended.
Dropped(r) == r \notin Running' /\ child'[r] = NoMessages

\* recv returned; the write half ends when that is a gap.
Heard(r) ==
  /\ Lags(child[r]) \/ \E m : Delivers(child[r], m)
  /\ child'[r] = Received(child[r])
  /\ r = "write" => \/ WriteFileComplete
                    \/ \E pb \in AllBlocks : WriteDownloaded(pb)
                    \/ \E p \in Pieces : WriteCompleted(p)

\* There are three sources of messages.
Told(r, m) ==
  /\ \/ \E pb \in AllBlocks : HearPiece(pb) /\ m = Downloaded(pb)
     \/ m = Disconnect /\ ~honest'
     \/ m \in PassDown /\ Delivers(parentRx, m)
  /\ child'[r] = Push(child[r], m, ChildCapacity)

ChildStep(r) ==
  child'[r] = child[r] \/ Dropped(r) \/ Heard(r) \/ \E m \in ThreadUpdate : Told(r, m)

LEMMA StepChild ==
  ASSUME IInv, ShapedStep
  PROVE  /\ child' = [r \in Receivers |-> child'[r]]
         /\ \A r \in Receivers : ChildStep(r)
<1> DEFINE Goal == /\ child' = [r \in Receivers |-> child'[r]]
                   /\ \A r \in Receivers : ChildStep(r)
<1> SUFFICES Goal
  OBVIOUS
<1>0. child = [r \in Receivers |-> child[r]] /\ Receivers = {"read", "write", "forward"}
  BY DEF IInv, ChannelsOK, Receivers
<1>1. ASSUME NEW m \in ThreadUpdate, child' = ToChildren(m),
             \/ \E pb \in AllBlocks : HearPiece(pb) /\ m = Downloaded(pb)
             \/ m = Disconnect /\ ~honest'
             \/ m \in PassDown /\ Delivers(parentRx, m)
      PROVE  Goal
  BY <1>1 DEF ToChildren, ChildStep, Told
<1>2. ASSUME NEW r \in Receivers, child' = Without(child, r), r \notin Running'
      PROVE  Goal
  BY <1>0, <1>2 DEF Without, ChildStep, Dropped
<1>3. ASSUME NEW r \in Receivers, child' = [child EXCEPT ![r] = Received(@)],
             Lags(child[r]) \/ \E m : Delivers(child[r], m),
             r = "write" => \/ WriteFileComplete
                            \/ \E pb \in AllBlocks : WriteDownloaded(pb)
                            \/ \E p \in Pieces : WriteCompleted(p)
      PROVE  Goal
  BY <1>0, <1>3 DEF ChildStep, Heard
<1>4. CASE UNCHANGED child
  BY <1>0, <1>4 DEF ChildStep
<1>5. Disconnect \in ThreadUpdate /\ PassDown \subseteq ThreadUpdate
  BY DEF ThreadUpdate, PassDown, Completed
<1> HIDE DEF Goal
<1>6. CASE HearHaveAll \/ HearHaveNone \/ HearAdvice
  <2>1. UNCHANGED child \/ (child' = ToChildren(Disconnect) /\ ~supportsFast)
    <3>1. FastOnly /\ supportsFast \in BOOLEAN
      BY <1>6 DEF HearHaveAll, HearHaveNone, HearAdvice, IInv, FlagsOK
    <3>2. ASSUME supportsFast PROVE UNCHANGED child
      BY <3>1, <3>2, Zenon DEF FastOnly
    <3>3. ASSUME ~supportsFast PROVE child' = ToChildren(Disconnect)
      BY <3>1, <3>3, Zenon DEF FastOnly
    <3>4. QED
      BY <3>2, <3>3, Zenon
  <2>2. ~supportsFast => ~honest'
    BY <1>6 DEF HearHaveAll, HearHaveNone, HearAdvice, Hears, Permitted
  <2>3. QED
    <3>1. CASE child' = ToChildren(Disconnect) /\ ~supportsFast
      BY <1>1, <1>5, <2>2, <3>1
    <3>2. QED
      BY <1>4, <2>1, <3>1
<1>7. CASE ReadStep \/ ReadUpdate \/ ReadFails
  <2>1. \/ UNCHANGED child
        \/ child' = Without(child, "read") /\ rpc' # "run"
        \/ /\ child' = [child EXCEPT !["read"] = Received(@)]
           /\ \E m : Delivers(child["read"], m)
    BY <1>7 DEF ReadStep, ReadUpdate, ReadFails
  <2>2. rpc' # "run" => "read" \notin Running'
    BY DEF Running
  <2>3. "read" \in Receivers /\ "read" # "write"
    BY DEF Receivers
  <2>4. QED
    BY <1>2, <1>3, <1>4, <2>1, <2>2, <2>3
<1>8. CASE WriteFileComplete
  <2>1. /\ child' = [child EXCEPT !["write"] = Received(@)]
        /\ \E m : Delivers(child["write"], m)
    BY <1>8 DEF WriteFileComplete
  <2>2. QED
    BY <1>3, <1>8, <2>1 DEF Receivers
<1>9. CASE WriteDisconnect \/ WriteLagged \/ WriteFails
  <2>1. child' = Without(child, "write") /\ ~WriteRuns'
    BY <1>9 DEF WriteDisconnect, WriteLagged, WriteFails, WriteRuns
  <2>2. "write" \in Receivers /\ "write" \notin Running'
    BY <2>1 DEF Running, Receivers
  <2>3. QED
    BY <1>2, <2>1, <2>2
<1>12. CASE WriteServe
  <2>1. CASE UNCHANGED child
    BY <1>4, <2>1
  <2>2. CASE /\ ~(amChoking \/ Head(queue) \in myBitfield)
             /\ wpc' = "ok"
             /\ child' = Without(ToChildren(Disconnect), "write")
    <3>1. ~honest'
      <4>1. queue # <<>> /\ queue \in Seq(Pieces) /\ UNCHANGED honest
        BY <1>12 DEF WriteServe, IInv, HalvesOK, peerVars
      <4>2. Head(queue) = queue[1] /\ 1 \in 1 .. Len(queue)
        BY <4>1
      <4>3. QED
        BY <2>2, <4>1, <4>2 DEF IInv, HonestIsServed
    <3>2. "write" \notin Running'
      BY <2>2 DEF Running, WriteRuns
    <3>3. QED
      BY <1>0, <1>5, <2>2, <3>1, <3>2
         DEF Without, ToChildren, ChildStep, Dropped, Told, Goal
  <2>3. QED
    BY <1>12, <2>1, <2>2 DEF WriteServe
<1>13. CASE ForwardChild
  <2>1. \/ child' = Without(child, "forward") /\ fpc' # "run"
        \/ /\ child' = [child EXCEPT !["forward"] = Received(@)]
           /\ Lags(child["forward"]) \/ \E m : Delivers(child["forward"], m)
    BY <1>13 DEF ForwardChild
  <2>2. fpc' # "run" => "forward" \notin Running'
    BY DEF Running
  <2>3. "forward" \in Receivers /\ "forward" # "write"
    BY DEF Receivers
  <2>4. QED
    BY <1>2, <1>3, <2>1, <2>2, <2>3
<1>14. CASE ForwardParent
  <2>1. \/ UNCHANGED child
        \/ \E m \in PassDown : Delivers(parentRx, m) /\ child' = ToChildren(m)
    BY <1>14 DEF ForwardParent
  <2>2. QED
    BY <1>1, <1>4, <1>5, <2>1
<1>15. ASSUME NEW pb \in AllBlocks, HearPiece(pb) \/ WriteDownloaded(pb)
       PROVE  Goal
  <2>1. CASE HearPiece(pb)
    <3>1. Downloaded(pb) \in ThreadUpdate /\ child' = ToChildren(Downloaded(pb))
      BY <2>1 DEF ThreadUpdate, Downloaded, HearPiece
    <3>2. QED
      BY <1>1, <2>1, <3>1
  <2>2. CASE WriteDownloaded(pb)
    BY <1>3, <2>2 DEF WriteDownloaded, Receivers
  <2>3. QED
    BY <1>15, <2>1, <2>2
<1>16. ASSUME NEW p \in Pieces, WriteCompleted(p)
       PROVE  Goal
  BY <1>3, <1>16 DEF WriteCompleted, Receivers
<1>17. QED
  BY <1>4, <1>6, <1>7, <1>8, <1>9, <1>12, <1>13, <1>14, <1>15, <1>16
     DEF Goal, ShapedStep, Changes, ChildSteps

\* Nothing is read that was not sent, and a message that is read was there.
LEMMA ChildEffect ==
  ASSUME IInv, ShapedStep, NEW r \in Receivers
  PROVE  /\ Bounded(child'[r], ThreadUpdate, ChildCapacity)
         /\ \A m \in Unread(child'[r]) :
              m \in Unread(child[r]) \/ (m \in ThreadUpdate /\ Told(r, m))
<1>0. /\ Bounded(child[r], ThreadUpdate, ChildCapacity)
      /\ ChildCapacity \in Nat \ {0}
  BY SessionAssumption DEF IInv, ChannelsOK
<1>1. ChildStep(r)
  BY StepChild
<1>2. CASE child'[r] = child[r]
  BY <1>0, <1>2
<1>3. CASE Dropped(r)
  BY <1>0, <1>3, NoMessagesHeld DEF Dropped
<1>4. CASE Heard(r)
  <2>1. CASE Lags(child[r])
    BY <1>0, <1>4, <2>1, LagEffect DEF Heard
  <2>2. ASSUME NEW m, Delivers(child[r], m)
        PROVE  /\ Bounded(child'[r], ThreadUpdate, ChildCapacity)
               /\ Unread(child'[r]) \subseteq Unread(child[r])
    BY <1>0, <1>4, <2>2, DeliverEffect DEF Heard
  <2>3. QED
    BY <1>4, <2>1, <2>2 DEF Heard
<1>5. ASSUME NEW m \in ThreadUpdate, Told(r, m)
      PROVE  /\ Bounded(child'[r], ThreadUpdate, ChildCapacity)
             /\ Unread(child'[r]) \subseteq Unread(child[r]) \cup {m}
  <2>1. child'[r] = Push(child[r], m, ChildCapacity)
    BY <1>5 DEF Told
  <2>2. QED
    BY <1>0, <2>1, PushEffect
<1>6. QED
  BY <1>1, <1>2, <1>3, <1>4, <1>5 DEF ChildStep

\* There are three sources of messages, and what was verified is told.
ParentTold(m) ==
  /\ \/ \E pb \in AllBlocks : m = Downloaded(pb) /\ UNCHANGED verified
     \/ m = FileComplete /\ UNCHANGED verified
     \/ m = Completed(verified) /\ verified \in Pieces
  /\ \/ parentRx' = Push(parentRx, m, ParentCapacity)
     \/ UNCHANGED parentRx /\ fpc # "run"

ParentStep ==
  \/ UNCHANGED parentRx /\ verified \in {None, verified'}
  \/ parentRx' = NoMessages /\ fpc' = "ok"
  \/ /\ ForwardParent /\ (Lags(parentRx) \/ \E m : Delivers(parentRx, m))
     /\ parentRx' = Received(parentRx) /\ UNCHANGED verified
  \/ \E m \in ThreadUpdate : ParentTold(m)

LEMMA StepParent ==
  ASSUME IInv, ShapedStep
  PROVE  ParentStep
<1>0. /\ \A pb \in AllBlocks : Downloaded(pb) \in ThreadUpdate
      /\ \A p \in Pieces : Completed(p) \in ThreadUpdate
      /\ FileComplete \in ThreadUpdate
  BY DEF Downloaded, Completed, ThreadUpdate
<1>1. CASE ForwardChild
  <2>1. CASE parentRx' = NoMessages /\ fpc' = "ok"
    BY <2>1 DEF ParentStep
  <2>2. UNCHANGED verified
    BY <1>1 DEF ForwardChild, monitorVars
  <2>3. CASE UNCHANGED parentRx
    BY <2>2, <2>3 DEF ParentStep
  <2>4. ASSUME NEW pb \in AllBlocks, parentRx' = Push(parentRx, Downloaded(pb), ParentCapacity)
        PROVE  ParentStep
    BY <1>0, <2>2, <2>4 DEF ParentStep, ParentTold
  <2>5. QED
    BY <1>1, <2>1, <2>3, <2>4 DEF ForwardChild
<1>2. CASE ForwardParent
  BY <1>2 DEF ForwardParent, ParentStep, monitorVars
<1>3. CASE MonitorTells
  <2>1. Completed(verified) \in ThreadUpdate /\ verified \in Pieces
    BY <1>0, <1>3 DEF MonitorTells, IInv, SetsOK
  <2>2. ParentTold(Completed(verified))
    BY <1>3, <2>1 DEF ParentTold, MonitorTells, ParentSends
  <2>3. QED
    BY <2>1, <2>2 DEF ParentStep
<1>4. CASE MonitorFinishes
  BY <1>0, <1>4 DEF ParentStep, ParentTold, MonitorFinishes, ParentSends
<1>5. ASSUME NEW pb \in AllBlocks, OtherReports(pb)
      PROVE  ParentStep
  <2>1. ParentTold(Downloaded(pb))
    BY <1>5 DEF ParentTold, OtherReports, ParentSends, monitorVars
  <2>2. QED
    BY <1>0, <2>1 DEF ParentStep
<1>6. CASE UNCHANGED parentRx /\ verified \in {None, verified'}
  BY <1>6 DEF ParentStep
<1>7. QED
  BY <1>1, <1>2, <1>3, <1>4, <1>5, <1>6 DEF ShapedStep, Changes, ParentSteps

LEMMA ParentEffect ==
  ASSUME IInv, ShapedStep
  PROVE  /\ Bounded(parentRx', ThreadUpdate, ParentCapacity)
         /\ \A m \in Unread(parentRx') :
              \/ m \in Unread(parentRx)
              \/ m = FileComplete
              \/ \E pb \in AllBlocks : m = Downloaded(pb)
              \/ m = Completed(verified) /\ verified \in Pieces
<1>0. /\ Bounded(parentRx, ThreadUpdate, ParentCapacity)
      /\ ParentCapacity \in Nat \ {0}
  BY SessionAssumption DEF IInv, ChannelsOK
<1>1. ParentStep
  BY StepParent
<1>2. CASE parentRx' \in {NoMessages, parentRx}
  BY <1>0, <1>2, NoMessagesHeld
<1>3. CASE parentRx' = Received(parentRx) /\ (Lags(parentRx) \/ \E m : Delivers(parentRx, m))
  <2>1. CASE Lags(parentRx)
    BY <1>0, <1>3, <2>1, LagEffect
  <2>2. ASSUME NEW m, Delivers(parentRx, m)
        PROVE  /\ Bounded(parentRx', ThreadUpdate, ParentCapacity)
               /\ Unread(parentRx') \subseteq Unread(parentRx)
    BY <1>0, <1>3, <2>2, DeliverEffect
  <2>3. QED
    BY <1>3, <2>1, <2>2
<1>4. ASSUME NEW m \in ThreadUpdate, ParentTold(m)
      PROVE  /\ Bounded(parentRx', ThreadUpdate, ParentCapacity)
             /\ Unread(parentRx') \subseteq Unread(parentRx) \cup {m}
  <2>1. CASE parentRx' = Push(parentRx, m, ParentCapacity)
    BY <1>0, <2>1, PushEffect
  <2>2. QED
    BY <1>2, <1>4, <2>1 DEF ParentTold
<1>5. QED
  BY <1>1, <1>2, <1>3, <1>4 DEF ParentStep, ParentTold

-----------------------------------------------------------------------------
(* Each part of the invariant is preserved. *)

LEMMA ChannelsInv ==
  ASSUME IInv, ShapedStep
  PROVE  ChannelsOK'
<1>1. child' = [r \in Receivers |-> child'[r]]
  BY StepChild
<1>2. \A r \in Receivers : Bounded(child'[r], ThreadUpdate, ChildCapacity)
  BY ChildEffect
<1>3. Bounded(parentRx', ThreadUpdate, ParentCapacity)
  BY ParentEffect
<1>4. child' \in [Receivers -> Receiver(ThreadUpdate)]
  BY <1>1, <1>2 DEF Bounded
<1>5. QED
  BY <1>2, <1>3, <1>4 DEF ChannelsOK

\* A message that a receiver delivers is among those it has not read.
LEMMA DeliveredIsUnread ==
  /\ \A r \in Receivers : \A m : IInv /\ Delivers(child[r], m) => m \in Unread(child[r])
  /\ \A m : IInv /\ Delivers(parentRx, m) => m \in Unread(parentRx)
<1>1. ASSUME IInv, NEW r \in Receivers, NEW m, Delivers(child[r], m)
      PROVE  m \in Unread(child[r])
  <2>1. Bounded(child[r], ThreadUpdate, ChildCapacity) /\ ChildCapacity \in Nat
    BY <1>1, SessionAssumption DEF IInv, ChannelsOK
  <2>2. QED
    BY <1>1, <2>1, DeliverEffect
<1>2. ASSUME IInv, NEW m, Delivers(parentRx, m)
      PROVE  m \in Unread(parentRx)
  <2>1. Bounded(parentRx, ThreadUpdate, ParentCapacity) /\ ParentCapacity \in Nat
    BY <1>2, SessionAssumption DEF IInv, ChannelsOK
  <2>2. QED
    BY <1>2, <2>1, DeliverEffect
<1>3. QED
  BY <1>1, <1>2

\* Messages of different kinds differ, and those of a kind by what they are about.
LEMMA KindsDiffer ==
  /\ \A p, q : Completed(p) = Completed(q) => p = q
  /\ \A b, c : Downloaded(b) = Downloaded(c) => b = c
  /\ \A p, b : Completed(p) # Downloaded(b)
  /\ \A p : Completed(p) # FileComplete /\ Completed(p) # Disconnect
  /\ \A b : Downloaded(b) # FileComplete /\ Downloaded(b) # Disconnect
  /\ FileComplete # Disconnect
BY DEF Completed, Downloaded, FileComplete, Disconnect

\* No bit is ever cleared.
LEMMA BitsStay ==
  ASSUME IInv, ShapedStep
  PROVE  /\ myBitfield \subseteq myBitfield' /\ peerBitfield \subseteq peerBitfield'
         /\ stored \subseteq stored'
<1>1. myBitfield \subseteq myBitfield'
  BY DEF ShapedStep, Changes, BitfieldSteps, MonitorVerifies
<1>2. peerBitfield \subseteq peerBitfield'
  BY DEF ShapedStep, Changes, BitfieldSteps, HearHaveNone, IInv, PeerHasIt
<1>3. stored \subseteq stored'
  BY DEF ShapedStep, Changes, AskedSteps, HearPiece
<1>4. QED
  BY <1>1, <1>2, <1>3

LEMMA NewsInv ==
  ASSUME IInv, ShapedStep
  PROVE  NewsIsTrue'
<1>1. verified' # None => verified' \in myBitfield'
  <2>1. CASE UNCHANGED verified
    BY <2>1, BitsStay DEF IInv, NewsIsTrue
  <2>2. QED
    BY <2>1 DEF ShapedStep, Changes, BitfieldSteps, MonitorTells, MonitorVerifies
<1>2. announced' \subseteq myBitfield'
  <2>1. CASE UNCHANGED announced
    BY <2>1, BitsStay DEF IInv, NewsIsTrue
  <2>2. CASE WriteStart
    BY <2>2, BitsStay DEF WriteStart
  <2>3. ASSUME NEW p \in Pieces, WriteCompleted(p)
        PROVE  announced' \subseteq myBitfield'
    <3>1. Completed(p) \in Unread(child["write"]) /\ announced' = announced \cup {p}
      BY <2>3, DeliveredIsUnread DEF WriteCompleted, Receivers
    <3>2. QED
      BY <3>1, BitsStay DEF IInv, NewsIsTrue, Receivers
  <2>4. QED
    BY <2>1, <2>2, <2>3 DEF ShapedStep, Changes, BitfieldSteps
<1>3. ASSUME NEW p \in Pieces, Completed(p) \in Unread(parentRx')
      PROVE  p \in myBitfield'
  <2>1. CASE Completed(p) \in Unread(parentRx)
    BY <2>1, BitsStay DEF IInv, NewsIsTrue
  <2>2. CASE Completed(p) = Completed(verified)
    <3>1. verified = p /\ verified # None
      BY <2>2, KindsDiffer, Shape, NoneAssumption
    <3>2. QED
      BY <3>1, BitsStay DEF IInv, NewsIsTrue
  <2>3. QED
    BY <1>3, <2>1, <2>2, ParentEffect, KindsDiffer
<1>4. ASSUME NEW p \in Pieces, NEW r \in Receivers, Completed(p) \in Unread(child'[r])
      PROVE  p \in myBitfield'
  <2>1. CASE Completed(p) \in Unread(child[r])
    BY <2>1, BitsStay DEF IInv, NewsIsTrue
  <2>2. CASE Told(r, Completed(p))
    <3>1. Completed(p) \in Unread(parentRx)
      BY <2>2, KindsDiffer, DeliveredIsUnread DEF Told
    <3>2. QED
      BY <3>1, BitsStay DEF IInv, NewsIsTrue
  <2>3. QED
    BY <1>4, <2>1, <2>2, ChildEffect
<1>5. ASSUME NEW pb \in AllBlocks, NEW r \in Receivers, Downloaded(pb) \in Unread(child'[r])
      PROVE  pb \in stored'
  <2>1. CASE Downloaded(pb) \in Unread(child[r])
    BY <2>1, BitsStay DEF IInv, NewsIsTrue
  <2>2. CASE Told(r, Downloaded(pb))
    <3>1. HearPiece(pb)
      BY <2>2, KindsDiffer DEF Told, PassDown
    <3>2. QED
      BY <3>1 DEF HearPiece
  <2>3. QED
    BY <1>5, <2>1, <2>2, ChildEffect
<1>6. Disconnect \notin Unread(parentRx')
  BY ParentEffect, KindsDiffer DEF IInv, NewsIsTrue
<1>7. QED
  BY <1>1, <1>2, <1>3, <1>4, <1>5, <1>6 DEF NewsIsTrue

\* The ways in which a tracker changes.
Copies == WriteStart /\ wpc = "start" /\ held' = held

GivesUp ==
  /\ WriteTick /\ held' = None /\ wpc = "loop"
  /\ tracker'.blocks = tracker.blocks /\ tracker'.num_requested = tracker.num_requested
  /\ tracker' \in Tracker /\ tracker'.requested \in {tracker.requested, None}

Asks(pb) ==
  /\ WriteTick /\ held' = pb /\ wpc = "loop"
  /\ pb \in UnRequestedOf(tracker, pb[1])
  /\ pb[1] \in peerBitfield
  /\ tracker' = [ num_requested |-> tracker.num_requested + 1,
                  blocks        |-> [tracker.blocks EXCEPT ![pb] = "Requested"],
                  requested     |-> pb[1] ]

LandsBlocks(S) ==
  /\ wpc = "loop" /\ held' = held /\ asked' \subseteq asked /\ UNCHANGED stored
  /\ Lands(tracker, S, tracker')
  /\ \/ \E pb \in AllBlocks : WriteDownloaded(pb) /\ S = {pb}
     \/ \E p \in Pieces : WriteCompleted(p) /\ S = OfPiece(p)

TrackerStep ==
  \/ UNCHANGED tracker /\ held' \in {None, held}
  \/ Copies
  \/ GivesUp
  \/ \E pb \in AllBlocks : Asks(pb)
  \/ \E S \in SUBSET AllBlocks : LandsBlocks(S)

LEMMA StepTracker ==
  ASSUME IInv, ShapedStep
  PROVE  TrackerStep
<1>0. tracker \in Tracker
  BY DEF IInv, TrackerOK
<1>1. CASE UNCHANGED tracker /\ ~WriteTick
  BY <1>1 DEF TrackerStep, ShapedStep, Changes, AskedSteps, WriteAsk
<1>2. CASE WriteStart
  BY <1>2 DEF TrackerStep, Copies, WriteStart
<1>3. CASE WriteTick
  <2>1. PICK r \in Request(tracker, peerBitfield) : tracker' = r.tracker /\ held' = r.answer
    BY <1>3 DEF WriteTick
  <2>2. CASE r = [tracker |-> tracker, answer |-> None]
    BY <2>1, <2>2 DEF TrackerStep
  <2>3. CASE r = [tracker |-> [tracker EXCEPT !.requested = None], answer |-> None]
    <3>1. tracker' = [tracker EXCEPT !.requested = None] /\ held' = None
      BY <2>1, <2>3
    <3>2. GivesUp
      BY <1>0, <1>3, <3>1 DEF GivesUp, Tracker, WriteTick
    <3>3. QED
      BY <3>2 DEF TrackerStep
  <2>4. ASSUME NEW p \in Pieces, p \in peerBitfield, Takes(tracker, p, r)
        PROVE  TrackerStep
    <3> DEFINE u(pb) == [ num_requested |-> tracker.num_requested + 1,
                          blocks        |-> [tracker.blocks EXCEPT ![pb] = "Requested"],
                          requested     |-> p ]
    <3>1. PICK pb \in UnRequestedOf(tracker, p) : r = [tracker |-> u(pb), answer |-> pb]
      BY <2>4 DEF Takes
    <3>2. tracker' = u(pb) /\ held' = pb
      <4> HIDE DEF u
      <4>1. QED
        BY <2>1, <3>1
    <3>3. pb \in AllBlocks /\ pb[1] = p
      BY DEF UnRequestedOf, OfPiece
    <3>4. Asks(pb)
      BY <1>3, <2>4, <3>2, <3>3 DEF Asks, WriteTick
    <3>5. QED
      BY <3>3, <3>4 DEF TrackerStep
  <2>5. \A p \in Pieces : tracker.requested = p => p \in peerBitfield
    BY Shape, NoneAssumption DEF IInv, PeerHasIt
  <2>6. QED
    BY <1>0, <2>2, <2>3, <2>4, <2>5, RequestResults
<1>4. ASSUME NEW pb \in AllBlocks, WriteDownloaded(pb)
      PROVE  TrackerStep
  <2>1. /\ wpc = "loop" /\ UNCHANGED <<held, asked, stored>>
        /\ tracker' = MarkBlockAsDownloaded(tracker, pb)
    BY <1>4 DEF WriteDownloaded, peerVars, logVars
  <2>2. LandsBlocks({pb})
    BY <1>0, <1>4, <2>1, MarkBlockLands DEF LandsBlocks
  <2>3. QED
    BY <2>2 DEF TrackerStep
<1>5. ASSUME NEW p \in Pieces, WriteCompleted(p)
      PROVE  TrackerStep
  <2>1. /\ wpc = "loop" /\ UNCHANGED <<held, asked, stored>>
        /\ tracker' = MarkPieceAsDownloaded(tracker, p)
    BY <1>5 DEF WriteCompleted, logVars
  <2>2. LandsBlocks(OfPiece(p))
    BY <1>0, <1>5, <2>1, MarkPieceLands DEF LandsBlocks
  <2>3. OfPiece(p) \in SUBSET AllBlocks
    BY DEF OfPiece
  <2>4. QED
    BY <2>2, <2>3 DEF TrackerStep
<1>6. QED
  BY <1>1, <1>2, <1>3, <1>4, <1>5 DEF ShapedStep, Changes, TrackerSteps

LEMMA TrackerInv ==
  ASSUME IInv, ShapedStep
  PROVE  TrackerOK'
<1>0. Counted(tracker)
  BY DEF IInv, TrackerOK, Counted
<1>1. CASE Copies
  <2>1. tracker' = Update(FromFileInfo, myBitfield)
    BY <1>1 DEF Copies, WriteStart
  <2>2. QED
    BY <2>1, CopyCounted DEF TrackerOK, Counted
<1>2. CASE GivesUp
  BY <1>0, <1>2 DEF GivesUp, TrackerOK, Counted, PendingRequests, InState
<1>3. ASSUME NEW pb \in AllBlocks, Asks(pb)
      PROVE  TrackerOK'
  <2> DEFINE result == [tracker |-> tracker', answer |-> pb]
  <2>1. /\ pb \in UnRequestedOf(tracker, pb[1])
        /\ result = [ tracker |-> [ num_requested |-> tracker.num_requested + 1,
                                    blocks |-> [tracker.blocks EXCEPT ![pb] = "Requested"],
                                    requested |-> pb[1] ],
                      answer  |-> pb ]
    BY <1>3 DEF Asks
  <2>2. pb[1] \in Pieces /\ Takes(tracker, pb[1], result)
    <3>1. pb[1] \in Pieces
      BY Shape
    <3> HIDE DEF result
    <3>2. Takes(tracker, pb[1], result)
      BY <2>1, Zenon DEF Takes
    <3>3. QED
      BY <3>1, <3>2
  <2>3. Counted(result.tracker)
    BY <1>0, <2>2, TakeCounted
  <2>4. QED
    BY <2>3 DEF TrackerOK, Counted
<1>4. ASSUME NEW S \in SUBSET AllBlocks, LandsBlocks(S)
      PROVE  TrackerOK'
  BY <1>0, <1>4, LandCounted DEF LandsBlocks, TrackerOK, Counted
<1>5. CASE UNCHANGED tracker
  BY <1>0, <1>5 DEF TrackerOK, Counted
<1>6. QED
  BY <1>1, <1>2, <1>3, <1>4, <1>5, StepTracker DEF TrackerStep

LEMMA MarksInv ==
  ASSUME IInv, ShapedStep
  PROVE  AskedIsMarked'
<1> DEFINE sent == asked \cup stored
<1>0. /\ tracker \in Tracker /\ sent \subseteq AllBlocks
      /\ wpc \in {"start", "loop"} => held = None
  BY DEF IInv, TrackerOK, SetsOK, HalvesOK, WriteRuns
<1>1. \/ asked' \cup stored' \subseteq sent
      \/ WriteAsk /\ asked' \cup stored' \subseteq sent \cup {held}
  BY DEF ShapedStep, Changes, AskedSteps, WriteAsk, HearPiece, logVars
<1>2. wpc' = "start" => wpc = "start" /\ UNCHANGED wpc
  BY DEF ShapedStep, Changes, WpcSteps
<1>3. CASE UNCHANGED tracker /\ held' \in {None, held} /\ ~WriteAsk
  <2>1. asked' \cup stored' \subseteq sent
    BY <1>1, <1>3
  <2>2. QED
    BY <1>2, <1>3, <2>1 DEF IInv, AskedIsMarked
<1>4. CASE WriteAsk
  <2>1. /\ UNCHANGED tracker /\ held' = None /\ wpc' # "start" /\ held # None
        /\ asked' \cup stored' \subseteq sent \cup {held}
    BY <1>1, <1>4 DEF WriteAsk, IInv, HalvesOK, WriteRuns
  <2>2. QED
    BY <2>1 DEF IInv, AskedIsMarked
<1>5. CASE Copies
  <2>1. sent = {} /\ held' = None /\ asked' \cup stored' = {} /\ wpc' = "loop"
    BY <1>0, <1>5 DEF Copies, WriteStart, IInv, AskedIsMarked, logVars
  <2>2. QED
    BY <2>1 DEF AskedIsMarked
<1>6. CASE GivesUp
  <2>1. UNCHANGED <<asked, stored>> /\ held' = None /\ wpc' # "start"
    BY <1>6 DEF GivesUp, WriteTick, peerVars, logVars
  <2>2. QED
    BY <1>6, <2>1 DEF IInv, AskedIsMarked, GivesUp
<1>7. ASSUME NEW pb \in AllBlocks, Asks(pb)
      PROVE  AskedIsMarked'
  <2>1. UNCHANGED <<asked, stored>> /\ held' = pb /\ wpc' # "start"
    BY <1>7 DEF Asks, WriteTick, peerVars, logVars
  <2>2. /\ tracker.blocks[pb] = "UnRequested"
        /\ \A b \in AllBlocks :
             tracker'.blocks[b] = IF b = pb THEN "Requested" ELSE tracker.blocks[b]
    BY <1>0, <1>7 DEF Asks, UnRequestedOf, Tracker
  <2>3. QED
    BY <1>0, <2>1, <2>2 DEF IInv, AskedIsMarked
<1>8. ASSUME NEW S \in SUBSET AllBlocks, LandsBlocks(S)
      PROVE  AskedIsMarked'
  <2>1. /\ asked' \cup stored' \subseteq sent /\ held' = None /\ wpc = "loop"
        /\ \A b \in AllBlocks :
             tracker'.blocks[b] = IF b \in S THEN "Completed" ELSE tracker.blocks[b]
    BY <1>0, <1>8 DEF LandsBlocks, Lands
  <2>2. QED
    BY <1>0, <1>2, <2>1 DEF IInv, AskedIsMarked
<1>9. QED
  BY <1>3, <1>4, <1>5, <1>6, <1>7, <1>8, StepTracker DEF TrackerStep

LEMMA PeerHasInv ==
  ASSUME IInv, ShapedStep
  PROVE  PeerHasIt'
<1>0. peerBitfield \subseteq peerBitfield'
  BY BitsStay
<1>1. ~greeted' => peerBitfield' = {}
  <2>1. /\ UNCHANGED peerBitfield \/ greeted' \/ peerBitfield' = {}
        /\ greeted => greeted'
    BY DEF ShapedStep, Changes, BitfieldSteps, HearHaveNone
  <2>2. ~greeted => peerBitfield = {}
    BY DEF IInv, PeerHasIt
  <2>3. QED
    BY <2>1, <2>2, Zenon
<1>2. tracker'.requested # None => tracker'.requested \in peerBitfield'
  <2>1. CASE Copies
    BY <2>1, CopiedTracker DEF Copies, WriteStart
  <2>2. CASE tracker'.requested \in {None, tracker.requested}
    BY <1>0, <2>2 DEF IInv, PeerHasIt
  <2>3. ASSUME NEW pb \in AllBlocks, Asks(pb)
        PROVE  tracker'.requested \in peerBitfield'
    BY <1>0, <2>3 DEF Asks
  <2>4. QED
    BY <2>1, <2>2, <2>3, StepTracker DEF TrackerStep, GivesUp, LandsBlocks, Lands
<1>3. held' # None => held'[1] \in peerBitfield'
  <2>1. CASE held' \in {None, held}
    BY <1>0, <2>1 DEF IInv, PeerHasIt
  <2>2. ASSUME NEW pb \in AllBlocks, Asks(pb)
        PROVE  held'[1] \in peerBitfield'
    BY <1>0, <2>2 DEF Asks
  <2>3. QED
    BY <2>1, <2>2, StepTracker DEF TrackerStep, Copies, GivesUp, LandsBlocks
<1>4. AsksOnlyWhatPeerHas'
  <2>1. asked' \subseteq asked \/ (held # None /\ asked' \subseteq asked \cup {held})
    BY DEF ShapedStep, Changes, AskedSteps, WriteAsk, IInv, HalvesOK, WriteRuns
  <2>2. QED
    BY <1>0, <2>1 DEF IInv, PeerHasIt, AsksOnlyWhatPeerHas
<1>5. QED
  BY <1>1, <1>2, <1>3, <1>4 DEF PeerHasIt

\* The tracker's Completed blocks are this connection's or the monitor's.
LEMMA EarnedInv ==
  ASSUME IInv, ShapedStep
  PROVE  CompletedIsEarned'
<1> DEFINE earned == { pb \in AllBlocks : pb \in stored \/ pb[1] \in myBitfield }
<1> DEFINE done == InState(tracker, "Completed")
<1>0. tracker \in Tracker /\ done \subseteq earned
  BY DEF IInv, TrackerOK, CompletedIsEarned, InState
<1>1. CASE Copies
  <2>1. tracker' = Update(FromFileInfo, myBitfield)
    BY <1>1 DEF Copies, WriteStart
  <2>2. InState(tracker', "Completed") = { pb \in AllBlocks : pb[1] \in myBitfield }
    BY <2>1, CopiedTracker
  <2>3. QED
    BY <2>2, BitsStay DEF CompletedIsEarned
<1>2. CASE InState(tracker', "Completed") = done
  BY <1>0, <1>2, BitsStay DEF CompletedIsEarned
<1>3. ASSUME NEW S \in SUBSET AllBlocks, LandsBlocks(S)
      PROVE  CompletedIsEarned'
  <2>1. InState(tracker', "Completed") = done \cup S
    BY <1>0, <1>3, LandEffect DEF LandsBlocks
  <2>2. S \subseteq earned
    <3>1. ASSUME NEW pb \in AllBlocks, WriteDownloaded(pb)
          PROVE  pb \in earned
      BY <3>1, DeliveredIsUnread DEF WriteDownloaded, Receivers, IInv, NewsIsTrue
    <3>2. ASSUME NEW p \in Pieces, WriteCompleted(p)
          PROVE  OfPiece(p) \subseteq earned
      BY <3>2, DeliveredIsUnread DEF WriteCompleted, Receivers, IInv, NewsIsTrue, OfPiece
    <3>3. QED
      BY <1>3, <3>1, <3>2 DEF LandsBlocks
  <2>3. QED
    BY <1>0, <2>1, <2>2, BitsStay DEF CompletedIsEarned
<1>4. ASSUME NEW pb \in AllBlocks, Asks(pb)
      PROVE  InState(tracker', "Completed") = done
  <2>1. pb[1] \in Pieces
    BY Shape
  <2>2. QED
    BY <1>0, <1>4, <2>1, AskEffect DEF Asks
<1>5. CASE GivesUp \/ UNCHANGED tracker
  BY <1>2, <1>5 DEF GivesUp, InState
<1>6. QED
  BY <1>1, <1>2, <1>3, <1>4, <1>5, StepTracker DEF TrackerStep

LEMMA ReportsInv ==
  ASSUME IInv, ShapedStep
  PROVE  ReportsOnlyOwnBlocks'
<1>1. CASE UNCHANGED reported
  BY <1>1, BitsStay DEF IInv, ReportsOnlyOwnBlocks
<1>2. CASE ForwardChild
  <2>1. ASSUME NEW pb \in AllBlocks, Delivers(child["forward"], Downloaded(pb))
        PROVE  pb \in stored
    BY <2>1, DeliveredIsUnread DEF Receivers, IInv, NewsIsTrue
  <2>2. UNCHANGED stored
    BY <1>2 DEF ForwardChild
  <2>3. QED
    BY <1>2, <2>1, <2>2 DEF ForwardChild, IInv, ReportsOnlyOwnBlocks
<1>3. QED
  BY <1>1, <1>2 DEF ShapedStep, Changes, AskedSteps

LEMMA HonestInv ==
  ASSUME IInv, ShapedStep
  PROVE  HonestIsServed'
<1> SUFFICES ASSUME honest' PROVE HonestIsServed'
  BY DEF HonestIsServed
<1>0. /\ honest /\ rpc # "ok" /\ wpc # "ok" /\ fpc # "ok"
      /\ \A r \in Receivers : Disconnect \notin Unread(child[r])
      /\ \A i \in 1 .. Len(queue) : queue[i] \in myBitfield
      /\ \A p \in Pieces : reading = <<Enqueue(p)>> => p \in myBitfield
      /\ queue \in Seq(Pieces) /\ reading \in Readings
  BY DEF ShapedStep, Changes, EndSteps, IInv, HonestIsServed, HalvesOK
<1>1. \A r \in Receivers : ~Delivers(child[r], Disconnect)
  BY <1>0, DeliveredIsUnread
<1>2. rpc' # "ok"
  BY <1>0, <1>1 DEF ShapedStep, Changes, EndSteps, ReadUpdate, Receivers
<1>3. wpc' # "ok"
  <2>1. ASSUME WriteServe PROVE UNCHANGED wpc
    <3>1. queue # <<>>
      BY <2>1 DEF WriteServe
    <3>2. Head(queue) = queue[1] /\ 1 \in 1 .. Len(queue)
      BY <1>0, <3>1
    <3>3. QED
      BY <1>0, <2>1, <3>2 DEF WriteServe
  <2>2. QED
    BY <1>0, <1>1, <2>1 DEF ShapedStep, Changes, EndSteps, WriteDisconnect, Receivers
<1>4. fpc' # "ok"
  BY <1>0, <1>1 DEF ShapedStep, Changes, EndSteps, ForwardChild, Receivers
<1>5. ASSUME NEW r \in Receivers, Disconnect \in Unread(child'[r])
      PROVE  FALSE
  <2>1. Told(r, Disconnect)
    BY <1>0, <1>5, ChildEffect
  <2>2. Delivers(parentRx, Disconnect)
    BY <2>1, KindsDiffer DEF Told
  <2>3. QED
    BY <2>2, DeliveredIsUnread DEF IInv, NewsIsTrue
<1>6. \A i \in 1 .. Len(queue') : queue'[i] \in myBitfield'
  <2>1. CASE UNCHANGED queue
    BY <1>0, <2>1, BitsStay
  <2>2. CASE WriteServe
    <3>1. queue # <<>> /\ queue' = Tail(queue)
      BY <2>2 DEF WriteServe, TakesRequest
    <3>2. \A i \in 1 .. Len(queue') : i + 1 \in 1 .. Len(queue) /\ queue'[i] = queue[i + 1]
      BY <1>0, <3>1
    <3>3. QED
      BY <1>0, <3>2, BitsStay
  <2>3. ASSUME ReadStep, ~UNCHANGED queue
        PROVE  \A i \in 1 .. Len(queue') : queue'[i] \in myBitfield'
    <3> DEFINE step == Head(reading)
    <3>1. /\ reading # <<>> /\ step[1] = "enqueue"
          /\ queue' = Append(queue, step[2])
      BY <2>3 DEF ReadStep
    <3>2. PICK p \in Pieces : reading = <<Enqueue(p)>>
      <4>1. /\ Notify[1] # "enqueue" /\ Weigh[1] # "enqueue" /\ Lacks[1] # "enqueue"
            /\ \A value : Store(value)[1] # "enqueue"
        BY DEF Notify, Weigh, Lacks, Store
      <4>2. QED
        BY <1>0, <3>1, <4>1, ReadingSteps
    <3>3. step[2] = p /\ p \in myBitfield
      BY <1>0, <3>2 DEF Enqueue
    <3> HIDE DEF step
    <3>4. queue' = Append(queue, p) /\ p \in myBitfield
      BY <3>1, <3>3
    <3>5. \A i \in 1 .. Len(queue') :
            queue'[i] = p \/ (i \in 1 .. Len(queue) /\ queue'[i] = queue[i])
      BY <1>0, <3>4
    <3>6. QED
      BY <1>0, <3>4, <3>5, BitsStay
  <2>4. QED
    BY <2>1, <2>2, <2>3 DEF ShapedStep, Changes, RequestSteps
<1>7. ASSUME NEW p \in Pieces, reading' = <<Enqueue(p)>>
      PROVE  p \in myBitfield'
  <2>1. CASE reading = <<Enqueue(p)>>
    BY <1>0, <2>1, BitsStay
  <2>2. ASSUME NEW q \in Pieces, HearRequest(q) \/ HearCancel(q)
        PROVE  p \in myBitfield'
    <3>1. q \in announced
      BY <2>2 DEF HearRequest, HearCancel, Hears, Permitted
    <3>2. reading' \in {<<>>, <<Enqueue(q)>>}
      BY <2>2 DEF HearRequest, HearCancel
    <3>3. <<Enqueue(p)>> # <<>> /\ (<<Enqueue(p)>> = <<Enqueue(q)>> => p = q)
      BY DEF Enqueue
    <3>4. QED
      BY <1>7, <3>1, <3>2, <3>3, BitsStay DEF IInv, NewsIsTrue
  <2>3. QED
    BY <1>7, <2>1, <2>2 DEF ShapedStep, Changes, RequestSteps
<1>8. QED
  BY <1>2, <1>3, <1>4, <1>5, <1>6, <1>7 DEF HonestIsServed

LEMMA InitInv == Init => IInv
<1> SUFFICES ASSUME Init PROVE IInv
  OBVIOUS
<1> USE DEF Init
<1>1. HalvesOK
  BY SessionAssumption DEF HalvesOK, Readings, WriteRuns
<1>2. FlagsOK
  BY SessionAssumption, Zenon DEF FlagsOK
<1>3. SetsOK
  BY SessionAssumption DEF SetsOK
<1>4. \A r \in Receivers : child[r] = NoMessages
  OBVIOUS
<1>5. Unread(parentRx) = {} /\ \A r \in Receivers : Unread(child[r]) = {}
  BY <1>4, NoMessagesHeld, SessionAssumption
<1>6. ChannelsOK
  <2>1. NoMessages \in Receiver(ThreadUpdate)
    BY DEF NoMessages, Receiver
  <2>2. child \in [Receivers -> Receiver(ThreadUpdate)]
    BY <2>1
  <2>3. QED
    BY <1>4, <2>2, NoMessagesHeld, SessionAssumption DEF ChannelsOK
<1>7. /\ tracker \in Tracker /\ tracker.num_requested = 0 /\ tracker.requested = None
      /\ PendingRequests(tracker) = {} /\ InState(tracker, "Completed") = {}
  BY DEF FromFileInfo, Tracker, BlockState, PendingRequests, InState
<1>8. TrackerOK
  BY <1>7, FS_EmptySet DEF TrackerOK
<1>9. NewsIsTrue
  BY <1>5 DEF NewsIsTrue
<1>10. AskedIsMarked /\ PeerHasIt /\ CompletedIsEarned /\ ReportsOnlyOwnBlocks
  BY <1>7 DEF AskedIsMarked, PeerHasIt, CompletedIsEarned, ReportsOnlyOwnBlocks,
              AsksOnlyWhatPeerHas
<1>11. HonestIsServed
  <2>1. \A p \in Pieces : <<>> # <<Enqueue(p)>>
    OBVIOUS
  <2>2. QED
    BY <1>5, <2>1 DEF HonestIsServed
<1>12. QED
  BY <1>1, <1>2, <1>3, <1>6, <1>8, <1>9, <1>10, <1>11 DEF IInv

LEMMA StepInv == IInv /\ [Next]_vars => IInv'
<1> SUFFICES ASSUME IInv, [Next]_vars PROVE IInv'
  OBVIOUS
<1>1. ShapedStep
  BY StepsAreShaped
<1>2. HalvesOK' /\ FlagsOK' /\ SetsOK'
  BY <1>1 DEF ShapedStep
<1>3. QED
  BY <1>1, <1>2, ChannelsInv, TrackerInv, NewsInv, MarksInv, PeerHasInv, HonestInv,
     EarnedInv, ReportsInv DEF IInv

LEMMA Inductive == Spec => []IInv
BY InitInv, StepInv, PTL DEF Spec

-----------------------------------------------------------------------------
(* The theorems. *)

\* A connection's variables keep their types: no channel or queue outgrows its
\* capacity, the tracker's usize counter never underflows.
THEOREM TypeCorrect == Spec => []TypeOK
<1>1. IInv => TypeOK
  <2> SUFFICES ASSUME IInv PROVE TypeOK
    OBVIOUS
  <2>1. Len(reading) <= 2
    <3>1. \A x, y : Len(<<>>) <= 2 /\ Len(<<x>>) <= 2 /\ Len(<<x, y>>) <= 2
      OBVIOUS
    <3>2. \A list \in Readings : (\E x, y : list = <<x, y>>) \/ (\E x : list = <<x>>) \/ list = <<>>
      BY Zenon DEF Readings, NotifyFirst, StoreFirst
    <3>3. reading \in Readings
      BY DEF IInv, HalvesOK
    <3>4. QED
      BY <3>1, <3>2, <3>3
  <2>2. \A r \in Receivers : /\ Len(child[r].q) <= ChildCapacity
                             /\ Unread(child[r]) \subseteq ThreadUpdate
    BY DEF IInv, ChannelsOK, Bounded, Receiver, Unread
  <2>3. Len(parentRx.q) <= ParentCapacity
    BY DEF IInv, ChannelsOK, Bounded
  <2>4. /\ {told, amInterested, permit, peerChoking, amChoking} \subseteq BOOLEAN
        /\ {connOpen, greeted, honest, chokes, fileDone} \subseteq BOOLEAN
    BY Zenon DEF IInv, FlagsOK
  <2>5. QED
    BY <2>1, <2>2, <2>3, <2>4 DEF TypeOK, IInv, HalvesOK, SetsOK, TrackerOK, WriteRuns
<1>2. QED
  BY <1>1, Inductive, PTL

\* No block is requested of a peer that did not say it has the piece, although
\* `request` goes on with a piece without looking at the peer's bitfield.
THEOREM PeerIsAskedFairly == Spec => []AsksOnlyWhatPeerHas
BY Inductive, PTL DEF IInv, PeerHasIt

\* What a connection's tracker holds for Completed it stored itself, or the
\* monitor verified the piece.
THEOREM TrackerTrustsNobody == Spec => []CompletedIsEarned
BY Inductive, PTL DEF IInv

\* Reports of other connections never come back up as one's own.
THEOREM NoEcho == Spec => []ReportsOnlyOwnBlocks
BY Inductive, PTL DEF IInv

\* A peer that keeps to the protocol is never disconnected.
THEOREM HonestStays == Spec => []HonestPeerKept
<1>1. IInv => HonestPeerKept
  BY DEF IInv, HonestIsServed, HonestPeerKept, Closing
<1>2. QED
  BY <1>1, Inductive, PTL

-----------------------------------------------------------------------------
(* The write half keeps up with what is verified and stored. *)

\* A message on its way to the write half stays so until it is handled, or a gap
\* takes its place.
LEMMA UntilHandled ==
  ASSUME IInv, ShapedStep, WriteRuns', NEW m \in ThreadUpdate,
         m \in Unread(child["write"]) \/ child["write"].missed
  PROVE  \/ m \in Unread(child'["write"]) \/ child'["write"].missed
         \/ \E pb \in AllBlocks : m = Downloaded(pb) /\ WriteDownloaded(pb)
         \/ \E p \in Pieces : m = Completed(p) /\ WriteCompleted(p)
         \/ m = FileComplete
<1> DEFINE rx == child["write"]
<1> DEFINE rxNext == child'["write"]
<1>0. /\ Bounded(rx, ThreadUpdate, ChildCapacity) /\ ChildCapacity \in Nat \ {0}
      /\ "write" \in Receivers
  BY SessionAssumption DEF IInv, ChannelsOK, Receivers
<1>1. ChildStep("write")
  BY <1>0, StepChild
<1>2. ~Dropped("write")
  BY DEF Dropped, Running, Receivers
<1>3. CASE Heard("write")
  <2>1. PICK n : /\ Delivers(rx, n)
                 /\ \/ n = FileComplete
                    \/ \E pb \in AllBlocks : n = Downloaded(pb) /\ WriteDownloaded(pb)
                    \/ \E p \in Pieces : n = Completed(p) /\ WriteCompleted(p)
    BY <1>3 DEF Heard, WriteFileComplete, WriteDownloaded, WriteCompleted
  <2>2. rxNext = Received(rx)
    BY <1>3 DEF Heard
  <2>3. ~rx.missed /\ Unread(rx) = Unread(rxNext) \cup {n}
    BY <1>0, <2>1, <2>2, DeliverEffect
  <2>4. QED
    BY <2>1, <2>3
<1>4. ASSUME NEW n \in ThreadUpdate, Told("write", n)
      PROVE  m \in Unread(rxNext) \/ rxNext.missed
  <2>1. rxNext = Push(rx, n, ChildCapacity)
    BY <1>4 DEF Told
  <2> HIDE DEF rx, rxNext
  <2>2. rxNext.missed \/ (~rx.missed /\ Unread(rx) \subseteq Unread(rxNext))
    BY <1>0, <2>1, PushEffect
  <2>3. QED
    BY <2>2 DEF rx
<1>5. QED
  BY <1>1, <1>2, <1>3, <1>4 DEF ChildStep

\* A message sent to the children is on its way to a write half that runs.
LEMMA SentToWriteHalf ==
  ASSUME IInv, WriteRuns, NEW m \in ThreadUpdate, child' = ToChildren(m)
  PROVE  m \in Unread(child'["write"])
<1> DEFINE rx == child["write"]
<1>1. "write" \in Receivers /\ "write" \in Running
  BY DEF Receivers, Running
<1>2. Bounded(rx, ThreadUpdate, ChildCapacity) /\ ChildCapacity \in Nat \ {0}
  BY <1>1, SessionAssumption DEF IInv, ChannelsOK
<1>3. child'["write"] = Push(rx, m, ChildCapacity)
  BY <1>1 DEF ToChildren
<1> HIDE DEF rx
<1>4. QED
  BY <1>2, <1>3, PushEffect

\* The news of a verified piece gets through, or is handled.
LEMMA NewsGetsThrough ==
  ASSUME IInv, ShapedStep, Serving, Serving', ~(ForwardParent /\ Lags(parentRx)),
         NEW p \in Pieces, OnItsWay(p)
  PROVE  OnItsWay(p)' \/ WriteCompleted(p)
<1>0. /\ Bounded(parentRx, ThreadUpdate, ParentCapacity) /\ ParentCapacity \in Nat \ {0}
      /\ Completed(p) \in ThreadUpdate /\ p # None
      /\ fpc = "run" /\ fpc' = "run" /\ WriteRuns /\ WriteRuns'
  BY SessionAssumption, Shape, NoneAssumption
     DEF IInv, ChannelsOK, Completed, ThreadUpdate, Serving
<1>1. CASE Completed(p) \in Unread(child["write"]) \/ child["write"].missed
  <2>1. \/ Completed(p) \in Unread(child'["write"]) \/ child'["write"].missed
        \/ WriteCompleted(p)
    BY <1>0, <1>1, UntilHandled, KindsDiffer
  <2>2. QED
    BY <2>1 DEF OnItsWay
<1>2. CASE verified = p
  <2>1. verified' = p \/ Completed(p) \in Unread(parentRx')
    <3>1. ASSUME NEW m \in ThreadUpdate, ParentTold(m)
          PROVE  verified' = p \/ Completed(p) \in Unread(parentRx')
      <4>1. parentRx' = Push(parentRx, m, ParentCapacity) /\ (UNCHANGED verified \/ m = Completed(p))
        BY <1>0, <1>2, <3>1 DEF ParentTold
      <4>2. QED
        BY <1>0, <1>2, <4>1, PushEffect
    <3>2. QED
      BY <1>0, <1>2, <3>1, StepParent DEF ParentStep
  <2>2. QED
    BY <2>1 DEF OnItsWay
<1>3. CASE Completed(p) \in Unread(parentRx) \/ parentRx.missed
  <2>1. CASE UNCHANGED parentRx
    BY <1>3, <2>1 DEF OnItsWay
  <2>2. ASSUME NEW m \in ThreadUpdate, ParentTold(m)
        PROVE  OnItsWay(p)'
    <3>1. parentRx' = Push(parentRx, m, ParentCapacity)
      BY <1>0, <2>2 DEF ParentTold
    <3>2. Completed(p) \in Unread(parentRx') \/ parentRx'.missed
      BY <1>0, <1>3, <3>1, PushEffect
    <3>3. QED
      BY <3>2 DEF OnItsWay
  <2>3. ASSUME ForwardParent, NEW m, Delivers(parentRx, m), parentRx' = Received(parentRx)
        PROVE  OnItsWay(p)'
    <3>1. ~parentRx.missed /\ Unread(parentRx) = Unread(parentRx') \cup {m}
      BY <1>0, <2>3, DeliverEffect
    <3>2. CASE m # Completed(p)
      BY <1>3, <3>1, <3>2 DEF OnItsWay
    <3>3. CASE m = Completed(p)
      <4>1. child' = ToChildren(Completed(p))
        BY <2>3, <3>1, <3>3 DEF ForwardParent, Delivers, Lags, PassDown
      <4>2. QED
        BY <1>0, <4>1, SentToWriteHalf DEF OnItsWay
    <3>4. QED
      BY <3>2, <3>3
  <2>4. QED
    BY <1>0, <2>1, <2>2, <2>3, StepParent DEF ParentStep
<1>4. QED
  BY <1>1, <1>2, <1>3 DEF OnItsWay

\* What the tracker holds for Completed stays so; a handled message adds to it.
LEMMA CompletedStays ==
  ASSUME IInv, ShapedStep, wpc # "start"
  PROVE  /\ InState(tracker, "Completed") \subseteq InState(tracker', "Completed")
         /\ \A p \in Pieces : WriteCompleted(p) => OfPiece(p) \subseteq InState(tracker', "Completed")
         /\ \A pb \in AllBlocks : WriteDownloaded(pb) => pb \in InState(tracker', "Completed")
<1> DEFINE done == InState(tracker, "Completed")
<1>0. tracker \in Tracker
  BY DEF IInv, TrackerOK
<1>1. ASSUME NEW S \in SUBSET AllBlocks, Lands(tracker, S, tracker')
      PROVE  InState(tracker', "Completed") = done \cup S
  BY <1>0, <1>1, LandEffect
<1>2. ASSUME NEW pb \in AllBlocks, Asks(pb)
      PROVE  InState(tracker', "Completed") = done
  <2>1. pb[1] \in Pieces
    BY Shape
  <2>2. QED
    BY <1>0, <1>2, <2>1, AskEffect DEF Asks
<1>3. done \subseteq InState(tracker', "Completed")
  <2>1. CASE GivesUp \/ UNCHANGED tracker
    BY <2>1 DEF GivesUp, InState
  <2>2. QED
    BY <1>1, <1>2, <2>1, StepTracker DEF TrackerStep, LandsBlocks, Copies
<1>4. ASSUME NEW p \in Pieces, WriteCompleted(p)
      PROVE  OfPiece(p) \subseteq InState(tracker', "Completed")
  <2>1. tracker' = MarkPieceAsDownloaded(tracker, p) /\ OfPiece(p) \in SUBSET AllBlocks
    BY <1>4 DEF WriteCompleted, OfPiece
  <2>2. InState(tracker', "Completed") = done \cup OfPiece(p)
    BY <1>0, <1>1, <2>1, MarkPieceLands
  <2>3. QED
    BY <2>2
<1>5. ASSUME NEW pb \in AllBlocks, WriteDownloaded(pb)
      PROVE  pb \in InState(tracker', "Completed")
  <2>1. tracker' = MarkBlockAsDownloaded(tracker, pb)
    BY <1>5 DEF WriteDownloaded
  <2>2. InState(tracker', "Completed") = done \cup {pb}
    BY <1>0, <1>1, <2>1, MarkBlockLands
  <2>3. QED
    BY <2>2
<1>6. QED
  BY <1>3, <1>4, <1>5

\* The tracker lags behind what was verified and stored by no more than the
\* messages in flight: a piece verified while the connection is set up is not
\* lost between the copy of the bitfield and the subscription.
THEOREM CaughtUp == Spec /\ KeepsUp => []TrackerCaughtUp
<1>1. Init => TrackerCaughtUp
  BY DEF Init, TrackerCaughtUp, Serving
<1>2. ASSUME IInv, TrackerCaughtUp, Next, ~(ForwardParent /\ Lags(parentRx))
      PROVE  TrackerCaughtUp'
  <2> SUFFICES ASSUME Serving'
               PROVE  /\ \A p \in myBitfield' :
                           OfPiece(p) \subseteq InState(tracker', "Completed") \/ OnItsWay(p)'
                      /\ \A pb \in stored' :
                           \/ pb \in InState(tracker', "Completed")
                           \/ Downloaded(pb) \in Unread(child'["write"])
                           \/ child'["write"].missed
    BY DEF TrackerCaughtUp
  <2>0. /\ ShapedStep /\ IInv'
        /\ myBitfield' \subseteq Pieces /\ stored' \subseteq AllBlocks
        /\ \A pb \in AllBlocks : Downloaded(pb) \in ThreadUpdate
    BY <1>2, StepsAreShaped, StepInv DEF IInv, SetsOK, Downloaded, ThreadUpdate
  <2>1. CASE WriteStart
    <3>1. /\ tracker' = Update(FromFileInfo, myBitfield) /\ UNCHANGED <<myBitfield, stored>>
          /\ wpc = "start"
      BY <2>1 DEF WriteStart, logVars
    <3>2. stored' = {}
      BY <1>2, <3>1 DEF IInv, AskedIsMarked
    <3>3. \A p \in myBitfield' : OfPiece(p) \subseteq InState(tracker', "Completed")
      BY <3>1, CopiedTracker DEF OfPiece
    <3>4. QED
      BY <3>2, <3>3
  <2>2. CASE Serving
    <3>0. wpc # "start" /\ WriteRuns
      BY <2>2 DEF Serving
    <3>1. ASSUME NEW p \in myBitfield'
          PROVE  OfPiece(p) \subseteq InState(tracker', "Completed") \/ OnItsWay(p)'
      <4>0. p \in Pieces
        BY <2>0
      <4>1. CASE p \notin myBitfield
        <5>1. verified' = p
          BY <2>0, <3>1, <4>1 DEF ShapedStep, Changes, BitfieldSteps, MonitorVerifies
        <5>2. QED
          BY <5>1 DEF OnItsWay
      <4>2. CASE p \in myBitfield
        <5>1. OfPiece(p) \subseteq InState(tracker, "Completed") \/ OnItsWay(p)
          BY <1>2, <2>2, <4>2 DEF TrackerCaughtUp
        <5>2. CASE OfPiece(p) \subseteq InState(tracker, "Completed")
          BY <1>2, <2>0, <3>0, <5>2, CompletedStays
        <5>3. CASE OnItsWay(p)
          BY <1>2, <2>0, <2>2, <3>0, <4>0, <5>3, NewsGetsThrough, CompletedStays
        <5>4. QED
          BY <5>1, <5>2, <5>3
      <4>3. QED
        BY <4>1, <4>2
    <3>2. ASSUME NEW pb \in stored'
          PROVE  \/ pb \in InState(tracker', "Completed")
                 \/ Downloaded(pb) \in Unread(child'["write"])
                 \/ child'["write"].missed
      <4>0. pb \in AllBlocks /\ Downloaded(pb) \in ThreadUpdate
        BY <2>0
      <4>1. CASE pb \notin stored
        <5>1. HearPiece(pb)
          BY <2>0, <3>2, <4>1 DEF ShapedStep, Changes, AskedSteps, HearPiece
        <5>2. QED
          BY <1>2, <3>0, <4>0, <5>1, SentToWriteHalf DEF HearPiece
      <4>2. CASE pb \in InState(tracker, "Completed")
        BY <1>2, <2>0, <3>0, <4>2, CompletedStays
      <4>3. CASE Downloaded(pb) \in Unread(child["write"]) \/ child["write"].missed
        <5>1. \/ Downloaded(pb) \in Unread(child'["write"]) \/ child'["write"].missed
              \/ WriteDownloaded(pb)
          BY <1>2, <2>0, <4>0, <4>3, UntilHandled, KindsDiffer DEF Serving
        <5>2. QED
          BY <1>2, <2>0, <3>0, <4>0, <5>1, CompletedStays
      <4>4. QED
        BY <1>2, <2>2, <4>1, <4>2, <4>3 DEF TrackerCaughtUp
    <3>3. QED
      BY <3>1, <3>2
  <2>3. QED
    BY <2>0, <2>1, <2>2 DEF ShapedStep, Changes, WpcSteps
<1>3. ASSUME TrackerCaughtUp, UNCHANGED vars
      PROVE  TrackerCaughtUp'
  <2>1. UNCHANGED <<wpc, fpc, myBitfield, tracker, stored, verified, child, parentRx>>
    BY <1>3 DEF vars, writeVars, sharedVars, channelVars, logVars, monitorVars
  <2>2. QED
    BY <1>3, <2>1 DEF TrackerCaughtUp, Serving, WriteRuns, OnItsWay
<1>4. /\ IInv /\ TrackerCaughtUp
      /\ [Next]_vars /\ [~(ForwardParent /\ Lags(parentRx))]_vars
      => TrackerCaughtUp'
  BY <1>2, <1>3
<1>5. QED
  BY <1>1, <1>4, Inductive, PTL DEF Spec, KeepsUp

\* No request repeats what was stored, nor what was verified once the news of it
\* has arrived.
THEOREM NothingAskedAgain == Spec /\ KeepsUp => NoRequestForWhatWeHave
<1> DEFINE Asking == Serving => \A pb \in asked' \ asked :
                       /\ pb \notin stored
                       /\ pb[1] \in myBitfield => OnItsWay(pb[1])
<1>1. ASSUME IInv, TrackerCaughtUp, Next
      PROVE  Asking
  <2> SUFFICES ASSUME Serving, NEW pb \in asked' \ asked
               PROVE  pb \notin stored /\ (pb[1] \in myBitfield => OnItsWay(pb[1]))
    OBVIOUS
  <2>1. WriteAsk /\ pb = held
    BY <1>1, StepsAreShaped DEF ShapedStep, Changes, AskedSteps, WriteAsk
  <2>2. pb \in AllBlocks
    BY <1>1, <2>1 DEF WriteAsk, IInv, HalvesOK, WriteRuns
  <2>3. tracker.blocks[pb] = "Requested" /\ pb \notin stored
    BY <1>1, <2>1 DEF WriteAsk, IInv, HalvesOK, WriteRuns, AskedIsMarked
  <2>4. pb \in OfPiece(pb[1]) /\ pb \notin InState(tracker, "Completed")
    BY <2>2, <2>3 DEF OfPiece, InState
  <2>5. QED
    BY <1>1, <2>3, <2>4 DEF TrackerCaughtUp
<1>2. IInv /\ TrackerCaughtUp /\ [Next]_vars => [Asking]_vars
  BY <1>1
<1>3. QED
  BY <1>2, Inductive, CaughtUp, PTL DEF Spec, NoRequestForWhatWeHave

\* Without the Fast Extension the peer knows of every verified piece, but for
\* those whose Completed is still on its way to the write half.
THEOREM PeerIsTold == Spec /\ KeepsUp /\ []~supportsFast => []PeerKnowsWhatWeHave
<1>1. Init => PeerKnowsWhatWeHave
  BY DEF Init, PeerKnowsWhatWeHave, Serving
<1>2. ASSUME IInv, PeerKnowsWhatWeHave, ~supportsFast, Next,
             ~(ForwardParent /\ Lags(parentRx))
      PROVE  PeerKnowsWhatWeHave'
  <2> SUFFICES ASSUME Serving', NEW p \in myBitfield'
               PROVE  p \in announced' \/ OnItsWay(p)'
    BY DEF PeerKnowsWhatWeHave
  <2>0. ShapedStep /\ p \in Pieces
    BY <1>2, StepsAreShaped, StepInv DEF IInv, SetsOK
  <2>1. CASE WriteStart
    BY <1>2, <2>1 DEF WriteStart, Opens
  <2>2. CASE Serving /\ ~WriteStart
    <3>1. announced \subseteq announced' /\ (WriteCompleted(p) => p \in announced')
      BY <2>0, <2>2 DEF ShapedStep, Changes, BitfieldSteps, WriteCompleted
    <3>2. CASE p \notin myBitfield
      <4>1. verified' = p
        BY <2>0, <3>2 DEF ShapedStep, Changes, BitfieldSteps, MonitorVerifies
      <4>2. QED
        BY <4>1 DEF OnItsWay
    <3>3. CASE p \in announced
      BY <3>1, <3>3
    <3>4. CASE OnItsWay(p)
      BY <1>2, <2>0, <2>2, <3>1, <3>4, NewsGetsThrough
    <3>5. QED
      BY <1>2, <2>2, <3>2, <3>3, <3>4 DEF PeerKnowsWhatWeHave
  <2>3. QED
    BY <2>0, <2>1, <2>2 DEF ShapedStep, Changes, WpcSteps
<1>3. ASSUME PeerKnowsWhatWeHave, UNCHANGED vars
      PROVE  PeerKnowsWhatWeHave'
  <2>1. UNCHANGED <<wpc, fpc, myBitfield, announced, verified, child, parentRx>>
    BY <1>3 DEF vars, writeVars, sharedVars, channelVars, peerVars, monitorVars
  <2>2. QED
    BY <1>3, <2>1 DEF PeerKnowsWhatWeHave, Serving, WriteRuns, OnItsWay
<1>4. /\ IInv /\ PeerKnowsWhatWeHave /\ ~supportsFast
      /\ [Next]_vars /\ [~(ForwardParent /\ Lags(parentRx))]_vars
      => PeerKnowsWhatWeHave'
  BY <1>2, <1>3
<1>5. QED
  BY <1>1, <1>4, Inductive, PTL DEF Spec, KeepsUp

-----------------------------------------------------------------------------
(* Interest. *)

\* The peer has a piece that we lack.
Lacking == peerBitfield \ myBitfield # {}

TooEarly == WokenTooEarly \/ WeighedTooEarly

\* The peer was told, or the write half will wake up and tell it.
WillTell == permit \/ told

\* A read half that knows of a piece we lack has recorded the interest and woken
\* the write half, or has yet to do what is missing of the two.
Settling ==
  /\ Lacking => reading \notin {<<Notify, Store(FALSE)>>, <<Store(FALSE)>>}
  /\ rpc = "run" /\ Lacking =>
       \/ reading \in {<<Weigh>>, <<Lacks>>, StoreFirst, NotifyFirst}
       \/ reading = <<Notify>> /\ amInterested
       \/ reading = <<Store(TRUE)>> /\ WillTell
       \/ reading \in {<<>>} \cup { <<Enqueue(p)>> : p \in Pieces } /\ amInterested /\ WillTell

\* What interest is about, and who changes it.
InterestSteps ==
  \/ /\ UNCHANGED <<reading, peerBitfield, amInterested, permit, told>>
     /\ rpc' = "run" => rpc = "run"
     /\ myBitfield \subseteq myBitfield'
  \/ HearHaveAll \/ HearHaveNone \/ ReadStep \/ WriteLose \/ WriteNotified
  \/ \E p \in Pieces : HearHave(p) \/ HearRequest(p) \/ HearCancel(p)
  \/ \E pieces \in SUBSET Pieces : HearBitField(pieces)

LEMMA StepInterest == [Next]_vars => InterestSteps /\ UNCHANGED supportsFast
<1> SUFFICES ASSUME [Next]_vars PROVE InterestSteps /\ UNCHANGED supportsFast
  OBVIOUS
<1> USE DEF InterestSteps, readVars, writeVars, sharedVars, channelVars, peerVars, logVars,
            monitorVars
<1>1. CASE PeerNext
  BY <1>1 DEF PeerNext, HearChoke, HearUnChoke, HearOther, HearAdvice, HearPiece, HearHaveAll,
              HearHaveNone, HearHave, HearRequest, HearCancel, HearBitField, Hears
<1>2. CASE ReadNext
  BY <1>2 DEF ReadNext, ReadStep, ReadUpdate, ReadFails
<1>3. CASE WriteNext
  <2>1. CASE WriteUpdate
    BY <2>1 DEF WriteUpdate, WriteDownloaded, WriteCompleted, WriteFileComplete,
                WriteDisconnect, WriteLagged
  <2>2. CASE \/ WriteStart \/ WriteWeigh \/ WriteLose \/ WriteServe \/ WriteTick \/ WriteAsk
            \/ WriteNotified \/ WriteFails
    BY <2>2 DEF WriteStart, WriteWeigh, WriteLose, WriteServe, WriteTick, WriteAsk,
                WriteNotified, WriteFails
  <2>3. QED
    BY <1>3, <2>1, <2>2 DEF WriteNext
<1>4. CASE ForwardNext
  BY <1>4 DEF ForwardNext, ForwardChild, ForwardParent
<1>5. CASE Elsewhere
  BY <1>5 DEF Elsewhere, MonitorVerifies, MonitorTells, MonitorFinishes, ConnectionBreaks,
              OtherReports
<1>6. CASE UNCHANGED vars
  BY <1>6 DEF vars
<1>7. QED
  BY <1>1, <1>2, <1>3, <1>4, <1>5, <1>6 DEF Next

\* A step of a handler says what it is.
LEMMA StepKinds ==
  /\ Notify[1] = "notify" /\ Weigh[1] = "weigh" /\ Lacks[1] = "lacks"
  /\ \A value : Store(value)[1] = "store" /\ Store(value)[2] = value
  /\ \A p : Enqueue(p)[1] = "enqueue"
BY DEF Notify, Weigh, Lacks, Store, Enqueue

\* What a handler's next step does, by its kind.
LEMMA HandlerStep ==
  ASSUME NEW step, ReadStep, Head(reading) = step
  PROVE  /\ step[1] = "notify" =>
              permit' = TRUE /\ reading' = Tail(reading) /\ UNCHANGED amInterested
         /\ step[1] = "store" =>
              amInterested' = step[2] /\ reading' = Tail(reading) /\ UNCHANGED permit
         /\ step[1] = "weigh" => reading' = IF Lacking THEN StoreFirst ELSE <<>>
         /\ step[1] = "lacks" =>
              reading' = IF myBitfield # Pieces THEN NotifyFirst ELSE <<>>
         /\ step[1] = "enqueue" =>
              (reading' = Tail(reading) \/ reading' = <<>>) /\ UNCHANGED <<amInterested, permit>>
<1>1. \/ step = Notify /\ permit' = TRUE /\ reading' = Tail(reading) /\ UNCHANGED amInterested
      \/ /\ step \in {Store(TRUE), Store(FALSE)}
         /\ amInterested' = step[2] /\ reading' = Tail(reading) /\ UNCHANGED permit
      \/ step = Weigh /\ reading' = IF Lacking THEN StoreFirst ELSE <<>>
      \/ step = Lacks /\ reading' = IF myBitfield # Pieces THEN NotifyFirst ELSE <<>>
      \/ /\ step[1] = "enqueue" /\ UNCHANGED <<amInterested, permit>>
         /\ reading' = Tail(reading) \/ reading' = <<>>
  BY DEF ReadStep, Lacking
<1>2. QED
  BY <1>1, StepKinds

\* The steps of a handler that have to do with the interest.
LEMMA ReadStepSettles ==
  ASSUME IInv, Settling, ~TooEarly, ReadStep
  PROVE  Settling'
<1> DEFINE step == Head(reading)
<1>1. /\ rpc = "run" /\ reading # <<>> /\ reading \in Readings
      /\ UNCHANGED <<told, myBitfield, peerBitfield>>
      /\ myBitfield \subseteq Pieces /\ peerBitfield \subseteq Pieces
      /\ told \in BOOLEAN /\ permit \in BOOLEAN /\ amInterested \in BOOLEAN
  BY DEF ReadStep, writeVars, IInv, HalvesOK, FlagsOK, SetsOK
<1>2. Lacking' = Lacking
  BY <1>1 DEF Lacking
<1>3. ASSUME NEW x, reading = <<x>>
      PROVE  step = x /\ Tail(reading) = <<>>
  BY <1>3
<1>4. ASSUME NEW x, NEW y, reading = <<x, y>>
      PROVE  step = x /\ Tail(reading) = <<y>>
  BY <1>4
<1> HIDE DEF step
<1>5. CASE reading = <<Notify, Store(FALSE)>> \/ reading = <<Store(FALSE)>>
  <2>1. ~Lacking'
    BY <1>2, <1>5 DEF Settling
  <2>2. QED
    BY <2>1 DEF Settling
<1>6. CASE reading = <<Weigh>>
  <2>1. step = Weigh
    BY <1>3, <1>6
  <2>2. reading' = IF Lacking THEN StoreFirst ELSE <<>>
    BY <2>1, StepKinds, HandlerStep DEF step
  <2>3. QED
    BY <1>2, <2>2 DEF Settling, StoreFirst, Notify, Store
<1>7. CASE reading = <<Lacks>>
  <2>1. step = Lacks
    BY <1>3, <1>7
  <2>2. reading' = IF myBitfield # Pieces THEN NotifyFirst ELSE <<>>
    BY <2>1, StepKinds, HandlerStep DEF step
  <2>3. Lacking => myBitfield # Pieces
    BY <1>1 DEF Lacking
  <2>4. QED
    BY <1>2, <2>2, <2>3 DEF Settling, NotifyFirst, Notify, Store
<1>8. CASE reading = NotifyFirst
  <2>1. step = Notify /\ Tail(reading) = <<Store(TRUE)>>
    BY <1>4, <1>8 DEF NotifyFirst
  <2>2. permit' = TRUE /\ reading' = <<Store(TRUE)>>
    BY <2>1, StepKinds, HandlerStep DEF step
  <2>3. QED
    BY <2>2 DEF Settling, WillTell, Store, Notify
<1>9. CASE reading = StoreFirst
  <2>1. step = Store(TRUE) /\ Tail(reading) = <<Notify>>
    BY <1>4, <1>9 DEF StoreFirst
  <2>2. amInterested' = TRUE /\ reading' = <<Notify>>
    BY <2>1, StepKinds, HandlerStep DEF step
  <2>3. QED
    BY <2>2 DEF Settling, Store, Notify
<1>10. CASE reading = <<Notify>>
  <2>1. step = Notify /\ Tail(reading) = <<>>
    BY <1>3, <1>10
  <2>2. permit' = TRUE /\ reading' = <<>> /\ amInterested' = amInterested
    BY <2>1, StepKinds, HandlerStep DEF step
  <2>3. Lacking => amInterested
    BY <1>1, <1>10 DEF Settling, NotifyFirst, StoreFirst, Notify, Store, Weigh, Lacks, Enqueue
  <2>4. QED
    BY <1>2, <2>2, <2>3 DEF Settling, WillTell
<1>11. CASE reading = <<Store(TRUE)>>
  <2>1. step = Store(TRUE) /\ Tail(reading) = <<>>
    BY <1>3, <1>11
  <2>2. amInterested' = TRUE /\ reading' = <<>> /\ permit' = permit
    BY <2>1, StepKinds, HandlerStep DEF step
  <2>3. permit \/ told
    BY <1>11 DEF TooEarly, WokenTooEarly
  <2>4. QED
    BY <1>1, <2>2, <2>3 DEF Settling, WillTell
<1>12. CASE reading \in { <<Enqueue(p)>> : p \in Pieces }
  <2>1. PICK p \in Pieces : reading = <<Enqueue(p)>>
    BY <1>12
  <2>2. step = Enqueue(p) /\ Tail(reading) = <<>>
    BY <1>3, <2>1
  <2>3. reading' = <<>> /\ UNCHANGED <<amInterested, permit>>
    BY <2>2, StepKinds, HandlerStep DEF step
  <2>4. Lacking => amInterested /\ WillTell
    BY <1>1, <2>1 DEF Settling, NotifyFirst, StoreFirst, Notify, Store, Weigh, Lacks, Enqueue
  <2>5. QED
    BY <1>1, <1>2, <2>3, <2>4 DEF Settling, WillTell
<1>13. QED
  BY <1>1, <1>5, <1>6, <1>7, <1>8, <1>9, <1>10, <1>11, <1>12 DEF Readings

LEMMA SettlingStep ==
  ASSUME IInv, Settling, ~TooEarly, ~TooEarly', [Next]_vars
  PROVE  Settling'
<1>0. /\ reading \in Readings
      /\ myBitfield \subseteq Pieces /\ peerBitfield \subseteq Pieces
      /\ told \in BOOLEAN /\ permit \in BOOLEAN /\ amInterested \in BOOLEAN
  BY DEF IInv, HalvesOK, FlagsOK, SetsOK
<1>1. CASE /\ UNCHANGED <<reading, peerBitfield, amInterested, permit, told>>
           /\ rpc' = "run" => rpc = "run"
           /\ myBitfield \subseteq myBitfield'
  <2>1. Lacking' => Lacking
    BY <1>1 DEF Lacking
  <2>2. WillTell' = WillTell
    BY <1>1 DEF WillTell
  <2>3. QED
    BY <1>1, <2>1, <2>2 DEF Settling
<1>2. CASE HearHaveAll
  BY <1>2 DEF HearHaveAll, Settling, Notify, Store, Lacks
<1>3. CASE HearHaveNone
  <2>1. ~Lacking'
    BY <1>3 DEF HearHaveNone, Lacking
  <2>2. QED
    BY <2>1 DEF Settling
<1>4. CASE ReadStep
  BY <1>4, ReadStepSettles
<1>5. CASE WriteLose
  <2>1. ~Lacking'
    BY <1>5 DEF WriteLose, TooEarly, WeighedTooEarly, Lacking
  <2>2. QED
    BY <2>1 DEF Settling
<1>6. CASE WriteNotified
  <2>1. /\ UNCHANGED <<rpc, reading, myBitfield, peerBitfield, amInterested>>
        /\ told' = amInterested
    BY <1>6 DEF WriteNotified, readVars
  <2>2. Lacking' = Lacking
    BY <2>1 DEF Lacking
  <2>3. reading = <<Store(TRUE)>> => WillTell'
    BY <2>1 DEF TooEarly, WokenTooEarly, WillTell
  <2>4. amInterested => WillTell'
    BY <1>0, <2>1 DEF WillTell
  <2>5. QED
    BY <2>1, <2>2, <2>3, <2>4 DEF Settling
<1>7. ASSUME NEW p \in Pieces, HearHave(p)
      PROVE  Settling'
  <2>1. /\ reading = <<>> /\ rpc = "run" /\ peerBitfield' = peerBitfield \cup {p}
        /\ reading' = IF p \in peerBitfield THEN <<>> ELSE NotifyFirst
        /\ UNCHANGED <<rpc, told, amInterested, permit, myBitfield>>
    BY <1>7 DEF HearHave, Hears, Selecting, writeVars
  <2>2. CASE p \in peerBitfield
    <3>1. peerBitfield' = peerBitfield
      BY <2>1, <2>2
    <3>2. Lacking' = Lacking /\ WillTell' = WillTell
      BY <2>1, <3>1 DEF Lacking, WillTell
    <3>3. QED
      BY <2>1, <2>2, <3>2 DEF Settling
  <2>3. CASE p \notin peerBitfield
    BY <2>1, <2>3 DEF Settling, NotifyFirst, Notify, Store
  <2>4. QED
    BY <2>2, <2>3
<1>8. ASSUME NEW p \in Pieces, HearRequest(p) \/ HearCancel(p)
      PROVE  Settling'
  <2>1. /\ reading = <<>> /\ rpc = "run" /\ reading' \in {<<>>, <<Enqueue(p)>>}
        /\ UNCHANGED <<rpc, told, amInterested, permit, myBitfield, peerBitfield>>
    BY <1>8 DEF HearRequest, HearCancel, Hears, Selecting, writeVars
  <2>2. Lacking' = Lacking /\ WillTell' = WillTell
    BY <2>1 DEF Lacking, WillTell
  <2>3. Lacking => amInterested /\ WillTell
    BY <2>1 DEF Settling, NotifyFirst, StoreFirst
  <2>4. reading' \notin {<<Notify, Store(FALSE)>>, <<Store(FALSE)>>}
    <3>1. Enqueue(p) # Store(FALSE)
      BY StepKinds
    <3>2. \A x, y, z : <<x>> # <<y, z>> /\ <<>> # <<y, z>> /\ <<>> # <<x>>
                      /\ (<<x>> = <<y>> => x = y)
      OBVIOUS
    <3>3. QED
      BY <2>1, <3>1, <3>2, Zenon
  <2>5. QED
    BY <2>1, <2>2, <2>3, <2>4 DEF Settling
<1>9. ASSUME NEW pieces \in SUBSET Pieces, HearBitField(pieces)
      PROVE  Settling'
  BY <1>9 DEF HearBitField, Settling, Notify, Store, Weigh
<1>10. QED
  BY <1>1, <1>2, <1>3, <1>4, <1>5, <1>6, <1>7, <1>8, <1>9, StepInterest DEF InterestSteps

LEMMA InitSettling == Init => Settling
BY DEF Init, Settling, Lacking, Notify, Store

\* Whatever the peer announces, in whatever order, and whichever pieces are verified
\* meanwhile: it learns that we are interested, unless the write half woke up before
\* the interest was stored or gave it up on the strength of an old weighing.
THEOREM InterestIsTold == Spec => InterestSettlesUnlessEarly
<1>1. Settling => (AtRest /\ peerBitfield \ myBitfield # {} => told)
  BY DEF Settling, AtRest, Selecting, Lacking, WillTell, NotifyFirst, StoreFirst
<1>2. IInv /\ Settling /\ ~TooEarly /\ ~TooEarly' /\ [Next]_vars => Settling'
  BY SettlingStep
<1>3. TooEarly <=> (WokenTooEarly \/ WeighedTooEarly)
  BY DEF TooEarly
<1>4. QED
  BY <1>1, <1>2, <1>3, InitSettling, Inductive, PTL DEF Spec, InterestSettlesUnlessEarly

\* The write half has ended, or it will when it comes to read what awaits it.
Severed ==
  ~WriteRuns \/ Disconnect \in Unread(child["write"]) \/ child["write"].missed

LEMMA SeveredStays ==
  ASSUME IInv, ShapedStep, Severed
  PROVE  Severed'
<1>1. CASE ~WriteRuns'
  BY <1>1 DEF Severed
<1>2. CASE WriteRuns'
  <2>1. WriteRuns /\ Disconnect \in ThreadUpdate
    BY <1>2 DEF ShapedStep, Changes, WpcSteps, ThreadUpdate
  <2>2. Disconnect \in Unread(child'["write"]) \/ child'["write"].missed
    BY <1>2, <2>1, UntilHandled, KindsDiffer DEF Severed
  <2>3. QED
    BY <2>2 DEF Severed
<1>3. QED
  BY <1>1, <1>2

\* The handlers that wake the write half before they store the interest.
Early == {<<Lacks>>, NotifyFirst, <<Store(TRUE)>>}

LEMMA ListsDiffer ==
  /\ \A x, y, z : <<x>> # <<y, z>> /\ <<>> # <<y, z>> /\ <<>> # <<x>>
  /\ \A x, y : <<x>> = <<y>> => x = y
  /\ \A w, x, y, z : <<w, x>> = <<y, z>> => w = y /\ x = z
OBVIOUS

\* Without a Have or a HaveAll no handler does.
LEMMA NotEarly ==
  ASSUME IInv, reading \notin Early, InterestSteps,
         ~HearHaveAll, \A p \in Pieces : ~HearHave(p)
  PROVE  reading' \notin Early
<1>1. /\ Weigh # Lacks /\ Weigh # Store(TRUE) /\ Notify # Lacks /\ Notify # Store(TRUE)
      /\ Store(FALSE) # Lacks /\ Store(FALSE) # Store(TRUE)
      /\ \A p : Enqueue(p) # Lacks /\ Enqueue(p) # Store(TRUE)
  <2>1. Store(TRUE)[2] = TRUE /\ Store(FALSE)[2] = FALSE
    BY StepKinds
  <2>2. Store(FALSE) # Store(TRUE)
    BY <2>1, Zenon
  <2>3. QED
    BY <2>2, StepKinds
<1>2. CASE reading' = reading
  BY <1>2
<1>3. CASE HearHaveNone
  BY <1>1, <1>3, ListsDiffer, Zenon DEF HearHaveNone, Early, NotifyFirst
<1>4. ASSUME NEW p \in Pieces, HearRequest(p) \/ HearCancel(p)
      PROVE  reading' \notin Early
  BY <1>1, <1>4, ListsDiffer, Zenon DEF HearRequest, HearCancel, Early, NotifyFirst
<1>5. ASSUME NEW pieces \in SUBSET Pieces, HearBitField(pieces)
      PROVE  reading' \notin Early
  BY <1>1, <1>5, ListsDiffer, Zenon DEF HearBitField, Early, NotifyFirst
<1>6. CASE ReadStep
  <2> DEFINE step == Head(reading)
  <2>1. reading # <<>> /\ reading \in Readings
    BY <1>6 DEF ReadStep, IInv, HalvesOK
  <2>2. step # Lacks
    <3>1. ASSUME NEW x, reading = <<x>> PROVE step = x /\ x # Lacks
      <4>1. step = x
        BY <3>1
      <4>2. x # Lacks
        BY <3>1, Zenon DEF Early
      <4>3. QED
        BY <4>1, <4>2
    <3>2. ASSUME NEW x, NEW y, reading = <<x, y>> PROVE step = x
      BY <3>2
    <3>3. CASE reading \in {StoreFirst, <<Notify, Store(FALSE)>>}
      BY <1>1, <3>2, <3>3, StepKinds DEF StoreFirst
    <3>4. CASE reading \in { <<Weigh>>, <<Notify>>, <<Store(FALSE)>> }
                             \cup { <<Enqueue(p)>> : p \in Pieces }
      BY <3>1, <3>4
    <3>5. QED
      BY <2>1, <3>3, <3>4 DEF Readings, Early
  <2>3. Tail(reading) \in {<<>>, <<Notify>>, <<Store(FALSE)>>}
    <3>1. \A x, y : Tail(<<x>>) = <<>> /\ Tail(<<x, y>>) = <<y>>
      OBVIOUS
    <3>2. QED
      BY <2>1, <3>1 DEF Readings, Early, NotifyFirst, StoreFirst
  <2>4. reading' \in {Tail(reading), StoreFirst, <<>>}
    BY <1>6, <2>2 DEF ReadStep
  <2>5. reading' \in {<<>>, <<Notify>>, <<Store(FALSE)>>, StoreFirst}
    BY <2>3, <2>4
  <2>6. \A list \in {<<>>, <<Notify>>, <<Store(FALSE)>>, StoreFirst} : list \notin Early
    <3>1. <<>> \notin Early
      BY ListsDiffer, Zenon DEF Early, NotifyFirst
    <3>2. <<Notify>> \notin Early /\ <<Store(FALSE)>> \notin Early
      BY <1>1, ListsDiffer, Zenon DEF Early, NotifyFirst
    <3>3. StoreFirst \notin Early
      BY <1>1, ListsDiffer, Zenon DEF Early, NotifyFirst, StoreFirst
    <3>4. QED
      BY <3>1, <3>2, <3>3
  <2>7. QED
    BY <2>5, <2>6
<1>7. QED
  BY <1>2, <1>3, <1>4, <1>5, <1>6 DEF InterestSteps, WriteLose, WriteNotified, readVars

\* What a peer without the Fast Extension can bring about by a BitField, or else it
\* is being disconnected.
ByBitField == ~supportsFast => Severed \/ (Settling /\ reading \notin Early)

LEMMA ByBitFieldStep ==
  ASSUME "Have" \notin PeerMessages, IInv, ByBitField, ~WeighedTooEarly, ~WeighedTooEarly',
         [Next]_vars
  PROVE  ByBitField'
<1>1. ShapedStep /\ InterestSteps /\ UNCHANGED supportsFast
  BY StepsAreShaped, StepInterest
<1>2. \A p \in Pieces : ~HearHave(p)
  BY DEF HearHave, Hears
<1>3. CASE ~supportsFast /\ ~Severed /\ HearHaveAll
  <2>1. child' = ToChildren(Disconnect) /\ Disconnect \in ThreadUpdate
    BY <1>3 DEF HearHaveAll, FastOnly, ThreadUpdate
  <2>2. WriteRuns
    BY <1>3 DEF Severed
  <2>3. Severed'
    BY <2>1, <2>2, SentToWriteHalf DEF Severed
  <2>4. QED
    BY <2>3 DEF ByBitField
<1>4. CASE ~supportsFast /\ ~Severed /\ ~HearHaveAll
  <2>1. reading \notin Early /\ reading' \notin Early /\ Settling
    BY <1>1, <1>2, <1>4, NotEarly DEF ByBitField
  <2>2. ~TooEarly /\ ~TooEarly'
    BY <2>1 DEF TooEarly, WokenTooEarly, Early
  <2>3. Settling'
    BY <2>1, <2>2, SettlingStep
  <2>4. QED
    BY <2>1, <2>3 DEF ByBitField
<1>5. CASE supportsFast \/ Severed
  BY <1>1, <1>5, SeveredStays DEF ByBitField
<1>6. QED
  BY <1>3, <1>4, <1>5

\* A BitField is weighed, then stored, then told, in the right order: without the
\* extension, and without a Have, the wake-up never comes too early.
THEOREM BitFieldSettles ==
  ASSUME "Have" \notin PeerMessages
  PROVE  Spec /\ []~WeighedTooEarly => []InterestSettles
<1>1. Init => ByBitField
  <2>1. <<>> \notin Early
    BY DEF Early, NotifyFirst
  <2>2. QED
    BY <2>1, InitSettling DEF Init, ByBitField
<1>2. IInv /\ ByBitField /\ ~WeighedTooEarly /\ ~WeighedTooEarly' /\ [Next]_vars => ByBitField'
  BY ByBitFieldStep
<1>3. ByBitField => InterestSettles
  <2>1. AtRest => ~Severed
    BY DEF AtRest, Severed, WriteRuns, NoMessages, Unread
  <2>2. AtRest /\ Settling /\ peerBitfield \ myBitfield # {} => told
    BY DEF Settling, AtRest, Selecting, Lacking, WillTell, NotifyFirst, StoreFirst
  <2>3. QED
    BY <2>1, <2>2 DEF ByBitField, InterestSettles
<1>4. QED
  BY <1>1, <1>2, <1>3, Inductive, PTL DEF Spec

=============================================================================
