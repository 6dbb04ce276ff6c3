------------------------------ MODULE Download ------------------------------
(***************************************************************************)
(* How stored blocks become verified pieces, and what a restart makes of   *)
(* them (src/src/download.rs): the files, Download::new, the monitor, and  *)
(* every connection as far as it stores blocks and hears of pieces.        *)
(*                                                                         *)
(* A connection is its PieceTracker, what its peer still has to answer and *)
(* the block its read half is storing.  Its channels, its interest and its *)
(* choke flags are in PeerSession, whose StoredIsReported says that a      *)
(* stored block reaches the parent channel.  A block lies in one file; a   *)
(* write lands whole or not at all.  The peers answer what they are asked. *)
(***************************************************************************)
EXTENDS PieceTracker, Broadcast

CONSTANTS
  Connections,
  PeerHas,      \* the pieces each connection's peer has
  FileOf,       \* the file each block lies in
  SlowDisk,     \* may a write land after its block was reported?
  Capacity,     \* of the parent channel, 32 in the code
  Scenarios     \* what a behaviour may start from and what may go wrong in it

Files == { FileOf[pb] : pb \in AllBlocks }

ASSUME DownloadAssumption ==
  /\ DOMAIN FileOf = AllBlocks
  /\ PeerHas \in [Connections -> SUBSET Pieces]
  /\ SlowDisk \in BOOLEAN
  /\ Capacity \in Nat \ {0}
  /\ None \notin Tracker \cup [piece : Pieces, next : Nat, good : BOOLEAN]
  /\ Scenarios \subseteq
       [ found   : SUBSET Files,        \* left complete by an earlier download
         corrupt : SUBSET Connections,  \* whose peers may send wrong data
         crashes : Nat ]                \* bound: the process is killed so often

VARIABLES
  \* the disk, which outlives the process
  sized,      \* files that exist with their full length
  disk,       \* what each block of the files holds
  writes,     \* writes handed to the runtime that have not landed
  \* start-up
  phase,      \* "starting", in Download::new, or "running"
  visited,    \* files initialize_files has been through
  fresh,      \* `initialized_all`
  \* the connections
  tracker,    \* the PieceTracker of each, None before it starts
  asked,      \* requests its peer has not answered
  storing,    \* the block its read half is storing
  updates,    \* what its write half may still hear of from the parent channel
  \* the monitor
  myBitfield, \* `bitvec`, the verified pieces
  inbox,      \* its receiver of the parent channel
  ended,      \* has it left its loop?
  check,      \* the piece it is hashing, how far it has read and what it saw
  \* the environment
  scenario    \* one of Scenarios, with the crashes still to come

diskVars    == <<sized, disk, writes>>
startVars   == <<phase, visited, fresh>>
connVars    == <<tracker, asked, storing, updates>>
monitorVars == <<myBitfield, inbox, ended, check>>

vars == <<diskVars, startVars, connVars, monitorVars, scenario>>

Content == {"zeros", "good", "bad"}

Write == [by : Connections, block : AllBlocks, content : {"good", "bad"}]

Downloaded(p) == <<"Downloaded", p>>
Completed(p)  == <<"Completed", p>>
FileComplete  == <<"FileComplete", None>>

Message == ({"Downloaded", "Completed"} \X Pieces) \cup {FileComplete}

\* Piece p hashes to what the .torrent file says.
Intact(p) == \A pb \in OfPiece(p) : disk[pb] = "good"

IntactPieces == { p \in Pieces : Intact(p) }

Running(c) == tracker[c] # None

ForAll(value) == [c \in Connections |-> value]

Init ==
  /\ scenario \in Scenarios
  /\ sized = scenario.found
  /\ disk = [pb \in AllBlocks |-> IF FileOf[pb] \in sized THEN "good" ELSE "zeros"]
  /\ writes = {}
  /\ phase = "starting" /\ visited = {} /\ fresh = TRUE
  /\ tracker = ForAll(None) /\ asked = ForAll({}) /\ storing = ForAll(None)
  /\ updates = ForAll({})
  /\ myBitfield = {} /\ inbox = NoMessages /\ ended = FALSE /\ check = None

-----------------------------------------------------------------------------
(* Download::new *)

\* Mutant: the last file alone decides whether the download is new.
InitializeAny(f) ==
  /\ phase = "starting"
  /\ f \notin visited
  /\ visited' = visited \cup {f}
  /\ sized' = sized \cup {f}
  /\ fresh' = (f \notin sized)
  /\ UNCHANGED <<disk, writes, phase, connVars, monitorVars, scenario>>

\* initialize_files, for one file.
InitializeFile(f) ==
  /\ phase = "starting"
  /\ f \notin visited
  /\ visited' = visited \cup {f}
  /\ sized' = sized \cup {f}
  /\ fresh' = (fresh /\ f \notin sized)
  /\ UNCHANGED <<disk, writes, phase, connVars, monitorVars, scenario>>

\* Unless all files are new, update_downloads hashes every piece.
StartMonitor ==
  /\ phase = "starting"
  /\ visited = Files
  /\ phase' = "running"
  /\ myBitfield' = IF fresh THEN {} ELSE IntactPieces
  /\ UNCHANGED <<diskVars, visited, fresh, connVars, inbox, ended, check, scenario>>

-----------------------------------------------------------------------------
(* A connection. *)

\* It subscribes to the parent channel and copies the bitfield.
Connect(c) ==
  /\ phase = "running"
  /\ ~Running(c)
  /\ tracker' = [tracker EXCEPT ![c] = Update(FromFileInfo, myBitfield)]
  /\ UNCHANGED <<diskVars, startVars, asked, storing, updates, monitorVars, scenario>>

\* send_one_round
Ask(c) ==
  /\ Running(c)
  /\ \E result \in Request(tracker[c], PeerHas[c]) :
       /\ result.answer # None
       /\ tracker' = [tracker EXCEPT ![c] = result.tracker]
       /\ asked' = [asked EXCEPT ![c] = @ \cup {result.answer}]
  /\ UNCHANGED <<diskVars, startVars, storing, updates, monitorVars, scenario>>

\* The peer answers; the read half hands the block to write_all ...
HearPiece(c, pb, content) ==
  /\ storing[c] = None
  /\ pb \in asked[c]
  /\ content = "bad" => c \in scenario.corrupt
  /\ asked' = [asked EXCEPT ![c] = @ \ {pb}]
  /\ storing' = [storing EXCEPT ![c] = pb]
  /\ writes' = writes \cup {[by |-> c, block |-> pb, content |-> content]}
  /\ UNCHANGED <<sized, disk, startVars, tracker, updates, monitorVars, scenario>>

\* ... which may return before the data is in the file ...
Land(w) ==
  /\ writes' = writes \ {w}
  /\ disk' = [disk EXCEPT ![w.block] = w.content]
  /\ UNCHANGED <<sized, startVars, connVars, monitorVars, scenario>>

Landed(c) == \A w \in writes : w.by # c

\* ... and then reports the block.
Report(c) ==
  /\ storing[c] # None
  /\ SlowDisk \/ Landed(c)
  /\ tracker' = [tracker EXCEPT ![c] = MarkBlockAsDownloaded(@, storing[c])]
  /\ inbox' = IF ended THEN inbox
              ELSE Push(inbox, Downloaded(storing[c][1]), Capacity)
  /\ storing' = [storing EXCEPT ![c] = None]
  /\ UNCHANGED <<diskVars, startVars, asked, updates, myBitfield, ended, check, scenario>>

\* The write half hears of a piece, or that the download is complete and cancels
\* what it has asked for.  A forwarder that lags never hears of some messages.
HearUpdate(c) ==
  /\ \E message \in updates[c] :
       /\ updates' = [updates EXCEPT ![c] = @ \ {message}]
       /\ IF message = FileComplete
          THEN /\ asked' = [asked EXCEPT ![c] = @ \ PendingRequests(tracker[c])]
               /\ UNCHANGED tracker
          ELSE /\ tracker' = [tracker EXCEPT
                                ![c] = MarkPieceAsDownloaded(@, message[2])]
               /\ UNCHANGED asked
  /\ UNCHANGED <<diskVars, startVars, storing, monitorVars, scenario>>

-----------------------------------------------------------------------------
(* monitor_file_progress *)

MonitorReceives == ~ended /\ check = None

\* A block was stored: begin to hash its piece, from its first block.
MonitorDownloaded(p) ==
  /\ MonitorReceives
  /\ Delivers(inbox, Downloaded(p))
  /\ inbox' = Received(inbox)
  /\ check' = [piece |-> p, next |-> 0, good |-> TRUE]
  /\ UNCHANGED <<diskVars, startVars, connVars, myBitfield, ended, scenario>>

\* get_piece_data: blocks are stored while the piece is read.
MonitorReads ==
  /\ check # None
  /\ check.next < NumBlocks(check.piece)
  /\ check' = [check EXCEPT !.next = @ + 1,
                            !.good = @ /\ disk[<<check.piece, check.next>>] = "good"]
  /\ UNCHANGED <<diskVars, startVars, connVars, myBitfield, inbox, ended, scenario>>

\* Mutant: a bit that is set stays set.
BitfieldOnlyGrows ==
  IF check.good THEN myBitfield \cup {check.piece} ELSE myBitfield

\* replace(piece, finished_download)
BitfieldAfterCheck ==
  IF check.good THEN myBitfield \cup {check.piece} ELSE myBitfield \ {check.piece}

\* The end of update_piece, and what the monitor tells everybody.
MonitorDecides ==
  /\ check # None
  /\ check.next = NumBlocks(check.piece)
  /\ myBitfield' = BitfieldAfterCheck
  /\ LET isNew  == check.piece \in myBitfield' \ myBitfield
         isLast == myBitfield' = Pieces
         told   == IF isNew THEN Push(inbox, Completed(check.piece), Capacity) ELSE inbox
     IN  /\ inbox' = IF isLast THEN Push(told, FileComplete, Capacity) ELSE told
         /\ updates' = [c \in Connections |->
                          IF Running(c)
                          THEN updates[c] \cup (IF isNew THEN {Completed(check.piece)} ELSE {})
                                          \cup (IF isLast THEN {FileComplete} ELSE {})
                          ELSE {}]
  /\ check' = None
  /\ UNCHANGED <<diskVars, startVars, tracker, asked, storing, ended, scenario>>

\* Its own Completed, or a gap: only logged.
MonitorLogs ==
  /\ MonitorReceives
  /\ Lags(inbox) \/ \E p \in Pieces : Delivers(inbox, Completed(p))
  /\ inbox' = Received(inbox)
  /\ UNCHANGED <<diskVars, startVars, connVars, myBitfield, ended, check, scenario>>

\* Its own FileComplete: it leaves the loop and drops its receiver.
MonitorEnds ==
  /\ MonitorReceives
  /\ Delivers(inbox, FileComplete)
  /\ ended' = TRUE
  /\ inbox' = NoMessages
  /\ UNCHANGED <<diskVars, startVars, connVars, myBitfield, check, scenario>>

-----------------------------------------------------------------------------
(* The process is killed and started again.  Of the writes under way any may *)
(* have reached the disk, in any order.                                      *)

Crash ==
  /\ scenario.crashes > 0
  /\ scenario' = [scenario EXCEPT !.crashes = @ - 1]
  /\ disk' \in { d \in [AllBlocks -> Content] :
                   \A pb \in AllBlocks :
                     \/ d[pb] = disk[pb]
                     \/ \E w \in writes : w.block = pb /\ d[pb] = w.content }
  /\ writes' = {}
  /\ phase' = "starting" /\ visited' = {} /\ fresh' = TRUE
  /\ tracker' = ForAll(None) /\ asked' = ForAll({}) /\ storing' = ForAll(None)
  /\ updates' = ForAll({})
  /\ myBitfield' = {} /\ inbox' = NoMessages /\ ended' = FALSE /\ check' = None
  /\ UNCHANGED sized

-----------------------------------------------------------------------------
Starting == StartMonitor \/ \E f \in Files : InitializeFile(f)

Answers(c) ==
  \E pb \in AllBlocks, content \in {"good", "bad"} : HearPiece(c, pb, content)

Monitor ==
  \/ \E p \in Pieces : MonitorDownloaded(p)
  \/ MonitorReads \/ MonitorDecides \/ MonitorLogs \/ MonitorEnds

Next ==
  \/ Starting \/ Monitor \/ Crash
  \/ \E c \in Connections : Connect(c) \/ Ask(c) \/ Answers(c) \/ Report(c)
                              \/ HearUpdate(c)
  \/ \E w \in writes : Land(w)

Spec == Init /\ [][Next]_vars

ReadHalf(c) == Connect(c) \/ Answers(c) \/ Report(c)

\* Every task that can run does, every write lands, the timer keeps asking and
\* the peers answer.  Nothing obliges a write half to hear of anything.
FairSpec ==
  /\ Spec
  /\ WF_vars(Starting \/ Monitor)
  /\ WF_vars(\E w \in writes : Land(w))
  /\ \A c \in Connections : WF_vars(ReadHalf(c)) /\ WF_vars(Ask(c))

-----------------------------------------------------------------------------
(* Properties. *)

\* Every variable has the type its declaration gives it.
TypeOK ==
  /\ sized \subseteq Files /\ visited \subseteq Files
  /\ disk \in [AllBlocks -> Content]
  /\ writes \subseteq Write
  /\ phase \in {"starting", "running"} /\ fresh \in BOOLEAN
  /\ \A c \in Connections :
       /\ Running(c) => tracker[c] \in Tracker
       /\ asked[c] \subseteq AllBlocks
       /\ storing[c] \in AllBlocks \cup {None}
       /\ updates[c] \subseteq Message
  /\ myBitfield \subseteq Pieces
  /\ Unread(inbox) \subseteq Message /\ Len(inbox.q) <= Capacity
  /\ ended \in BOOLEAN
  /\ check # None => /\ check.piece \in Pieces
                     /\ check.next \in 0 .. NumBlocks(check.piece)
  /\ scenario \in [found : SUBSET Files, corrupt : SUBSET Connections, crashes : Nat]

\* Somebody is about to report a block of p, or has and the monitor will read it.
CheckDue(p) ==
  \/ \E c \in Connections : storing[c] # None /\ storing[c][1] = p
  \/ Downloaded(p) \in Unread(inbox)

\* The hash the monitor is computing will be right, and will be wrong.
WillPass(p) ==
  /\ check # None /\ check.piece = p /\ check.good
  /\ \A pb \in OfPiece(p) : pb[2] >= check.next => disk[pb] = "good"

WillFail(p) ==
  /\ check # None /\ check.piece = p
  /\ \/ ~check.good
     \/ \E pb \in OfPiece(p) : pb[2] >= check.next /\ disk[pb] # "good"

\* "Upon receiving this message, the parent thread checks if the any new pieces
\* have been successfully downloaded": no piece that is entirely on disk is
\* forgotten, although the monitor reads it while blocks are still being stored.
IntactIsNoticed ==
  phase = "running" /\ ~ended =>
    \A p \in IntactPieces \ myBitfield : CheckDue(p) \/ WillPass(p)

\* A verified piece that a peer's late block has spoilt is about to be checked
\* again, as long as the monitor lives.
SpoiltIsNoticed ==
  phase = "running" /\ ~ended =>
    \A p \in myBitfield \ IntactPieces : CheckDue(p) \/ WillFail(p)

\* Without corrupt peers the download completes, whatever messages the
\* forwarders miss and though the process is killed.
DownloadCompletes == scenario.corrupt = {} => <>[](myBitfield = Pieces)

\* lib.rs:16: a piece whose blocks have all been stored gets verified.
StoredIsVerified ==
  \A p \in Pieces : (scenario.corrupt = {} /\ p \in IntactPieces) ~> (p \in myBitfield)

=============================================================================
