---------------------------- MODULE BitfieldLock ----------------------------
(***************************************************************************)
(* Who holds the lock on my_bitfield, and who waits for it.  The write     *)
(* half of every connection reads it, for the whole of its start and then  *)
(* now and again; the monitor writes it after hashing a piece              *)
(* (src/src/peer/connection.rs, src/src/download.rs).  The lock is tokio's *)
(* RwLock: first come, first served, so a reader that comes after a        *)
(* waiting writer waits behind it, even one that holds the lock already.   *)
(***************************************************************************)
EXTENDS Naturals, Sequences

CONSTANTS
  Connections,
  SendBitfield,  \* those that open with send_bitfield: no Fast Extension, and
                 \* we have some piece
  Monitor,
  NumPieces      \* pieces the monitor has still to verify

ASSUME LockAssumption ==
  /\ SendBitfield \subseteq Connections
  /\ Monitor \notin Connections
  /\ NumPieces \in Nat

VARIABLES
  pc,        \* where each task is
  waiting,   \* the lock's queue: tasks, first come first
  readers,   \* how often each connection holds the lock for reading
  writing,   \* does the monitor hold it for writing?
  verified,  \* pieces whose bit is set in my_bitfield
  snapshot   \* what each tracker was updated with, in pieces

vars == <<pc, waiting, readers, writing, verified, snapshot>>

Tasks == Connections \cup {Monitor}

\* The places where a task waits for the lock, and where it goes once it has it.
Acquiring ==
  [ opening |-> "opened", sending |-> "sent", reading |-> "read",
    setting |-> "set" ]

Waits(t) == pc[t] \in DOMAIN Acquiring

Init ==
  /\ pc = [t \in Tasks |-> IF t = Monitor THEN "idle" ELSE "start"]
  /\ waiting = <<>>
  /\ readers = [c \in Connections |-> 0]
  /\ writing = FALSE
  /\ verified = 0
  /\ snapshot = [c \in Connections |-> 0]

-----------------------------------------------------------------------------
(* The lock. *)

\* read().await or write().await from `from`: get in line ...
Queue(t, from, to) ==
  /\ pc[t] = from
  /\ pc' = [pc EXCEPT ![t] = to]
  /\ waiting' = Append(waiting, t)
  /\ UNCHANGED <<readers, writing, verified, snapshot>>

\* ... and have it granted, at once if nobody is in the way.
Grant ==
  /\ waiting # <<>>
  /\ ~writing
  /\ LET t == Head(waiting) IN
       /\ IF t = Monitor
          THEN /\ \A c \in Connections : readers[c] = 0
               /\ writing' = TRUE
               /\ UNCHANGED readers
          ELSE /\ readers' = [readers EXCEPT ![t] = @ + 1]
               /\ UNCHANGED writing
       /\ pc' = [pc EXCEPT ![t] = Acquiring[@]]
  /\ waiting' = Tail(waiting)
  /\ UNCHANGED <<verified, snapshot>>

-----------------------------------------------------------------------------
(* The write half of connection c. *)

OpenLock(c) == Queue(c, "start", "opening")

\* Mutant: the guard is dropped before the bitfield is sent.
UpdateAndUnlock(c) ==
  /\ pc[c] = "opened"
  /\ snapshot' = [snapshot EXCEPT ![c] = verified]
  /\ readers' = [readers EXCEPT ![c] = 0]
  /\ pc' = [pc EXCEPT ![c] = "updated"]
  /\ UNCHANGED <<waiting, writing, verified>>

\* requested.update(&my_bitfield)
UpdateTracker(c) ==
  /\ pc[c] = "opened"
  /\ snapshot' = [snapshot EXCEPT ![c] = verified]
  /\ pc' = [pc EXCEPT ![c] = "updated"]
  /\ UNCHANGED <<waiting, readers, writing, verified>>

\* send_bitfield locks again what write_peer already holds.
SendLock(c) == c \in SendBitfield /\ Queue(c, "updated", "sending")

\* The bitfield is written to the peer; send_bitfield drops its guard.
SendUnlock(c) ==
  /\ pc[c] = "sent"
  /\ readers' = [readers EXCEPT ![c] = @ - 1]
  /\ pc' = [pc EXCEPT ![c] = "told"]
  /\ UNCHANGED <<waiting, writing, verified, snapshot>>

\* HaveAll, HaveNone or nothing is sent under the first lock.
SendOther(c) ==
  /\ c \notin SendBitfield
  /\ pc[c] = "updated"
  /\ pc' = [pc EXCEPT ![c] = "told"]
  /\ UNCHANGED <<waiting, readers, writing, verified, snapshot>>

\* drop(my_bitfield)
OpenUnlock(c) ==
  /\ pc[c] = "told"
  /\ readers' = [readers EXCEPT ![c] = @ - 1]
  /\ pc' = [pc EXCEPT ![c] = "loop"]
  /\ UNCHANGED <<waiting, writing, verified, snapshot>>

\* In the loop: before a block is served, and to weigh the interest.
ReadLock(c) == Queue(c, "loop", "reading")

\* Mutant: the guard is never dropped.
KeepReadLock(c) ==
  /\ pc[c] = "read"
  /\ pc' = [pc EXCEPT ![c] = "loop"]
  /\ UNCHANGED <<waiting, readers, writing, verified, snapshot>>

ReadUnlock(c) ==
  /\ pc[c] = "read"
  /\ readers' = [readers EXCEPT ![c] = @ - 1]
  /\ pc' = [pc EXCEPT ![c] = "loop"]
  /\ UNCHANGED <<waiting, writing, verified, snapshot>>

\* A write to the peer fails: what the half holds is dropped with it.  Another
\* connection takes its place, so Connections bounds those there are at a time.
WriteFails(c) ==
  /\ \/ pc[c] = "updated" /\ c \notin SendBitfield
     \/ pc[c] \in {"sent", "told", "loop"}
  /\ readers' = [readers EXCEPT ![c] = 0]
  /\ pc' = [pc EXCEPT ![c] = "start"]
  /\ UNCHANGED <<waiting, writing, verified, snapshot>>

-----------------------------------------------------------------------------
(* The monitor: update_piece. *)

SetLock ==
  /\ verified < NumPieces
  /\ Queue(Monitor, "idle", "setting")

SetBit ==
  /\ pc[Monitor] = "set"
  /\ verified' = verified + 1
  /\ writing' = FALSE
  /\ pc' = [pc EXCEPT ![Monitor] = "idle"]
  /\ UNCHANGED <<waiting, readers, snapshot>>

-----------------------------------------------------------------------------
Next ==
  \/ \E c \in Connections :
       \/ OpenLock(c) \/ UpdateTracker(c) \/ SendLock(c) \/ SendUnlock(c)
       \/ SendOther(c) \/ OpenUnlock(c) \/ ReadLock(c) \/ ReadUnlock(c)
       \/ WriteFails(c)
  \/ SetLock \/ SetBit \/ Grant

Spec == Init /\ [][Next]_vars

\* A task that holds the lock gets on with it and a grant is not withheld.
\* Nothing obliges a task to come for the lock.
FairSpec ==
  /\ Spec
  /\ WF_vars(Grant)
  /\ WF_vars(SetBit)
  /\ \A c \in Connections :
       /\ WF_vars(UpdateTracker(c) \/ SendLock(c) \/ SendUnlock(c))
       /\ WF_vars(SendOther(c) \/ OpenUnlock(c))
       /\ WF_vars(ReadUnlock(c))

-----------------------------------------------------------------------------
(* Properties. *)

\* Who waits is in line, once; only the writer excludes readers.
TypeOK ==
  /\ verified \in 0 .. NumPieces
  /\ snapshot \in [Connections -> 0 .. NumPieces]
  /\ \A t \in Tasks : Waits(t) <=> \E i \in DOMAIN waiting : waiting[i] = t
  /\ \A i, j \in DOMAIN waiting : i # j => waiting[i] # waiting[j]
  /\ readers \in [Connections -> 0 .. 2]
  /\ writing => \A c \in Connections : readers[c] = 0

\* What a connection tells its peer it has is what its tracker was updated with:
\* no piece is verified between the two.
TellsWhatItTracks ==
  \A c \in Connections :
    pc[c] \in {"updated", "sending", "sent", "told"} => snapshot[c] = verified

\* A connection that holds the lock has asked for it again and stands in line
\* behind the monitor, which waits for that first hold to end.
Jammed ==
  \E i, j \in DOMAIN waiting :
    /\ i < j /\ waiting[i] = Monitor
    /\ pc[waiting[j]] = "sending" /\ readers[waiting[j]] > 0

\* The nested read of send_bitfield is all that can hold the lock up: whoever
\* waits for it gets it, however many come for it, unless a connection gets
\* in line a second time behind the monitor.
OnlyNestedReadBlocks == \A t \in Tasks : Waits(t) ~> ~Waits(t) \/ Jammed

\* "explicitly drop my_bitfield here so that other threads can actually access
\* it": whoever waits for the lock gets it.
LockIsGranted == \A t \in Tasks : Waits(t) ~> ~Waits(t)

=============================================================================
