------------------------- MODULE BitfieldLockProofs -------------------------
(***************************************************************************)
(* Safety of BitfieldLock for any number of connections and pieces.        *)
(***************************************************************************)
EXTENDS BitfieldLock, TLAPS

ConnectionPlaces ==
  { "start", "opening", "opened", "updated", "sending", "sent", "told", "loop",
    "reading", "read" }

MonitorPlaces == { "idle", "setting", "set" }

\* How often a connection at place p holds the lock.
Held(p) ==
  IF p = "sent" THEN 2
  ELSE IF p \in {"opened", "updated", "sending", "told", "read"} THEN 1 ELSE 0

\* Every task is at one of its own places.
Places ==
  /\ pc \in [Tasks -> ConnectionPlaces \cup MonitorPlaces]
  /\ \A c \in Connections : pc[c] \in ConnectionPlaces
  /\ pc[Monitor] \in MonitorPlaces

\* The queue holds the waiting tasks, once each.
Line ==
  /\ waiting \in Seq(Tasks)
  /\ \A t \in Tasks : Waits(t) <=> \E i \in DOMAIN waiting : waiting[i] = t
  /\ \A i, j \in DOMAIN waiting : i # j => waiting[i] # waiting[j]

\* Where a task is tells what it holds, and a writer excludes readers.
Guards ==
  /\ readers \in [Connections -> Nat]
  /\ \A c \in Connections : readers[c] = Held(pc[c])
  /\ writing = (pc[Monitor] = "set")
  /\ writing => \A c \in Connections : readers[c] = 0

\* What was copied under the lock is still what my_bitfield says, and the
\* monitor is there for a piece still to verify.
Copies ==
  /\ verified \in 0 .. NumPieces
  /\ pc[Monitor] # "idle" => verified < NumPieces
  /\ snapshot \in [Connections -> 0 .. NumPieces]
  /\ TellsWhatItTracks

IInv == Places /\ Line /\ Guards /\ Copies

LEMMA WaitingPlaces == DOMAIN Acquiring = {"opening", "sending", "reading", "setting"}
BY DEF Acquiring

LEMMA InitInv == Init => IInv
<1> SUFFICES ASSUME Init PROVE IInv
  OBVIOUS
<1>1. Places
  BY LockAssumption DEF Init, Places, Tasks, ConnectionPlaces, MonitorPlaces
<1>2. Line
  <2>1. waiting \in Seq(Tasks) /\ DOMAIN waiting = {}
    BY DEF Init
  <2>2. \A t \in Tasks : ~Waits(t)
    BY WaitingPlaces DEF Init, Waits
  <2>3. QED
    BY <2>1, <2>2 DEF Line
<1>3. Guards
  BY LockAssumption DEF Init, Guards, Held, Tasks
<1>4. Copies
  BY LockAssumption DEF Init, Copies, TellsWhatItTracks, Tasks
<1>5. QED
  BY <1>1, <1>2, <1>3, <1>4 DEF IInv

\* A step from one place to another that are both out of the line.
LEMMA LineStays ==
  ASSUME Line, Places, NEW t \in Tasks, NEW to,
         ~Waits(t), to \notin DOMAIN Acquiring,
         pc' = [pc EXCEPT ![t] = to], waiting' = waiting
  PROVE  Line'
BY DEF Line, Places, Waits

\* A task gets in line, at its end.
LEMMA LineGrows ==
  ASSUME Line, Places, NEW t \in Tasks, NEW to,
         ~Waits(t), to \in DOMAIN Acquiring,
         pc' = [pc EXCEPT ![t] = to], waiting' = Append(waiting, t)
  PROVE  Line'
<1>1. /\ waiting' \in Seq(Tasks)
      /\ Len(waiting') = Len(waiting) + 1
      /\ DOMAIN waiting = 1 .. Len(waiting) /\ Len(waiting) \in Nat
      /\ DOMAIN waiting' = 1 .. Len(waiting) + 1
      /\ \A i \in DOMAIN waiting : waiting'[i] = waiting[i]
      /\ waiting'[Len(waiting) + 1] = t
  BY DEF Line
<1>2. \A u \in Tasks : Waits(u)' <=> (u = t \/ Waits(u))
  BY DEF Waits, Places
<1>3. \A u \in Tasks : Waits(u)' <=> \E i \in DOMAIN waiting' : waiting'[i] = u
  BY <1>1, <1>2 DEF Line
<1>4. \A i \in DOMAIN waiting : waiting[i] # t
  BY DEF Line
<1>5. \A i, j \in DOMAIN waiting' : i # j => waiting'[i] # waiting'[j]
  BY <1>1, <1>4 DEF Line
<1>6. QED
  BY <1>1, <1>3, <1>5 DEF Line

\* The first in line leaves it.
LEMMA LineShrinks ==
  ASSUME Line, Places, waiting # <<>>, NEW t, t = Head(waiting), NEW to,
         to \notin DOMAIN Acquiring,
         pc' = [pc EXCEPT ![t] = to], waiting' = Tail(waiting)
  PROVE  t \in Tasks /\ Waits(t) /\ Line'
<1>1. /\ Len(waiting) \in Nat \ {0}
      /\ DOMAIN waiting = 1 .. Len(waiting)
      /\ t \in Tasks /\ t = waiting[1]
      /\ waiting' \in Seq(Tasks)
      /\ DOMAIN waiting' = 1 .. Len(waiting) - 1
      /\ \A i \in 1 .. Len(waiting) - 1 : waiting'[i] = waiting[i + 1]
  BY DEF Line
<1>2. \A u \in Tasks : Waits(u)' <=> (u # t /\ Waits(u))
  BY <1>1 DEF Waits, Places
<1>3. ASSUME NEW u \in Tasks
      PROVE  Waits(u)' <=> \E i \in DOMAIN waiting' : waiting'[i] = u
  <2>1. ASSUME u # t, NEW k \in DOMAIN waiting, waiting[k] = u
        PROVE  \E i \in DOMAIN waiting' : waiting'[i] = u
    <3>1. k - 1 \in DOMAIN waiting' /\ waiting'[k - 1] = u
      BY <1>1, <2>1
    <3>2. QED
      BY <3>1
  <2>2. ASSUME NEW i \in DOMAIN waiting', waiting'[i] = u
        PROVE  u # t /\ \E k \in DOMAIN waiting : waiting[k] = u
    <3>1. i + 1 \in DOMAIN waiting /\ waiting[i + 1] = u /\ i + 1 # 1
      BY <1>1, <2>2
    <3>2. QED
      BY <1>1, <3>1 DEF Line
  <2>3. QED
    BY <1>2, <2>1, <2>2 DEF Line
<1>4. \A i, j \in DOMAIN waiting' : i # j => waiting'[i] # waiting'[j]
  BY <1>1 DEF Line
<1>5. Waits(t)
  BY <1>1 DEF Line
<1>6. QED
  BY <1>1, <1>3, <1>4, <1>5 DEF Line

\* Getting in line changes who holds what for nobody.
LEMMA QueueInv ==
  ASSUME IInv, NEW t \in Tasks, NEW from, NEW to, Queue(t, from, to),
         \/ /\ t \in Connections
            /\ <<from, to>> \in { <<"start", "opening">>, <<"updated", "sending">>,
                                  <<"loop", "reading">> }
         \/ t = Monitor /\ from = "idle" /\ to = "setting" /\ verified < NumPieces
  PROVE  IInv'
<1> USE DEF IInv
<1>1. ~Waits(t) /\ to \in DOMAIN Acquiring
  BY WaitingPlaces DEF Waits, Queue
<1>2. Line'
  BY <1>1, LineGrows DEF Queue
<1>3. Places'
  BY LockAssumption DEF Queue, Places, ConnectionPlaces, MonitorPlaces, Tasks
<1>4. Guards'
  BY LockAssumption DEF Queue, Places, Guards, Held, Tasks
<1>5. Copies'
  BY LockAssumption DEF Queue, Places, Copies, TellsWhatItTracks, Tasks
<1>6. QED
  BY <1>2, <1>3, <1>4, <1>5

\* A granted lock is held where the task goes on.
LEMMA GrantInv == IInv /\ Grant => IInv'
<1> SUFFICES ASSUME IInv, Grant PROVE IInv'
  OBVIOUS
<1> USE DEF IInv
<1> DEFINE t == Head(waiting)
<1> DEFINE to == Acquiring[pc[t]]
<1>1. t \in Tasks /\ Waits(t)
  BY DEF Grant, Line
<1>2. <<pc[t], to>> \in { <<"opening", "opened">>, <<"sending", "sent">>,
                          <<"reading", "read">>, <<"setting", "set">> }
  BY <1>1, WaitingPlaces DEF Waits, Acquiring
<1>3. pc' = [pc EXCEPT ![t] = to]
  BY <1>1 DEF Grant, Places
<1>4. Line'
  <2>1. to \notin DOMAIN Acquiring
    BY <1>2, WaitingPlaces
  <2> HIDE DEF to
  <2>2. QED
    BY <1>3, <2>1, LineShrinks DEF Grant
<1>5. CASE t = Monitor
  <2>1. pc[t] = "setting" /\ to = "set"
    BY <1>2, <1>5 DEF Places, MonitorPlaces
  <2>2. \A c \in Connections : pc'[c] = pc[c]
    BY <1>3, <1>5, LockAssumption DEF Places, Tasks
  <2>3. pc'[Monitor] = "set"
    BY <1>1, <1>3, <1>5, <2>1 DEF Places
  <2>4. Places'
    BY <1>1, <1>3, <2>1, <2>2, <2>3 DEF Places, MonitorPlaces
  <2>5. Guards'
    BY <1>5, <2>2, <2>3 DEF Guards, Grant
  <2>6. Copies'
    BY <1>5, <2>1, <2>2 DEF Copies, TellsWhatItTracks, Grant
  <2>7. QED
    BY <1>4, <2>4, <2>5, <2>6
<1>6. CASE t # Monitor
  <2>1. t \in Connections
    BY <1>1, <1>6 DEF Tasks
  <2>2. <<pc[t], to>> \in { <<"opening", "opened">>, <<"sending", "sent">>,
                            <<"reading", "read">> }
    BY <1>2, <2>1 DEF Places, ConnectionPlaces, MonitorPlaces
  <2>3. pc'[Monitor] = pc[Monitor]
    BY <1>3, <1>6, LockAssumption DEF Places, Tasks
  <2>4. \A c \in Connections : pc'[c] = IF c = t THEN to ELSE pc[c]
    BY <1>3 DEF Places, Tasks
  <2>5. Places'
    BY <1>3, <2>2, <2>3, <2>4 DEF Places, ConnectionPlaces, MonitorPlaces
  <2>6. Guards'
    <3>1. readers' = [readers EXCEPT ![t] = @ + 1] /\ ~writing /\ writing' = writing
      BY <1>6 DEF Grant, Guards
    <3>2. Held(to) = Held(pc[t]) + 1
      BY <2>2 DEF Held
    <3>3. \A c \in Connections : readers'[c] = Held(pc'[c])
      BY <2>1, <2>4, <3>1, <3>2 DEF Guards
    <3>4. readers' \in [Connections -> Nat]
      BY <2>1, <3>1 DEF Guards
    <3>5. QED
      BY <2>3, <3>1, <3>3, <3>4 DEF Guards
  <2>7. Copies'
    <3>1. \A c \in Connections :
            pc'[c] \in {"updated", "sending", "sent", "told"} =>
              pc[c] \in {"updated", "sending", "sent", "told"}
      BY <2>2, <2>4
    <3>2. QED
      BY <2>3, <3>1 DEF Copies, TellsWhatItTracks, Grant
  <2>8. QED
    BY <1>4, <2>5, <2>6, <2>7
<1>7. QED
  BY <1>5, <1>6

\* The steps a connection takes without asking for the lock.
LEMMA ConnectionInv ==
  ASSUME IInv, NEW c \in Connections,
         \/ UpdateTracker(c) \/ SendUnlock(c) \/ SendOther(c)
         \/ OpenUnlock(c) \/ ReadUnlock(c) \/ WriteFails(c)
  PROVE  IInv'
<1> USE DEF IInv
<1>0. c \in Tasks /\ c # Monitor
  BY LockAssumption DEF Tasks
<1>1. PICK to \in {"updated", "told", "loop", "start"} :
        /\ pc' = [pc EXCEPT ![c] = to]
        /\ <<pc[c], to>> \in { <<"opened", "updated">>, <<"updated", "told">>,
                               <<"sent", "told">>, <<"told", "loop">>, <<"read", "loop">>,
                               <<"updated", "start">>, <<"sent", "start">>,
                               <<"told", "start">>, <<"loop", "start">> }
        /\ readers' = IF <<pc[c], to>> \in {<<"opened", "updated">>, <<"updated", "told">>}
                      THEN readers
                      ELSE [readers EXCEPT ![c] = IF to = "start" THEN 0 ELSE @ - 1]
        /\ snapshot' = IF to = "updated" THEN [snapshot EXCEPT ![c] = verified]
                       ELSE snapshot
        /\ UNCHANGED <<waiting, writing, verified>>
  <2>1. CASE UpdateTracker(c)
    BY <2>1 DEF UpdateTracker
  <2>2. CASE SendUnlock(c)
    BY <2>2 DEF SendUnlock
  <2>3. CASE SendOther(c)
    BY <2>3 DEF SendOther
  <2>4. CASE OpenUnlock(c)
    BY <2>4 DEF OpenUnlock
  <2>5. CASE ReadUnlock(c)
    BY <2>5 DEF ReadUnlock
  <2>6. CASE WriteFails(c)
    BY <2>6 DEF WriteFails
  <2>7. QED
    BY <2>1, <2>2, <2>3, <2>4, <2>5, <2>6
<1>2. ~Waits(c) /\ to \notin DOMAIN Acquiring
  BY <1>1, WaitingPlaces DEF Waits
<1>3. Line'
  BY <1>0, <1>1, <1>2, LineStays
<1>4. /\ pc'[Monitor] = pc[Monitor]
      /\ \A d \in Connections : pc'[d] = IF d = c THEN to ELSE pc[d]
  BY <1>0, <1>1 DEF Places, Tasks
<1>5. Places'
  BY <1>0, <1>1, <1>4 DEF Places, ConnectionPlaces, MonitorPlaces
<1>6. Guards'
  <2>1. Held(pc[c]) \in Nat /\ Held(to) \in Nat /\ readers'[c] = Held(to)
    BY <1>1 DEF Held, Guards
  <2>2. \A d \in Connections : d # c => readers'[d] = readers[d]
    BY <1>1 DEF Guards
  <2>3. readers' \in [Connections -> Nat]
    BY <1>1, <2>1, <2>2 DEF Guards
  <2>4. writing => \A d \in Connections : readers'[d] = 0
    <3>1. ~writing \/ to = "start"
      BY <1>1 DEF Guards, Held
    <3>2. to = "start" => readers'[c] = 0
      BY <2>1 DEF Held
    <3>3. QED
      BY <2>2, <3>1, <3>2 DEF Guards
  <2>5. QED
    BY <1>1, <1>4, <2>1, <2>2, <2>3, <2>4 DEF Guards
<1>7. Copies'
  <2>1. \A d \in Connections :
          snapshot'[d] = IF d = c /\ to = "updated" THEN verified ELSE snapshot[d]
    BY <1>1 DEF Copies
  <2>2. snapshot' \in [Connections -> 0 .. NumPieces]
    BY <1>1 DEF Copies
  <2>3. ASSUME NEW d \in Connections, pc'[d] \in {"updated", "sending", "sent", "told"}
        PROVE  snapshot'[d] = verified
    <3>1. CASE d # c
      BY <1>4, <2>1, <2>3, <3>1 DEF Copies, TellsWhatItTracks
    <3>2. CASE d = c
      BY <1>1, <1>4, <2>1, <2>3, <3>2 DEF Copies, TellsWhatItTracks
    <3>3. QED
      BY <3>1, <3>2
  <2>4. QED
    BY <1>1, <1>4, <2>2, <2>3 DEF Copies, TellsWhatItTracks
<1>8. QED
  BY <1>3, <1>5, <1>6, <1>7

\* The monitor sets a bit: nobody holds a copy then.
LEMMA SetBitInv == IInv /\ SetBit => IInv'
<1> SUFFICES ASSUME IInv, SetBit PROVE IInv'
  OBVIOUS
<1> USE DEF IInv
<1>1. /\ pc' = [pc EXCEPT ![Monitor] = "idle"]
      /\ Monitor \in Tasks
      /\ pc'[Monitor] = "idle"
      /\ \A c \in Connections : pc'[c] = pc[c]
  BY LockAssumption DEF SetBit, Places, Tasks
<1>2. Line'
  <2>1. ~Waits(Monitor) /\ "idle" \notin DOMAIN Acquiring
    BY WaitingPlaces DEF SetBit, Waits
  <2>2. QED
    BY <1>1, <2>1, LineStays DEF SetBit
<1>3. Places'
  BY <1>1 DEF Places, MonitorPlaces
<1>4. Guards'
  BY <1>1 DEF SetBit, Guards
<1>5. \A c \in Connections : pc[c] \notin {"updated", "sending", "sent", "told"}
  <2>1. ASSUME NEW c \in Connections
        PROVE  pc[c] \notin {"updated", "sending", "sent", "told"}
    <3>1. Held(pc[c]) = 0
      BY DEF SetBit, Guards
    <3>2. QED
      BY <3>1 DEF Held
  <2>2. QED
    BY <2>1
<1>6. Copies'
  BY <1>1, <1>5, LockAssumption DEF SetBit, Copies, TellsWhatItTracks
<1>7. QED
  BY <1>2, <1>3, <1>4, <1>6

LEMMA StepInv == IInv /\ [Next]_vars => IInv'
<1> SUFFICES ASSUME IInv, [Next]_vars PROVE IInv'
  OBVIOUS
<1>1. ASSUME NEW c \in Connections,
             \/ OpenLock(c) \/ SendLock(c) \/ ReadLock(c)
      PROVE  IInv'
  BY <1>1, QueueInv DEF OpenLock, SendLock, ReadLock, Tasks
<1>2. ASSUME NEW c \in Connections,
             \/ UpdateTracker(c) \/ SendUnlock(c) \/ SendOther(c)
             \/ OpenUnlock(c) \/ ReadUnlock(c) \/ WriteFails(c)
      PROVE  IInv'
  BY <1>2, ConnectionInv
<1>3. CASE SetLock
  BY <1>3, QueueInv DEF SetLock, Tasks
<1>4. CASE SetBit
  BY <1>4, SetBitInv
<1>5. CASE Grant
  BY <1>5, GrantInv
<1>6. CASE UNCHANGED vars
  BY <1>6 DEF vars, IInv, Places, Line, Waits, Guards, Copies, TellsWhatItTracks
<1>7. QED
  BY <1>1, <1>2, <1>3, <1>4, <1>5, <1>6 DEF Next

LEMMA Inductive == Spec => []IInv
BY InitInv, StepInv, PTL DEF Spec

\* The lock's line holds who waits, nobody holds it more than twice, and a
\* writer excludes readers, for any number of connections.
THEOREM TypeCorrect == Spec => []TypeOK
<1>1. IInv => TypeOK
  <2> SUFFICES ASSUME IInv PROVE TypeOK
    OBVIOUS
  <2>1. readers \in [Connections -> 0 .. 2]
    <3>1. \A c \in Connections : Held(pc[c]) \in 0 .. 2
      BY DEF Held
    <3>2. QED
      BY <3>1 DEF IInv, Guards
  <2>2. QED
    BY <2>1 DEF IInv, Line, Guards, Copies, TypeOK
<1>2. QED
  BY <1>1, Inductive, PTL

\* What a connection tells its peer is what its tracker was updated with, for
\* any number of connections.
THEOREM SnapshotIsTold == Spec => []TellsWhatItTracks
<1>1. IInv => TellsWhatItTracks
  BY DEF IInv, Copies
<1>2. QED
  BY <1>1, Inductive, PTL

=============================================================================
