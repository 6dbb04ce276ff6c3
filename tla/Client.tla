------------------------------- MODULE Client -------------------------------
(***************************************************************************)
(* The main task of the client (src/src/torrent.rs, handshake.rs): ask the *)
(* tracker, dial some of the peers it names one after the other, then      *)
(* accept connections and join ended tasks.  Every connection starts with  *)
(* a handshake that the main task waits for in place, without a timeout.   *)
(*                                                                         *)
(* Several clients run this code for one torrent and may meet each other,  *)
(* and themselves, in the tracker's answer.  Other peers answer or do not. *)
(* A dialled connection is established when the other side's listener      *)
(* exists, which Client::new has bound, whether accept is called or not.   *)
(***************************************************************************)
EXTENDS Integers, FiniteSets

CONSTANTS
  Clients,    \* those that run this code
  Others,     \* other peers, see Manner
  Manner,     \* how each of the others takes a connection
  Fast,       \* who sets the Fast Extension bit in its handshake
  MaxPeers,   \* --max-peers
  Diallers,   \* the others that may dial a client
  None

Peers == Clients \cup Others

\* "good": it has the torrent; "wrong": its handshake is of another torrent or
\* malformed, or it closes; "silent": it never sends anything; "absent": it
\* cannot be reached.
Manners == {"good", "wrong", "silent", "absent"}

\* A task of the JoinSet: the monitor, or a connection by who dialled.
Monitor == [kind |-> "monitor"]

Session(dialled, p, fast) ==
  [kind |-> "session", dialled |-> dialled, peer |-> p, fast |-> fast]

Sessions == [kind : {"session"}, dialled : BOOLEAN, peer : Peers, fast : BOOLEAN]

ASSUME ClientAssumption ==
  /\ IsFiniteSet(Peers) /\ Clients \cap Others = {}
  /\ Manner \in [Others -> Manners]
  /\ Fast \in [Peers -> BOOLEAN]
  /\ MaxPeers \in Nat
  /\ Diallers \subseteq Others
  /\ None \notin Peers

VARIABLES
  main,      \* what the main task of each client does
  toDial,    \* the peers spawn_peer_connections has still to try
  partner,   \* the peer whose handshake it waits for
  backlog,   \* connections its listener has that were not accepted
  answered,  \* <<p, c>>: p dialled c, and c has sent its handshake
  dialled,   \* <<p, c>>: the peer p that is not a client has dialled c
  deaf,      \* has accept failed in this iteration of the select!?
  running,   \* tasks that run
  ended,     \* tasks that have ended and were not joined
  started    \* all sessions so far

connVars == <<partner, backlog, answered, dialled>>
taskVars == <<running, ended, started>>

vars == <<main, toDial, connVars, deaf, taskVars>>

\* run has returned: the JoinSet is dropped and its tasks with it.
Gone(c) == main[c] \in {"failed", "exited"}

Init ==
  /\ main = [c \in Clients |-> "discover"]
  /\ toDial = [c \in Clients |-> {}]
  /\ partner = [c \in Clients |-> None]
  /\ backlog = [c \in Clients |-> {}]
  /\ answered = {} /\ dialled = {}
  /\ deaf = [c \in Clients |-> FALSE]
  /\ running = [c \in Clients |-> {Monitor}]
  /\ ended = [c \in Clients |-> {}]
  /\ started = [c \in Clients |-> {}]

-----------------------------------------------------------------------------
(* Handshakes. *)

\* Mutant: the other side decides alone.
FastOfPeer(c, p) == Fast[p]

\* my_handshake.reserved & handshake.reserved
Reserved(c, p) == Fast[c] /\ Fast[p]

\* Handshake::from_bytes succeeds, and the info_hash is ours.
SameTorrent(p) == p \in Clients \/ Manner[p] = "good"

Spawn(c, session) ==
  /\ running' = [running EXCEPT ![c] = @ \cup {session}]
  /\ started' = [started EXCEPT ![c] = @ \cup {session}]
  /\ UNCHANGED ended

\* Mutant: handle_peer is awaited where it should be spawned.
ShakenInPlace(c, p, isDialler) ==
  IF SameTorrent(p)
  THEN /\ Spawn(c, Session(isDialler, p, Reserved(c, p)))
       /\ UNCHANGED partner
  ELSE /\ partner' = [partner EXCEPT ![c] = None]
       /\ UNCHANGED taskVars

\* try_handshake has returned: a session, or nothing.
Shaken(c, p, isDialler) ==
  /\ partner' = [partner EXCEPT ![c] = None]
  /\ IF SameTorrent(p) THEN Spawn(c, Session(isDialler, p, Reserved(c, p)))
                       ELSE UNCHANGED taskVars

-----------------------------------------------------------------------------
(* Dialling. *)

\* Mutant: --max-peers is ignored.
DiscoverAll(c) ==
  /\ main[c] = "discover"
  /\ \E chosen \in SUBSET Peers : toDial' = [toDial EXCEPT ![c] = chosen]
  /\ main' = [main EXCEPT ![c] = "dial"]
  /\ UNCHANGED <<connVars, deaf, taskVars>>

\* discover_peers, shuffle and take; a tracker that does not answer, or answers
\* with a failure, ends the client.
Discover(c) ==
  /\ main[c] = "discover"
  /\ \/ /\ \E chosen \in SUBSET Peers :
             /\ Cardinality(chosen) <= MaxPeers
             /\ toDial' = [toDial EXCEPT ![c] = chosen]
        /\ main' = [main EXCEPT ![c] = "dial"]
        /\ UNCHANGED <<running, backlog>>
     \/ /\ main' = [main EXCEPT ![c] = "failed"]
        /\ running' = [running EXCEPT ![c] = {}]
        /\ backlog' = [backlog EXCEPT ![c] = {}]
        /\ UNCHANGED toDial
  /\ UNCHANGED <<partner, answered, dialled, deaf, ended, started>>

Reachable(p) == IF p \in Clients THEN ~Gone(p) ELSE Manner[p] # "absent"

\* TcpStream::connect
Dial(c, p) ==
  /\ main[c] = "dial" /\ partner[c] = None
  /\ p \in toDial[c]
  /\ toDial' = [toDial EXCEPT ![c] = @ \ {p}]
  /\ partner' = [partner EXCEPT ![c] = IF Reachable(p) THEN p ELSE None]
  /\ backlog' = IF p \in Clients /\ Reachable(p)
                THEN [backlog EXCEPT ![p] = @ \cup {c}] ELSE backlog
  /\ UNCHANGED <<main, answered, dialled, deaf, taskVars>>

\* The answer of the peer that c has dialled has come, or its end of the
\* connection is gone.
Answer(c) ==
  /\ main[c] = "dial" /\ partner[c] # None
  /\ LET p == partner[c]
     IN  IF p \in Clients /\ <<c, p>> \notin answered
         THEN /\ Gone(p)
              /\ partner' = [partner EXCEPT ![c] = None]
              /\ UNCHANGED taskVars
         ELSE /\ p \in Others => Manner[p] # "silent"
              /\ Shaken(c, p, TRUE)
  /\ UNCHANGED <<main, toDial, backlog, answered, dialled, deaf>>

\* spawn_peer_connections returns.
Listen(c) ==
  /\ main[c] = "dial" /\ partner[c] = None /\ toDial[c] = {}
  /\ main' = [main EXCEPT ![c] = "listen"]
  /\ UNCHANGED <<toDial, connVars, deaf, taskVars>>

-----------------------------------------------------------------------------
(* The loop of run. *)

\* Mutant: the handshake is only sent in answer to one.
AcceptFirst(c, p) ==
  /\ main[c] = "listen" /\ partner[c] = None /\ ~deaf[c]
  /\ p \in backlog[c]
  /\ backlog' = [backlog EXCEPT ![c] = @ \ {p}]
  /\ partner' = [partner EXCEPT ![c] = p]
  /\ UNCHANGED <<main, toDial, answered, dialled, deaf, taskVars>>

\* accept returns, and try_handshake sends our handshake.
Accept(c, p) ==
  /\ main[c] = "listen" /\ partner[c] = None /\ ~deaf[c]
  /\ p \in backlog[c]
  /\ backlog' = [backlog EXCEPT ![c] = @ \ {p}]
  /\ partner' = [partner EXCEPT ![c] = p]
  /\ answered' = answered \cup {<<p, c>>}
  /\ UNCHANGED <<main, toDial, dialled, deaf, taskVars>>

\* The handshake of the peer that dialled c has come; a client sends its own as
\* soon as it is connected.
Greeted(c) ==
  /\ main[c] = "listen" /\ partner[c] # None
  /\ partner[c] \in Others => Manner[partner[c]] # "silent"
  /\ Shaken(c, partner[c], FALSE)
  /\ UNCHANGED <<main, toDial, backlog, answered, dialled, deaf>>

\* Mutant: an error of accept ends the client.
AcceptErrorEnds(c) ==
  /\ main[c] = "listen" /\ partner[c] = None /\ ~deaf[c]
  /\ main' = [main EXCEPT ![c] = "exited"]
  /\ backlog' = [backlog EXCEPT ![c] = {}]
  /\ UNCHANGED <<toDial, partner, answered, dialled, deaf, taskVars>>

\* accept fails, so its branch is off: the select! waits for a task to join or,
\* if the JoinSet is empty, takes its else branch.
AcceptError(c) ==
  /\ main[c] = "listen" /\ partner[c] = None /\ ~deaf[c]
  /\ IF running[c] \cup ended[c] = {}
     THEN /\ main' = [main EXCEPT ![c] = "exited"]
          /\ backlog' = [backlog EXCEPT ![c] = {}]
          /\ UNCHANGED deaf
     ELSE /\ deaf' = [deaf EXCEPT ![c] = TRUE]
          /\ UNCHANGED <<main, backlog>>
  /\ UNCHANGED <<toDial, partner, answered, dialled, taskVars>>

\* join_next
Join(c) ==
  /\ main[c] = "listen" /\ partner[c] = None
  /\ \E task \in ended[c] : ended' = [ended EXCEPT ![c] = @ \ {task}]
  /\ deaf' = [deaf EXCEPT ![c] = FALSE]
  /\ UNCHANGED <<main, toDial, connVars, running, started>>

-----------------------------------------------------------------------------
(* The surroundings. *)

\* The monitor or a handle_peer returns.
TaskEnds(c, task) ==
  /\ task \in running[c]
  /\ running' = [running EXCEPT ![c] = @ \ {task}]
  /\ ended' = [ended EXCEPT ![c] = @ \cup {task}]
  /\ UNCHANGED <<main, toDial, connVars, deaf, started>>

\* Another peer dials c.
OtherDials(p, c) ==
  /\ p \in Diallers
  /\ ~Gone(c)
  /\ <<p, c>> \notin dialled
  /\ dialled' = dialled \cup {<<p, c>>}
  /\ backlog' = [backlog EXCEPT ![c] = @ \cup {p}]
  /\ UNCHANGED <<main, toDial, partner, answered, deaf, taskVars>>

-----------------------------------------------------------------------------
Step(c) ==
  \/ Discover(c) \/ Answer(c) \/ Listen(c) \/ Greeted(c)
  \/ \E p \in Peers : Dial(c, p) \/ Accept(c, p)

Next ==
  \E c \in Clients :
    \/ Step(c) \/ Join(c) \/ AcceptError(c)
    \/ \E task \in running[c] : TaskEnds(c, task)
    \/ \E p \in Others : OtherDials(p, c)

Spec == Init /\ [][Next]_vars

\* The main task runs when it can, select! ignores neither branch for ever, and
\* every peer that is not silent answers.
FairSpec ==
  Spec /\ \A c \in Clients : WF_vars(Step(c)) /\ SF_vars(Join(c))

-----------------------------------------------------------------------------
(* Properties. *)

\* Every variable has the type its declaration gives it.
TypeOK ==
  /\ main \in [Clients -> {"discover", "dial", "listen", "failed", "exited"}]
  /\ \A c \in Clients : toDial[c] \subseteq Peers /\ Cardinality(toDial[c]) <= MaxPeers
  /\ partner \in [Clients -> Peers \cup {None}]
  /\ backlog \in [Clients -> SUBSET Peers]
  /\ answered \subseteq Peers \X Clients
  /\ dialled \subseteq Diallers \X Clients
  /\ deaf \in [Clients -> BOOLEAN]
  /\ \A c \in Clients :
       /\ running[c] \cup ended[c] \subseteq started[c] \cup {Monitor}
       /\ running[c] \cap ended[c] = {}
       /\ started[c] \subseteq Sessions

\* c waits for somebody who will never answer, for a client whose accept failed,
\* or for one of the set that has not accepted its connection.
WaitsIn(c, set) ==
  LET p == partner[c]
  IN  \/ p \in Others /\ Manner[p] = "silent"
      \/ /\ p \in Clients /\ main[c] = "dial" /\ <<c, p>> \notin answered
         /\ deaf[p] \/ p \in set

\* The clients that wait in a circle for each other or for one of the other
\* lost causes, and those that wait for them.
Deadlocked ==
  UNION { set \in SUBSET Clients : \A c \in set : WaitsIn(c, set) }

\* A client gets to its loop, or ends, unless a silent peer holds it up, or it
\* and other clients, or it alone, dial each other in a circle before any of
\* them listens, or a client it dials has stopped to accept.
OnlyDeadlocksHoldUp ==
  \A c \in Clients : main[c] = "dial" ~> main[c] # "dial" \/ c \in Deadlocked

\* All connections in a listener's backlog are accepted, unless accept has failed
\* or a handshake holds the client up.
BacklogIsServed ==
  \A c \in Clients : backlog[c] # {} ~> backlog[c] = {} \/ deaf[c] \/ c \in Deadlocked

\* When a client has started a session with another client it dialled, that one
\* has, or is about to, and both agree on the Fast Extension.
SessionsComeInPairs ==
  \A c, p \in Clients : \A fast \in BOOLEAN :
    Session(TRUE, p, fast) \in started[c] =>
      \/ Session(FALSE, c, fast) \in started[p]
      \/ main[p] = "listen" /\ partner[p] = c

\* The client stops by itself only when all its tasks have ended: the end of run
\* aborts none.
ExitsAlone == \A c \in Clients : main[c] = "exited" => running[c] \cup ended[c] = {}

=============================================================================
