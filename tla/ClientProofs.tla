---------------------------- MODULE ClientProofs ----------------------------
(***************************************************************************)
(* Proofs about Client, for any number of clients and other peers, of any  *)
(* manners.                                                                *)
(*                                                                         *)
(* Two facts make the invariant inductive.  A client dials a peer at most  *)
(* once and is dialled by it at most once, so the JoinSet never holds two  *)
(* tasks for the same session.  And a client that has answered another     *)
(* either waits for its handshake or has started the session.              *)
(***************************************************************************)
EXTENDS Client, FiniteSetTheorems, TLAPS

-----------------------------------------------------------------------------
(* The invariant, in parts. *)

Tasks == Sessions \cup {Monitor}

TypesOK ==
  /\ main \in [Clients -> {"discover", "dial", "listen", "failed", "exited"}]
  /\ toDial \in [Clients -> SUBSET Peers]
  /\ partner \in [Clients -> Peers \cup {None}]
  /\ backlog \in [Clients -> SUBSET Peers]
  /\ answered \subseteq Peers \X Clients
  /\ dialled \subseteq Diallers \X Clients
  /\ deaf \in [Clients -> BOOLEAN]
  /\ running \in [Clients -> SUBSET Tasks]
  /\ ended \in [Clients -> SUBSET Tasks]
  /\ started \in [Clients -> SUBSET Sessions]

FewToDial == \A c \in Clients : Cardinality(toDial[c]) <= MaxPeers

TasksOK ==
  \A c \in Clients :
    /\ running[c] \cup ended[c] \subseteq started[c] \cup {Monitor}
    /\ running[c] \cap ended[c] = {}

\* The main task waits for a handshake only while it dials or listens.
WaitsOK == \A c \in Clients : partner[c] # None => main[c] \in {"dial", "listen"}

Has(c, isDialler, p) == \E fast \in BOOLEAN : Session(isDialler, p, fast) \in started[c]

\* p has dialled c, or has not found it reachable.
Came(c, p) == IF p \in Clients THEN main[p] # "discover" /\ c \notin toDial[p]
                               ELSE <<p, c>> \in dialled

\* Of a dialled peer the client waits for the handshake before it has a session.
DialledOnce ==
  \A c \in Clients, p \in Peers :
    /\ main[c] = "dial" /\ partner[c] = p => p \notin toDial[c] /\ ~Has(c, TRUE, p)
    /\ Has(c, TRUE, p) => main[c] # "discover" /\ p \notin toDial[c]

\* A connection is in the backlog, then accepted, then a session.
AcceptedOnce ==
  \A c \in Clients, p \in Peers :
    /\ p \in backlog[c] =>
         Came(c, p) /\ ~(main[c] = "listen" /\ partner[c] = p) /\ ~Has(c, FALSE, p)
    /\ main[c] = "listen" /\ partner[c] = p => Came(c, p) /\ ~Has(c, FALSE, p)
    /\ Has(c, FALSE, p) => Came(c, p)

\* Both sides and nobody else decide about the Fast Extension.
Agreed ==
  \A c \in Clients, p \in Peers, isDialler, fast \in BOOLEAN :
    Session(isDialler, p, fast) \in started[c] => fast = Reserved(c, p)

\* A session with a client it dialled follows that one's answer, and an answer
\* is followed by a session.
AnswersCount ==
  \A c, p \in Clients :
    /\ Has(c, TRUE, p) => <<c, p>> \in answered
    /\ <<c, p>> \in answered =>
         Session(FALSE, c, Reserved(p, c)) \in started[p]
           \/ (main[p] = "listen" /\ partner[p] = c)

IInv ==
  /\ TypesOK /\ FewToDial /\ TasksOK /\ WaitsOK /\ DialledOnce /\ AcceptedOnce /\ Agreed
  /\ AnswersCount /\ ExitsAlone

-----------------------------------------------------------------------------
(* Sessions. *)

LEMMA SessionsDiffer ==
  \A d, p, f, e, q, g :
    /\ Session(d, p, f) = Session(e, q, g) => d = e /\ p = q /\ f = g
    /\ Session(d, p, f) # Monitor
    /\ d \in BOOLEAN /\ p \in Peers /\ f \in BOOLEAN => Session(d, p, f) \in Sessions
<1>1. \A d, p, f : /\ Session(d, p, f).dialled = d
                   /\ Session(d, p, f).peer = p
                   /\ Session(d, p, f).fast = f
                   /\ Session(d, p, f).kind = "session"
  BY DEF Session
<1>2. Monitor.kind = "monitor"
  BY DEF Monitor
<1>3. \A d, p, f : d \in BOOLEAN /\ p \in Peers /\ f \in BOOLEAN => Session(d, p, f) \in Sessions
  BY DEF Session, Sessions
<1>4. QED
  BY <1>1, <1>2, <1>3

LEMMA ReservedIsAgreed ==
  \A c \in Clients, p \in Peers :
    Reserved(c, p) \in BOOLEAN /\ Reserved(c, p) = Reserved(p, c)
BY ClientAssumption DEF Reserved, Peers

\* A step that starts no session.
LEMMA NoNewSession ==
  UNCHANGED started => \A c, d, p : Has(c, d, p)' <=> Has(c, d, p)
BY DEF Has

\* A step that starts one.
LEMMA NewSession ==
  ASSUME TypesOK, TasksOK, Agreed, NEW c \in Clients, NEW p \in Peers, NEW d \in BOOLEAN,
         Spawn(c, Session(d, p, Reserved(c, p))), ~Has(c, d, p)
  PROVE  /\ running' \in [Clients -> SUBSET Tasks] /\ started' \in [Clients -> SUBSET Sessions]
         /\ TasksOK' /\ Agreed'
         /\ \A x \in Clients, e \in BOOLEAN, q \in Peers :
              Has(x, e, q)' <=> Has(x, e, q) \/ (x = c /\ e = d /\ q = p)
         /\ \A x \in Clients : started[x] \subseteq started'[x]
         /\ Session(d, p, Reserved(c, p)) \in started'[c]
<1> DEFINE new == Session(d, p, Reserved(c, p))
<1>1. new \in Sessions /\ new \in Tasks /\ new # Monitor /\ Reserved(c, p) \in BOOLEAN
  BY SessionsDiffer, ReservedIsAgreed DEF Tasks
<1>2. new \notin started[c] /\ new \notin ended[c]
  BY <1>1 DEF Has, TasksOK
<1>3. /\ running' = [running EXCEPT ![c] = @ \cup {new}]
      /\ started' = [started EXCEPT ![c] = @ \cup {new}]
      /\ ended' = ended
  BY DEF Spawn
<1> HIDE DEF new
<1>4. \A x \in Clients : /\ running'[x] = IF x = c THEN running[c] \cup {new} ELSE running[x]
                         /\ started'[x] = IF x = c THEN started[c] \cup {new} ELSE started[x]
  BY <1>3 DEF TypesOK
<1>5. running' \in [Clients -> SUBSET Tasks] /\ started' \in [Clients -> SUBSET Sessions]
  BY <1>1, <1>3 DEF TypesOK
<1>6. TasksOK'
  BY <1>1, <1>2, <1>3, <1>4 DEF TasksOK
<1>7. Agreed'
  BY <1>4, SessionsDiffer DEF Agreed, new
<1>8. ASSUME NEW x \in Clients, NEW e \in BOOLEAN, NEW q \in Peers
      PROVE  Has(x, e, q)' <=> Has(x, e, q) \/ (x = c /\ e = d /\ q = p)
  BY <1>1, <1>4, SessionsDiffer DEF Has, new
<1>9. QED
  BY <1>4, <1>5, <1>6, <1>7, <1>8 DEF new

-----------------------------------------------------------------------------
(* Every step preserves the invariant. *)

LEMMA InitInv == Init => IInv
<1> SUFFICES ASSUME Init PROVE IInv
  OBVIOUS
<1> USE DEF Init
<1>1. TypesOK
  BY DEF TypesOK, Tasks
<1>2. FewToDial
  BY FS_EmptySet, ClientAssumption DEF FewToDial
<1>3. \A c, d, p : c \in Clients => ~Has(c, d, p)
  BY DEF Has
<1>4. TasksOK /\ WaitsOK /\ ExitsAlone /\ Agreed
  BY DEF TasksOK, WaitsOK, ExitsAlone, Agreed
<1>5. DialledOnce /\ AcceptedOnce /\ AnswersCount
  BY <1>3 DEF DialledOnce, AcceptedOnce, AnswersCount
<1>6. QED
  BY <1>1, <1>2, <1>4, <1>5 DEF IInv

\* Steps that start no session but change the main task's place, its backlog, ...
LEMMA DiscoverInv == ASSUME IInv, NEW c \in Clients, Discover(c) PROVE IInv'
<1> USE DEF IInv
<1>0. UNCHANGED <<partner, answered, dialled, deaf, ended, started>> /\ main[c] = "discover"
  BY DEF Discover
<1>1. \A x, d, p : Has(x, d, p)' <=> Has(x, d, p)
  BY <1>0, NoNewSession
<1>2. TypesOK'
  <2>1. main' \in [Clients -> {"discover", "dial", "listen", "failed", "exited"}]
    BY DEF Discover, TypesOK
  <2>2. toDial' \in [Clients -> SUBSET Peers]
    BY DEF Discover, TypesOK
  <2>3. backlog' \in [Clients -> SUBSET Peers] /\ running' \in [Clients -> SUBSET Tasks]
    BY DEF Discover, TypesOK
  <2>4. QED
    BY <1>0, <2>1, <2>2, <2>3 DEF TypesOK
<1>3. FewToDial'
  BY DEF Discover, TypesOK, FewToDial
<1>4. TasksOK' /\ WaitsOK' /\ ExitsAlone' /\ Agreed'
  <2>1. TasksOK'
    BY <1>0 DEF Discover, TypesOK, TasksOK
  <2>2. WaitsOK'
    BY <1>0 DEF Discover, TypesOK, WaitsOK
  <2>3. ExitsAlone'
    BY <1>0 DEF Discover, TypesOK, ExitsAlone
  <2>4. Agreed'
    BY <1>0 DEF Discover, TypesOK, Agreed
  <2>5. QED
    BY <2>1, <2>2, <2>3, <2>4
<1>5. DialledOnce'
  <2>1. \A x \in Clients : x # c => main'[x] = main[x] /\ toDial'[x] = toDial[x]
    BY DEF Discover, TypesOK
  <2>2. \A q \in Peers : partner[c] # q /\ ~Has(c, TRUE, q)
    BY <1>0, ClientAssumption DEF WaitsOK, DialledOnce
  <2>3. QED
    BY <1>0, <1>1, <2>1, <2>2 DEF DialledOnce
<1>6. AcceptedOnce'
  <2>1. \A x \in Clients : /\ x # c => main'[x] = main[x] /\ toDial'[x] = toDial[x]
                           /\ main'[x] = "listen" => main[x] = "listen"
                           /\ backlog'[x] \subseteq backlog[x]
    BY DEF Discover, TypesOK
  <2>2. \A x \in Clients, q \in Peers : Came(x, q) => Came(x, q)'
    BY <1>0, <2>1 DEF Came
  <2>3. QED
    BY <1>0, <1>1, <2>1, <2>2 DEF AcceptedOnce
<1>7. AnswersCount'
  BY <1>0, <1>1 DEF Discover, TypesOK, AnswersCount
<1>8. QED
  BY <1>2, <1>3, <1>4, <1>5, <1>6, <1>7

LEMMA DialInv == ASSUME IInv, NEW c \in Clients, NEW p \in Peers, Dial(c, p) PROVE IInv'
<1> USE DEF IInv
<1>0. /\ UNCHANGED <<main, answered, dialled, deaf, running, ended, started>>
      /\ main[c] = "dial" /\ partner[c] = None
  BY DEF Dial, taskVars
<1>1. \A x, d, q : Has(x, d, q)' <=> Has(x, d, q)
  BY <1>0, NoNewSession
<1>2. TypesOK'
  BY <1>0 DEF Dial, TypesOK, Peers
<1>3. FewToDial'
  <2>1. IsFiniteSet(toDial[c])
    BY FS_Subset, ClientAssumption DEF TypesOK
  <2>2. Cardinality(toDial[c] \ {p}) <= Cardinality(toDial[c])
    BY <2>1, FS_Subset
  <2>3. Cardinality(toDial[c] \ {p}) \in Nat /\ Cardinality(toDial[c]) \in Nat
    BY <2>1, FS_Subset, FS_CardinalityType
  <2>4. \A x \in Clients : toDial'[x] = IF x = c THEN toDial[c] \ {p} ELSE toDial[x]
    BY DEF Dial, TypesOK
  <2>5. QED
    BY <2>2, <2>3, <2>4, ClientAssumption DEF FewToDial
<1>4. TasksOK' /\ WaitsOK' /\ ExitsAlone' /\ Agreed'
  <2>1. TasksOK'
    BY <1>0 DEF Dial, TypesOK, TasksOK
  <2>2. WaitsOK'
    BY <1>0 DEF Dial, TypesOK, WaitsOK
  <2>3. ExitsAlone'
    BY <1>0 DEF Dial, TypesOK, ExitsAlone
  <2>4. Agreed'
    BY <1>0 DEF Dial, TypesOK, Agreed
  <2>5. QED
    BY <2>1, <2>2, <2>3, <2>4
<1>5. DialledOnce'
  BY <1>0, <1>1, ClientAssumption DEF Dial, TypesOK, DialledOnce
<1>6. AcceptedOnce'
  <2>1. /\ \A x \in Clients : toDial'[x] = IF x = c THEN toDial[c] \ {p} ELSE toDial[x]
        /\ \A x \in Clients : partner'[x] # partner[x] => x = c
        /\ \A x \in Clients : \A q \in backlog'[x] :
             q \in backlog[x] \/ (x = p /\ q = c /\ p \in Clients)
    BY <1>0 DEF Dial, TypesOK
  <2>2. \A x \in Clients, q \in Peers : Came(x, q) => Came(x, q)'
    BY <1>0, <2>1 DEF Came
  <2>3. ASSUME p \in Clients PROVE Came(p, c)' /\ ~Came(p, c)
    BY <1>0, <2>1, <2>3 DEF Came, Dial
  <2>4. \A x \in Clients, q \in Peers :
          main'[x] = "listen" /\ partner'[x] = q => main[x] = "listen" /\ partner[x] = q
    BY <1>0, <2>1
  <2>5. c \in Peers
    BY DEF Peers
  <2>6. ASSUME NEW x \in Clients, NEW q \in Peers, q \in backlog'[x]
        PROVE  Came(x, q)' /\ ~(main'[x] = "listen" /\ partner'[x] = q) /\ ~Has(x, FALSE, q)'
    <3>1. CASE q \in backlog[x]
      BY <1>1, <2>2, <2>4, <3>1 DEF AcceptedOnce
    <3>2. CASE x = p /\ q = c /\ p \in Clients
      BY <1>1, <2>3, <2>4, <2>5, <3>2 DEF AcceptedOnce
    <3>3. QED
      BY <2>1, <2>6, <3>1, <3>2
  <2>7. ASSUME NEW x \in Clients, NEW q \in Peers
        PROVE  /\ main'[x] = "listen" /\ partner'[x] = q => Came(x, q)' /\ ~Has(x, FALSE, q)'
               /\ Has(x, FALSE, q)' => Came(x, q)'
    BY <1>1, <2>2, <2>4 DEF AcceptedOnce
  <2>8. QED
    BY <2>6, <2>7 DEF AcceptedOnce
<1>7. AnswersCount'
  BY <1>0, <1>1 DEF Dial, TypesOK, AnswersCount
<1>8. QED
  BY <1>2, <1>3, <1>4, <1>5, <1>6, <1>7

\* The handshake with p has come to an end: a session, or nothing.
LEMMA ShakenInv ==
  ASSUME IInv, NEW c \in Clients, partner[c] # None, NEW d \in BOOLEAN,
         main[c] = IF d THEN "dial" ELSE "listen",
         Shaken(c, partner[c], d),
         d /\ partner[c] \in Clients => <<c, partner[c]>> \in answered,
         UNCHANGED <<main, toDial, backlog, answered, dialled, deaf>>
  PROVE  IInv'
<1> USE DEF IInv
<1> DEFINE p == partner[c]
<1>0. p \in Peers /\ None \notin Peers /\ main[c] \in {"dial", "listen"}
  BY ClientAssumption DEF TypesOK
<1>1. /\ partner' = [partner EXCEPT ![c] = None]
      /\ \A x \in Clients : partner'[x] = IF x = c THEN None ELSE partner[x]
  BY DEF Shaken, TypesOK
<1>2. ~Has(c, d, p)
  BY <1>0 DEF DialledOnce, AcceptedOnce
<1>3. CASE UNCHANGED taskVars /\ p \notin Clients
  <2>1. UNCHANGED <<running, ended, started>>
    BY <1>3 DEF taskVars
  <2>2. \A x, e, q : Has(x, e, q)' <=> Has(x, e, q)
    BY <2>1, NoNewSession
  <2>3. TypesOK' /\ FewToDial' /\ TasksOK' /\ WaitsOK' /\ ExitsAlone' /\ Agreed'
    <3>1. TypesOK'
      BY <1>1, <2>1 DEF TypesOK
    <3>2. FewToDial'
      BY <1>1, <2>1 DEF FewToDial
    <3>3. TasksOK'
      BY <1>1, <2>1 DEF TasksOK
    <3>4. WaitsOK'
      BY <1>1, <2>1 DEF WaitsOK
    <3>5. ExitsAlone'
      BY <1>1, <2>1 DEF ExitsAlone
    <3>6. Agreed'
      BY <1>1, <2>1 DEF Agreed
    <3>7. QED
      BY <3>1, <3>2, <3>3, <3>4, <3>5, <3>6
  <2>4. DialledOnce' /\ AcceptedOnce'
    <3>1. DialledOnce'
      BY <1>0, <1>1, <2>2 DEF DialledOnce
    <3>2. AcceptedOnce'
      BY <1>0, <1>1, <2>2 DEF AcceptedOnce, Came
    <3>3. QED
      BY <3>1, <3>2
  <2>5. AnswersCount'
    BY <1>1, <1>3, <2>1, <2>2 DEF AnswersCount
  <2>6. QED
    BY <2>3, <2>4, <2>5
<1>4. CASE Spawn(c, Session(d, p, Reserved(c, p)))
  <2>1. /\ running' \in [Clients -> SUBSET Tasks] /\ started' \in [Clients -> SUBSET Sessions]
        /\ TasksOK' /\ Agreed'
        /\ \A x \in Clients, e \in BOOLEAN, q \in Peers :
             Has(x, e, q)' <=> Has(x, e, q) \/ (x = c /\ e = d /\ q = p)
        /\ \A x \in Clients : started[x] \subseteq started'[x]
        /\ Session(d, p, Reserved(c, p)) \in started'[c]
    BY <1>0, <1>2, <1>4, NewSession
  <2>2. UNCHANGED ended /\ \A x \in Clients : x # c => running'[x] = running[x]
    BY <1>4 DEF Spawn, TypesOK
  <2>3. TypesOK' /\ FewToDial' /\ WaitsOK'
    <3>1. TypesOK'
      BY <1>1, <2>1, <2>2 DEF TypesOK
    <3>2. FewToDial'
      BY <1>1, <2>1, <2>2 DEF FewToDial
    <3>3. WaitsOK'
      BY <1>1, <2>1, <2>2 DEF WaitsOK
    <3>4. QED
      BY <3>1, <3>2, <3>3
  <2>4. ExitsAlone'
    BY <1>0, <2>2 DEF ExitsAlone
  <2>5. DialledOnce'
    <3>1. ASSUME NEW x \in Clients, NEW q \in Peers
          PROVE  Has(x, TRUE, q)' <=> Has(x, TRUE, q) \/ (x = c /\ d /\ q = p)
      BY <2>1
    <3>2. \A x \in Clients, q \in Peers : partner'[x] = q => partner[x] = q /\ x # c
      BY <1>0, <1>1
    <3>3. QED
      BY <1>0, <3>1, <3>2 DEF DialledOnce
  <2>6. AcceptedOnce'
    <3>1. \A x \in Clients, q \in Peers : Came(x, q)' <=> Came(x, q)
      BY DEF Came
    <3>2. ASSUME NEW x \in Clients, NEW q \in Peers
          PROVE  Has(x, FALSE, q)' <=> Has(x, FALSE, q) \/ (x = c /\ ~d /\ q = p)
      BY <2>1
    <3>3. \A x \in Clients, q \in Peers :
            main'[x] = "listen" /\ partner'[x] = q => main[x] = "listen" /\ partner[x] = q /\ x # c
      BY <1>0, <1>1
    <3>4. QED
      BY <1>0, <3>1, <3>2, <3>3 DEF AcceptedOnce
  <2>7. AnswersCount'
    <3>1. ASSUME NEW x \in Clients, NEW q \in Clients, Has(x, TRUE, q)'
          PROVE  <<x, q>> \in answered'
      <4>1. q \in Peers /\ TRUE \in BOOLEAN
        BY DEF Peers
      <4>2. Has(x, TRUE, q)' <=> Has(x, TRUE, q) \/ (x = c /\ TRUE = d /\ q = p)
        BY <2>1, <4>1, Zenon
      <4>3. QED
        BY <3>1, <4>2 DEF AnswersCount
    <3>2. ASSUME NEW x \in Clients, NEW q \in Clients, <<x, q>> \in answered'
          PROVE  \/ Session(FALSE, x, Reserved(q, x)) \in started'[q]
                 \/ main'[q] = "listen" /\ partner'[q] = x
      BY <1>0, <1>1, <2>1, <3>2 DEF AnswersCount
    <3>3. QED
      BY <3>1, <3>2 DEF AnswersCount
  <2>8. QED
    BY <2>1, <2>3, <2>4, <2>5, <2>6, <2>7
<1>5. QED
  BY <1>3, <1>4 DEF Shaken, SameTorrent

LEMMA AcceptInv == ASSUME IInv, NEW c \in Clients, NEW p \in Peers, Accept(c, p) PROVE IInv'
<1> USE DEF IInv
<1>0. /\ UNCHANGED <<main, toDial, dialled, deaf, running, ended, started>>
      /\ main[c] = "listen" /\ partner[c] = None /\ p \in backlog[c]
      /\ \A x \in Clients : /\ partner'[x] = IF x = c THEN p ELSE partner[x]
                            /\ backlog'[x] = IF x = c THEN backlog[c] \ {p} ELSE backlog[x]
      /\ answered' = answered \cup {<<p, c>>}
  BY DEF Accept, TypesOK, taskVars
<1>1. \A x, d, q : Has(x, d, q)' <=> Has(x, d, q)
  BY <1>0, NoNewSession
<1>2. TypesOK'
  BY <1>0 DEF Accept, TypesOK
<1>3. FewToDial' /\ TasksOK' /\ WaitsOK' /\ ExitsAlone' /\ Agreed'
  <2>1. FewToDial'
    BY <1>0 DEF FewToDial
  <2>2. TasksOK'
    BY <1>0 DEF TasksOK
  <2>3. WaitsOK'
    BY <1>0 DEF WaitsOK
  <2>4. ExitsAlone'
    BY <1>0 DEF ExitsAlone
  <2>5. Agreed'
    BY <1>0 DEF Agreed
  <2>6. QED
    BY <2>1, <2>2, <2>3, <2>4, <2>5
<1>4. DialledOnce'
  BY <1>0, <1>1 DEF DialledOnce
<1>5. AcceptedOnce'
  <2>1. \A x \in Clients, q \in Peers : Came(x, q)' <=> Came(x, q)
    BY <1>0 DEF Came
  <2>2. QED
    BY <1>0, <1>1, <2>1 DEF AcceptedOnce
<1>6. AnswersCount'
  BY <1>0, <1>1, ClientAssumption DEF AnswersCount, Peers
<1>7. QED
  BY <1>2, <1>3, <1>4, <1>5, <1>6

LEMMA StepInv == IInv /\ [Next]_vars => IInv'
<1> SUFFICES ASSUME IInv, [Next]_vars PROVE IInv'
  OBVIOUS
<1> USE DEF IInv
<1>1. ASSUME NEW c \in Clients, Answer(c)
      PROVE  IInv'
  <2> DEFINE p == partner[c]
  <2>1. main[c] = "dial" /\ p # None /\ UNCHANGED <<main, toDial, backlog, answered, dialled, deaf>>
    BY <1>1 DEF Answer
  <2>2. CASE p \in Clients /\ <<c, p>> \notin answered
    <3>1. /\ UNCHANGED <<main, toDial, backlog, answered, dialled, deaf, running, ended, started>>
          /\ partner' = [partner EXCEPT ![c] = None]
          /\ \A x \in Clients : partner'[x] = IF x = c THEN None ELSE partner[x]
      BY <1>1, <2>2 DEF Answer, taskVars, TypesOK
    <3>2. \A x, d, q : Has(x, d, q)' <=> Has(x, d, q)
      BY <3>1, NoNewSession
    <3>3. TypesOK' /\ FewToDial' /\ TasksOK' /\ WaitsOK' /\ ExitsAlone' /\ Agreed'
      <4>1. TypesOK'
        BY <3>1 DEF TypesOK
      <4>2. FewToDial'
        BY <3>1 DEF FewToDial
      <4>3. TasksOK'
        BY <3>1 DEF TasksOK
      <4>4. WaitsOK'
        BY <3>1 DEF WaitsOK
      <4>5. ExitsAlone'
        BY <3>1 DEF ExitsAlone
      <4>6. Agreed'
        BY <3>1 DEF Agreed
      <4>7. QED
        BY <4>1, <4>2, <4>3, <4>4, <4>5, <4>6
    <3>4. DialledOnce' /\ AcceptedOnce'
      <4>1. \A x \in Clients, q \in Peers : Came(x, q)' <=> Came(x, q)
        BY <3>1 DEF Came
      <4>2. \A x \in Clients, q \in Peers : partner'[x] = q => partner[x] = q
        BY <3>1, ClientAssumption
      <4>3. QED
        BY <3>1, <3>2, <4>1, <4>2 DEF DialledOnce, AcceptedOnce
    <3>5. AnswersCount'
      BY <2>1, <3>1, <3>2 DEF AnswersCount
    <3>6. QED
      BY <3>3, <3>4, <3>5
  <2>3. CASE Shaken(c, p, TRUE) /\ (p \in Clients => <<c, p>> \in answered)
    BY <2>1, <2>3, ShakenInv
  <2>4. QED
    BY <1>1, <2>2, <2>3 DEF Answer
<1>2. ASSUME NEW c \in Clients, Greeted(c)
      PROVE  IInv'
  <2>1. /\ main[c] = "listen" /\ partner[c] # None /\ Shaken(c, partner[c], FALSE)
        /\ UNCHANGED <<main, toDial, backlog, answered, dialled, deaf>>
    BY <1>2 DEF Greeted
  <2>2. QED
    BY <2>1, ShakenInv
<1>3. ASSUME NEW c \in Clients, Listen(c)
      PROVE  IInv'
  <2>1. /\ UNCHANGED <<toDial, partner, backlog, answered, dialled, deaf, running, ended, started>>
        /\ main[c] = "dial" /\ partner[c] = None
        /\ main' = [main EXCEPT ![c] = "listen"]
        /\ \A x \in Clients : main'[x] = IF x = c THEN "listen" ELSE main[x]
    BY <1>3 DEF Listen, connVars, taskVars, TypesOK
  <2>2. \A x, d, q : Has(x, d, q)' <=> Has(x, d, q)
    BY <2>1, NoNewSession
  <2>3. TypesOK' /\ FewToDial' /\ TasksOK' /\ WaitsOK' /\ ExitsAlone' /\ Agreed'
    <3>1. TypesOK'
      BY <2>1 DEF TypesOK
    <3>2. FewToDial'
      BY <2>1 DEF FewToDial
    <3>3. TasksOK'
      BY <2>1 DEF TasksOK
    <3>4. WaitsOK'
      BY <2>1 DEF WaitsOK
    <3>5. ExitsAlone'
      BY <2>1 DEF ExitsAlone
    <3>6. Agreed'
      BY <2>1 DEF Agreed
    <3>7. QED
      BY <3>1, <3>2, <3>3, <3>4, <3>5, <3>6
  <2>4. DialledOnce' /\ AcceptedOnce'
    <3>1. \A x \in Clients, q \in Peers : Came(x, q)' <=> Came(x, q)
      BY <2>1 DEF Came
    <3>2. \A x \in Clients, q \in Peers : partner'[x] = q =>
            (main'[x] = "dial" <=> main[x] = "dial") /\ (main'[x] = "listen" <=> main[x] = "listen")
      BY <2>1, ClientAssumption
    <3>3. \A x \in Clients : main'[x] = "discover" <=> main[x] = "discover"
      BY <2>1
    <3>4. QED
      <4>1. DialledOnce'
        BY <2>1, <2>2, <3>2, <3>3 DEF DialledOnce
      <4>2. AcceptedOnce'
        BY <2>1, <2>2, <3>1, <3>2 DEF AcceptedOnce
      <4>3. QED
        BY <4>1, <4>2
  <2>5. AnswersCount'
    BY <2>1, <2>2 DEF AnswersCount
  <2>6. QED
    BY <2>3, <2>4, <2>5
<1>4. ASSUME NEW c \in Clients, Join(c)
      PROVE  IInv'
  <2>1. /\ UNCHANGED <<main, toDial, partner, backlog, answered, dialled, running, started>>
        /\ deaf' \in [Clients -> BOOLEAN]
        /\ \A x \in Clients : ended'[x] \subseteq ended[x]
        /\ ended' \in [Clients -> SUBSET Tasks]
    BY <1>4 DEF Join, connVars, TypesOK
  <2>2. \A x, d, q : Has(x, d, q)' <=> Has(x, d, q)
    BY <2>1, NoNewSession
  <2>3. TypesOK' /\ FewToDial' /\ TasksOK' /\ WaitsOK' /\ ExitsAlone' /\ Agreed'
    <3>1. TypesOK'
      BY <2>1 DEF TypesOK
    <3>2. FewToDial'
      BY <2>1 DEF FewToDial
    <3>3. TasksOK'
      BY <2>1 DEF TasksOK
    <3>4. WaitsOK'
      BY <2>1 DEF WaitsOK
    <3>5. ExitsAlone'
      BY <2>1 DEF ExitsAlone
    <3>6. Agreed'
      BY <2>1 DEF Agreed
    <3>7. QED
      BY <3>1, <3>2, <3>3, <3>4, <3>5, <3>6
  <2>4. DialledOnce' /\ AcceptedOnce' /\ AnswersCount'
    <3>1. DialledOnce'
      BY <2>1, <2>2 DEF DialledOnce
    <3>2. AcceptedOnce'
      BY <2>1, <2>2 DEF AcceptedOnce, Came
    <3>3. AnswersCount'
      BY <2>1, <2>2 DEF AnswersCount
    <3>4. QED
      BY <3>1, <3>2, <3>3
  <2>5. QED
    BY <2>3, <2>4
<1>5. ASSUME NEW c \in Clients, AcceptError(c)
      PROVE  IInv'
  <2>1. /\ UNCHANGED <<toDial, partner, answered, dialled, running, ended, started>>
        /\ main[c] = "listen" /\ partner[c] = None
        /\ \/ main' = main
           \/ main' = [main EXCEPT ![c] = "exited"] /\ running[c] \cup ended[c] = {}
        /\ backlog' \in [Clients -> SUBSET Peers]
        /\ \A x \in Clients : backlog'[x] \subseteq backlog[x]
        /\ deaf' \in [Clients -> BOOLEAN]
    BY <1>5 DEF AcceptError, taskVars, TypesOK
  <2>2. \A x, d, q : Has(x, d, q)' <=> Has(x, d, q)
    BY <2>1, NoNewSession
  <2>3. \A x \in Clients : main'[x] = main[x]
          \/ (x = c /\ main'[x] = "exited" /\ running[x] \cup ended[x] = {})
    BY <2>1 DEF TypesOK
  <2>4. TypesOK' /\ FewToDial' /\ TasksOK' /\ WaitsOK' /\ ExitsAlone' /\ Agreed'
    <3>1. TypesOK'
      BY <2>1, <2>3 DEF TypesOK
    <3>2. FewToDial'
      BY <2>1, <2>3 DEF FewToDial
    <3>3. TasksOK'
      BY <2>1, <2>3 DEF TasksOK
    <3>4. WaitsOK'
      BY <2>1, <2>3 DEF WaitsOK
    <3>5. ExitsAlone'
      BY <2>1, <2>3 DEF ExitsAlone
    <3>6. Agreed'
      BY <2>1, <2>3 DEF Agreed
    <3>7. QED
      BY <3>1, <3>2, <3>3, <3>4, <3>5, <3>6
  <2>5. DialledOnce' /\ AcceptedOnce'
    <3>1. DialledOnce'
      BY <2>1, <2>2, <2>3 DEF DialledOnce
    <3>2. AcceptedOnce'
      <4>1. \A x \in Clients, q \in Peers : Came(x, q) => Came(x, q)'
        BY <2>1, <2>3 DEF Came
      <4>2. QED
        BY <2>1, <2>2, <2>3, <4>1 DEF AcceptedOnce
    <3>3. QED
      BY <3>1, <3>2
  <2>6. AnswersCount'
    <3>1. \A x, q \in Clients : main[x] = "listen" /\ partner[x] = q => main'[x] = "listen"
      BY <2>1, <2>3, ClientAssumption DEF Peers
    <3>2. QED
      BY <2>1, <2>2, <3>1 DEF AnswersCount
  <2>7. QED
    BY <2>4, <2>5, <2>6
<1>6. ASSUME NEW c \in Clients, NEW task \in running[c], TaskEnds(c, task)
      PROVE  IInv'
  <2>1. /\ UNCHANGED <<main, toDial, partner, backlog, answered, dialled, deaf, started>>
        /\ running' \in [Clients -> SUBSET Tasks] /\ ended' \in [Clients -> SUBSET Tasks]
        /\ \A x \in Clients :
             /\ running'[x] = IF x = c THEN running[c] \ {task} ELSE running[x]
             /\ ended'[x] = IF x = c THEN ended[c] \cup {task} ELSE ended[x]
    BY <1>6 DEF TaskEnds, connVars, TypesOK
  <2>2. \A x, d, q : Has(x, d, q)' <=> Has(x, d, q)
    BY <2>1, NoNewSession
  <2>3. TypesOK' /\ FewToDial' /\ WaitsOK' /\ Agreed'
    <3>1. TypesOK'
      BY <2>1 DEF TypesOK
    <3>2. FewToDial'
      BY <2>1 DEF FewToDial
    <3>3. WaitsOK'
      BY <2>1 DEF WaitsOK
    <3>4. Agreed'
      BY <2>1 DEF Agreed
    <3>5. QED
      BY <3>1, <3>2, <3>3, <3>4
  <2>4. TasksOK' /\ ExitsAlone'
    <3>1. TasksOK'
      BY <1>6, <2>1 DEF TasksOK
    <3>2. ExitsAlone'
      BY <1>6, <2>1 DEF ExitsAlone
    <3>3. QED
      BY <3>1, <3>2
  <2>5. DialledOnce' /\ AcceptedOnce' /\ AnswersCount'
    <3>1. DialledOnce'
      BY <2>1, <2>2 DEF DialledOnce
    <3>2. AcceptedOnce'
      BY <2>1, <2>2 DEF AcceptedOnce, Came
    <3>3. AnswersCount'
      BY <2>1, <2>2 DEF AnswersCount
    <3>4. QED
      BY <3>1, <3>2, <3>3
  <2>6. QED
    BY <2>3, <2>4, <2>5
<1>7. ASSUME NEW c \in Clients, NEW p \in Others, OtherDials(p, c)
      PROVE  IInv'
  <2>1. /\ UNCHANGED <<main, toDial, partner, answered, deaf, running, ended, started>>
        /\ dialled' = dialled \cup {<<p, c>>} /\ <<p, c>> \notin dialled
        /\ p \in Diallers /\ p \in Peers /\ p \notin Clients
        /\ \A x \in Clients : backlog'[x] = IF x = c THEN backlog[c] \cup {p} ELSE backlog[x]
    BY <1>7, ClientAssumption DEF OtherDials, taskVars, TypesOK, Peers
  <2>2. \A x, d, q : Has(x, d, q)' <=> Has(x, d, q)
    BY <2>1, NoNewSession
  <2>3. TypesOK'
    BY <1>7, <2>1 DEF TypesOK, OtherDials
  <2>4. FewToDial' /\ TasksOK' /\ WaitsOK' /\ ExitsAlone' /\ Agreed'
    <3>1. FewToDial'
      BY <2>1 DEF FewToDial
    <3>2. TasksOK'
      BY <2>1 DEF TasksOK
    <3>3. WaitsOK'
      BY <2>1 DEF WaitsOK
    <3>4. ExitsAlone'
      BY <2>1 DEF ExitsAlone
    <3>5. Agreed'
      BY <2>1 DEF Agreed
    <3>6. QED
      BY <3>1, <3>2, <3>3, <3>4, <3>5
  <2>5. DialledOnce' /\ AnswersCount'
    BY <2>1, <2>2 DEF DialledOnce, AnswersCount
  <2>6. AcceptedOnce'
    <3>1. \A x \in Clients, q \in Peers : Came(x, q) => Came(x, q)'
      BY <2>1 DEF Came
    <3>2. Came(c, p)' /\ ~Came(c, p)
      BY <2>1 DEF Came
    <3>3. QED
      BY <2>1, <2>2, <3>1, <3>2 DEF AcceptedOnce
  <2>7. QED
    BY <2>3, <2>4, <2>5, <2>6
<1>8. CASE UNCHANGED vars
  <2>1. UNCHANGED <<main, toDial, partner, backlog, answered, dialled, deaf, running, ended, started>>
    BY <1>8 DEF vars, connVars, taskVars
  <2>2. \A x, d, q : Has(x, d, q)' <=> Has(x, d, q)
    BY <2>1, NoNewSession
  <2>3. (TypesOK /\ FewToDial /\ TasksOK /\ WaitsOK /\ ExitsAlone /\ Agreed)'
    BY <2>1 DEF TypesOK, FewToDial, TasksOK, WaitsOK, ExitsAlone, Agreed
  <2>4. DialledOnce' /\ AnswersCount'
    BY <2>1, <2>2 DEF DialledOnce, AnswersCount
  <2>5. AcceptedOnce'
    BY <2>1, <2>2 DEF AcceptedOnce, Came
  <2>6. QED
    BY <2>3, <2>4, <2>5
<1>9. QED
  BY <1>1, <1>2, <1>3, <1>4, <1>5, <1>6, <1>7, <1>8, DiscoverInv, DialInv, AcceptInv
     DEF Next, Step

LEMMA Inductive == Spec => []IInv
BY InitInv, StepInv, PTL DEF Spec

-----------------------------------------------------------------------------
(* The theorems. *)

\* The variables keep their types, no client dials more peers than --max-peers,
\* and no two tasks of a JoinSet are the same session.
THEOREM TypeCorrect == Spec => []TypeOK
<1>1. IInv => TypeOK
  BY DEF IInv, TypesOK, FewToDial, TasksOK, TypeOK
<1>2. QED
  BY <1>1, Inductive, PTL

\* The end of run aborts no task that is still at work.
THEOREM StopsAlone == Spec => []ExitsAlone
BY Inductive, PTL DEF IInv

\* A session with a client that was dialled has, or is about to have, its
\* counterpart there, and both agree on the Fast Extension.
THEOREM SessionsPair == Spec => []SessionsComeInPairs
<1>1. ASSUME IInv, NEW c \in Clients, NEW p \in Clients, NEW fast \in BOOLEAN,
             Session(TRUE, p, fast) \in started[c]
      PROVE  \/ Session(FALSE, c, fast) \in started[p]
             \/ main[p] = "listen" /\ partner[p] = c
  <2>1. p \in Peers /\ c \in Peers
    BY DEF Peers
  <2>2. fast = Reserved(c, p) /\ Reserved(c, p) = Reserved(p, c)
    BY <1>1, <2>1, ReservedIsAgreed DEF IInv, Agreed
  <2>3. <<c, p>> \in answered
    BY <1>1 DEF IInv, AnswersCount, Has
  <2>4. QED
    BY <1>1, <2>2, <2>3 DEF IInv, AnswersCount
<1>2. IInv => SessionsComeInPairs
  BY <1>1 DEF SessionsComeInPairs
<1>3. QED
  BY <1>2, Inductive, PTL

=============================================================================
