---------------------------- MODULE Gateways_proofs ----------------------------
(***************************************************************************)
(* Proofs about the database gateway (Gateway), for any number of          *)
(* connections, instances, keys and handshake slots and any configuration  *)
(* of its listeners, and about a Web RDP session (WebRDP), for any number  *)
(* of streams and instructions and any limits of the filters.              *)
(*                                                                         *)
(* None of the properties is inductive.  That a password is safe rests on  *)
(* what every earlier step of the handshake settled (Sound); that a cancel *)
(* request reaches its session rests on the routes being exactly the       *)
(* sessions that hold a key (RoutesKept); that no slot leaks rests on the  *)
(* slots in use being exactly the leases held (SlotsKept); that nothing is *)
(* left at the end rests on a loop not returning before its connections    *)
(* (Live).                                                                 *)
(*                                                                         *)
(* That a Web RDP session carries only permitted data rests on the filter  *)
(* knowing every open stream of the sender by its permission               *)
(* (StreamsKnown); that the audit counts what was received rests on the    *)
(* two counts differing by the one instruction in hand (Counted).          *)
(***************************************************************************)
EXTENDS MCGateways, FiniteSetTheorems, TLAPS

-----------------------------------------------------------------------------
PCs == Handshaking \cup {"idle", "accepted", "started", "cancel", "forward", "audit",
                         "relay", "ending", "leave"}
Record == [pc : PCs, at : Protocols \cup {"none", "unified", "admin"},
           proto : Protocols \cup {"none"}, tls : BOOLEAN, sock : BOOLEAN, held : BOOLEAN,
           inst : Instances \cup {NoOne}, up : BOOLEAN, verified : BOOLEAN,
           sent : {"none", "clear", "hashed"}, key : Keys \cup {NoOne},
           aim : SUBSET (Conns \X Instances)]

(* Before the account is resolved, after it, and while a route may exist.  *)
Unresolved == {"idle", "accepted", "started", "detect", "unified_tls", "transport", "login",
               "cancel", "leave"}
Resolved == {"authenticate", "dial", "upstream", "starting", "switched", "granted", "finish"}
Routed == {"starting", "finish", "audit", "relay", "ending"}
Slotted == Handshaking \cup {"cancel", "forward"}

(* What the steps of a handshake have settled about the connection x.      *)
Sound(x) ==
    /\ x.pc \in Unresolved => x.inst = NoOne
    /\ x.pc \notin Unresolved => x.inst \in Instances
    /\ x.pc \in Resolved \cup {"login"} /\ x.at # "admin" /\ tlsRequired => x.tls
    /\ x.pc \in {"upstream", "switched", "granted"} =>
          (x.verified <=> InstTLS[x.inst] # "disable")
    /\ x.sent # "none" => x.pc \in {"upstream", "switched", "granted"}
    /\ x.sent = "clear" => x.verified \/ x.proto # "mysql"
    /\ x.key # NoOne => x.pc \in Routed \cup {"forward"}
    /\ x.at = "none" <=> x.pc = "idle"
    /\ x.at = "admin" => x.pc \in {"dial", "upstream", "switched", "granted", "leave"} /\ ~x.sock
    /\ x.pc \in Slotted /\ x.at # "admin" => x.held
    /\ x.held => x.at \notin {"none", "admin"} /\ x.pc \in Slotted \cup {"leave"}
    /\ x.pc = "forward" => \E d \in Conns : x.aim = {<<d, x.inst>>}

(* What the server owes the connection x.                                  *)
Live(x) ==
    /\ shut /\ x.pc \notin {"idle", "accepted"} => ~x.sock
    /\ x.at \notin {"none", "admin"} =>
          x.at \in Listeners /\ phase = "serving" /\ loop[x.at] # "returned"

RoutesKept ==
    /\ IsFiniteSet(routes)
    /\ routes \subseteq [key : Keys, conn : Conns, inst : Instances]
    /\ \A r \in routes : /\ conn[r.conn].pc \in Routed
                         /\ conn[r.conn].key = r.key /\ conn[r.conn].inst = r.inst
    /\ \A c \in Conns : conn[c].pc \in Routed /\ conn[c].key # NoOne =>
          [key |-> conn[c].key, conn |-> c, inst |-> conn[c].inst] \in routes

Leases == {c \in Conns : conn[c].held}
SlotsKept == slots = Cardinality(Leases) /\ slots <= HandshakeLimit

ServerTyped ==
    /\ mode \in {"independent", "unified"} /\ enabled \subseteq Protocols /\ tlsRequired \in BOOLEAN
    /\ phase \in {"binding", "serving", "returned"} /\ ctx \in {"running", "cancelled"}
    /\ open \subseteq Listeners /\ shut \in BOOLEAN
    /\ loop \in [Listeners -> {"accept", "failing", "drain", "returned"}]
    /\ phase = "returned" => open = {}

GatewayInv ==
    /\ ServerTyped
    /\ conn \in [Conns -> Record]
    /\ \A c \in Conns : Sound(conn[c]) /\ Live(conn[c])
    /\ RoutesKept
    /\ SlotsKept

-----------------------------------------------------------------------------
(* One connection moves                                                    *)

LEMMA ConnOf ==
    ASSUME GatewayInv, NEW c \in Conns
    PROVE  conn[c] \in Record /\ Sound(conn[c]) /\ Live(conn[c])
BY DEF GatewayInv

(* The routes are still those of the sessions with a key when the          *)
(* connection that moves keeps its key, or has none before and after.      *)
SameRoute(c, x) ==
    \/ /\ x.pc \in Routed /\ conn[c].pc \in Routed
       /\ x.key = conn[c].key /\ x.inst = conn[c].inst
    \/ /\ x.pc \notin Routed \/ x.key = NoOne
       /\ conn[c].pc \notin Routed \/ conn[c].key = NoOne

LEMMA RoutesSame ==
    ASSUME GatewayInv, NEW c \in Conns, NEW x \in Record, Set(c, x), SameRoute(c, x),
           UNCHANGED routes
    PROVE  RoutesKept'
<1>1. conn'[c] = x /\ \A d \in Conns \ {c} : conn'[d] = conn[d]
    BY DEF Set, GatewayInv
<1>2. IsFiniteSet(routes') /\ routes' \subseteq [key : Keys, conn : Conns, inst : Instances]
    BY DEF GatewayInv, RoutesKept
<1>3. ASSUME NEW r \in routes
      PROVE  conn'[r.conn].pc \in Routed /\ conn'[r.conn].key = r.key
             /\ conn'[r.conn].inst = r.inst
    <2>1. /\ r.conn \in Conns /\ r.key # NoOne /\ conn[r.conn].pc \in Routed
          /\ conn[r.conn].key = r.key /\ conn[r.conn].inst = r.inst
        BY GatewayAssumption DEF GatewayInv, RoutesKept
    <2>. QED
        BY <1>1, <2>1 DEF SameRoute
<1>4. ASSUME NEW d \in Conns, conn'[d].pc \in Routed, conn'[d].key # NoOne
      PROVE  [key |-> conn'[d].key, conn |-> d, inst |-> conn'[d].inst] \in routes
    <2>1. conn[d].pc \in Routed /\ conn'[d].key = conn[d].key /\ conn'[d].inst = conn[d].inst
        BY <1>1, <1>4 DEF SameRoute
    <2>. QED
        BY <1>4, <2>1 DEF GatewayInv, RoutesKept
<1>. QED
    BY <1>2, <1>3, <1>4 DEF RoutesKept

LEMMA RoutesDropped ==
    ASSUME GatewayInv, NEW c \in Conns, NEW x \in Record, Set(c, x),
           x.pc \notin Routed \/ x.key = NoOne, routes' = WithoutRoute(c)
    PROVE  RoutesKept'
<1>1. conn'[c] = x /\ \A d \in Conns \ {c} : conn'[d] = conn[d]
    BY DEF Set, GatewayInv
<1>2. routes' \subseteq routes /\ \A r \in routes : r \in routes' <=> r.conn # c
    BY DEF WithoutRoute
<1>3. IsFiniteSet(routes') /\ routes' \subseteq [key : Keys, conn : Conns, inst : Instances]
    BY <1>2, FS_Subset DEF GatewayInv, RoutesKept
<1>4. ASSUME NEW r \in routes'
      PROVE  conn'[r.conn].pc \in Routed /\ conn'[r.conn].key = r.key
             /\ conn'[r.conn].inst = r.inst
    <2>1. /\ r.conn \in Conns \ {c} /\ conn[r.conn].pc \in Routed
          /\ conn[r.conn].key = r.key /\ conn[r.conn].inst = r.inst
        BY <1>2, <1>4 DEF GatewayInv, RoutesKept
    <2>. QED
        BY <1>1, <2>1
<1>5. ASSUME NEW d \in Conns, conn'[d].pc \in Routed, conn'[d].key # NoOne
      PROVE  [key |-> conn'[d].key, conn |-> d, inst |-> conn'[d].inst] \in routes'
    <2>1. d # c /\ conn'[d] = conn[d]
        BY <1>1, <1>5
    <2>. DEFINE r == [key |-> conn[d].key, conn |-> d, inst |-> conn[d].inst]
    <2>2. r \in routes /\ r.conn = d
        BY <1>5, <2>1 DEF GatewayInv, RoutesKept
    <2>3. r \in routes'
        BY <1>2, <2>1, <2>2
    <2>. QED
        BY <2>1, <2>3
<1>. QED
    BY <1>3, <1>4, <1>5 DEF RoutesKept

LEMMA LeasesFinite == IsFiniteSet(Leases) /\ Cardinality(Leases) \in Nat
<1>1. Leases \subseteq Conns
    BY DEF Leases
<1>. QED
    BY <1>1, GatewayAssumption, FS_Subset, FS_CardinalityType

LEMMA SlotsSame ==
    ASSUME GatewayInv, NEW c \in Conns, NEW x \in Record, Set(c, x), x.held = conn[c].held,
           UNCHANGED slots
    PROVE  SlotsKept'
<1>1. Leases' = Leases
    BY DEF Set, GatewayInv, Leases
<1>. QED
    BY <1>1 DEF GatewayInv, SlotsKept

LEMMA SlotTaken ==
    ASSUME GatewayInv, NEW c \in Conns, NEW x \in Record, Set(c, x), x.held, ~conn[c].held,
           slots < HandshakeLimit, slots' = slots + 1
    PROVE  SlotsKept'
<1>1. Leases' = Leases \cup {c} /\ c \notin Leases
    BY DEF Set, GatewayInv, Leases
<1>2. Cardinality(Leases') = Cardinality(Leases) + 1
    BY <1>1, LeasesFinite, FS_AddElement
<1>. QED
    BY <1>2, LeasesFinite, GatewayAssumption DEF GatewayInv, SlotsKept

LEMMA SlotGivenBack ==
    ASSUME GatewayInv, NEW c \in Conns, NEW x \in Record, Set(c, x), ~x.held,
           slots' = IF conn[c].held THEN slots - 1 ELSE slots
    PROVE  SlotsKept'
<1>1. CASE conn[c].held
    <2>1. Leases' = Leases \ {c} /\ c \in Leases
        BY <1>1 DEF Set, GatewayInv, Leases
    <2>2. Cardinality(Leases') = Cardinality(Leases) - 1
        BY <2>1, LeasesFinite, FS_RemoveElement
    <2>. QED
        BY <1>1, <2>2, LeasesFinite, GatewayAssumption DEF GatewayInv, SlotsKept
<1>2. CASE ~conn[c].held
    <2>1. Leases' = Leases
        BY <1>2 DEF Set, GatewayInv, Leases
    <2>. QED
        BY <1>2, <2>1 DEF GatewayInv, SlotsKept
<1>. QED
    BY <1>1, <1>2

(* The rest of the invariant, when the server stays as it is.              *)
LEMMA ConnMoves ==
    ASSUME GatewayInv, NEW c \in Conns, NEW x \in Record, Set(c, x), Sound(x), Live(x),
           UNCHANGED <<config, server>>, RoutesKept', SlotsKept'
    PROVE  GatewayInv'
<1>1. UNCHANGED <<mode, enabled, tlsRequired, phase, ctx, open, loop, shut>>
    BY DEF config, server
<1>2. ServerTyped'
    BY <1>1 DEF GatewayInv, ServerTyped, Listeners
<1>3. conn' \in [Conns -> Record]
    BY DEF Set, GatewayInv
<1>4. ASSUME NEW d \in Conns
      PROVE  Sound(conn[d])' /\ Live(conn[d])'
    <2>1. Sound(conn'[d]) /\ Live(conn'[d])
        BY DEF Set, GatewayInv
    <2>. QED
        BY <1>1, <2>1 DEF Sound, Live, Listeners
<1>. QED
    BY <1>2, <1>3, <1>4 DEF GatewayInv

(* What a step of the handshake keeps of its connection.                   *)
Carries(x, y) ==
    x.at = y.at /\ x.sock = y.sock /\ x.held = y.held /\ x.key = y.key /\ x.aim = y.aim

LEMMA AdvanceKeeps ==
    ASSUME GatewayInv, NEW c \in Conns, NEW x \in Record, Set(c, x), Carries(x, conn[c]), Sound(x),
           \/ x.pc \in Routed /\ conn[c].pc \in Routed /\ x.inst = conn[c].inst
           \/ conn[c].pc \notin Routed /\ (x.pc \notin Routed \/ x.key = NoOne),
           conn[c].pc \notin {"idle", "accepted"},
           UNCHANGED <<config, server, slots, routes>>
    PROVE  GatewayInv'
<1>1. Live(conn[c])
    BY ConnOf
<1>2. Live(x)
    BY <1>1 DEF Live, Carries
<1>3. SameRoute(c, x)
    BY DEF SameRoute, Carries
<1>4. RoutesKept'
    BY <1>3, RoutesSame
<1>5. SlotsKept'
    BY SlotsSame DEF Carries
<1>. QED
    BY <1>2, <1>4, <1>5, ConnMoves

LEMMA IdleRecord ==
    /\ Idle \in Record /\ Idle.pc = "idle" /\ Idle.at = "none" /\ Idle.inst = NoOne
    /\ Idle.key = NoOne /\ Idle.sent = "none" /\ Idle.sock = FALSE /\ Idle.held = FALSE
    /\ Idle.proto = "none" /\ Idle.aim = {}
<1>1. "idle" \in PCs /\ {} \in SUBSET (Conns \X Instances)
    BY DEF PCs
<1>. QED
    BY <1>1 DEF Idle, Record

(* A connection that is dropped keeps only what its deferred calls return. *)
LEMMA QuitKeeps ==
    ASSUME GatewayInv, NEW c \in Conns, Quit(c), conn[c].pc \notin {"idle", "accepted"},
           routes' = WithoutRoute(c) \/ (routes' = routes /\ conn[c].pc \notin Routed),
           UNCHANGED <<config, server, slots>>
    PROVE  GatewayInv'
<1>. DEFINE x == [Idle EXCEPT !.pc = "leave", !.at = conn[c].at, !.sock = conn[c].sock,
                              !.held = conn[c].held]
<1>1. conn[c] \in Record /\ Sound(conn[c]) /\ Live(conn[c])
    BY ConnOf
<1>2. "leave" \in PCs
    BY DEF PCs
<1>3. /\ x \in Record /\ x.pc = "leave" /\ x.held = conn[c].held /\ x.at = conn[c].at
      /\ x.sock = conn[c].sock /\ x.key = Idle.key /\ x.inst = Idle.inst /\ x.sent = Idle.sent
    BY <1>1, <1>2, IdleRecord DEF Record
<1>4. Set(c, x)
    BY DEF Quit, Out
<1>. HIDE DEF x
<1>5. x.key = NoOne /\ x.inst = NoOne /\ x.sent = "none"
    BY <1>3, IdleRecord
<1>6. Sound(x) /\ Live(x)
    BY <1>1, <1>3, <1>5 DEF Sound, Live, Unresolved, Resolved, Routed, Slotted, Handshaking
<1>7. RoutesKept'
    <2>1. CASE routes' = WithoutRoute(c)
        BY <1>3, <1>4, <1>5, <2>1, RoutesDropped
    <2>2. CASE routes' = routes /\ conn[c].pc \notin Routed
        BY <1>3, <1>4, <1>5, <2>2, RoutesSame DEF SameRoute
    <2>. QED
        BY <2>1, <2>2
<1>8. SlotsKept'
    BY <1>3, <1>4, SlotsSame
<1>. QED
    BY <1>3, <1>4, <1>6, <1>7, <1>8, ConnMoves

(* A step that changes nothing but where the handler stands.               *)
LEMMA GotoKeeps ==
    ASSUME GatewayInv, NEW c \in Conns, NEW p \in PCs, Goto(c, p),
           \A x \in Record : /\ x.pc = p /\ Carries(x, conn[c]) /\ x.inst = conn[c].inst
                             /\ x.proto = conn[c].proto /\ x.tls = conn[c].tls
                             /\ x.verified = conn[c].verified /\ x.sent = conn[c].sent
                             => Sound(x),
           p \in Routed <=> conn[c].pc \in Routed, conn[c].pc \notin {"idle", "accepted"},
           UNCHANGED <<config, server, slots, routes>>
    PROVE  GatewayInv'
<1>. DEFINE x == [conn[c] EXCEPT !.pc = p]
<1>1. conn[c] \in Record
    BY ConnOf
<1>2. /\ x \in Record /\ x.pc = p /\ x.inst = conn[c].inst
      /\ x.proto = conn[c].proto /\ x.tls = conn[c].tls
      /\ x.verified = conn[c].verified /\ x.sent = conn[c].sent
    BY <1>1 DEF Record
<1>3. Carries(x, conn[c])
    BY <1>1 DEF Record, Carries
<1>4. Set(c, x)
    BY DEF Goto, Set
<1>. HIDE DEF x
<1>. QED
    BY <1>2, <1>3, <1>4, AdvanceKeeps

-----------------------------------------------------------------------------
(* The handshake                                                           *)

LEMMA TryAcquireKeeps ==
    ASSUME GatewayInv, NEW c \in Conns, NEW p \in {"transport", "detect"},
           NEW a \in Protocols \cup {"none"},
           conn[c].pc = "started", TryAcquire(c, p, a), UNCHANGED <<config, server, routes>>
    PROVE  GatewayInv'
<1>1. CASE slots < HandshakeLimit
    <2>. DEFINE x == [conn[c] EXCEPT !.held = TRUE, !.pc = p, !.proto = a]
    <2>1. conn[c] \in Record /\ Sound(conn[c]) /\ Live(conn[c])
        BY ConnOf
    <2>2. p \in PCs
        BY DEF PCs, Handshaking
    <2>3. /\ x \in Record /\ x.pc = p /\ x.held = TRUE /\ x.at = conn[c].at
          /\ x.sock = conn[c].sock /\ x.key = conn[c].key /\ x.inst = conn[c].inst
          /\ x.sent = conn[c].sent
        BY <2>1, <2>2 DEF Record
    <2>4. Set(c, x) /\ slots' = slots + 1
        BY <1>1 DEF TryAcquire
    <2>. HIDE DEF x
    <2>5. Sound(x) /\ Live(x) /\ SameRoute(c, x) /\ ~conn[c].held
        BY <2>1, <2>3 DEF Sound, Live, SameRoute, Unresolved, Resolved, Routed, Slotted,
                          Handshaking
    <2>6. RoutesKept'
        BY <2>3, <2>4, <2>5, RoutesSame
    <2>7. SlotsKept'
        BY <1>1, <2>3, <2>4, <2>5, SlotTaken
    <2>. QED
        BY <2>3, <2>4, <2>5, <2>6, <2>7, ConnMoves
<1>2. CASE ~(slots < HandshakeLimit)
    BY <1>2, QuitKeeps DEF TryAcquire, Routed
<1>. QED
    BY <1>1, <1>2

LEMMA TransportedKeeps ==
    ASSUME GatewayInv, NEW c \in Conns, conn[c].pc \in {"detect", "unified_tls", "transport"},
           NEW a \in Protocols, NEW t \in BOOLEAN, Transported(c, a, t),
           UNCHANGED <<config, server, slots, routes>>
    PROVE  GatewayInv'
<1>1. CASE tlsRequired /\ ~t
    BY <1>1, QuitKeeps DEF Transported, Routed
<1>2. CASE ~(tlsRequired /\ ~t)
    <2>. DEFINE x == [conn[c] EXCEPT !.proto = a, !.tls = t, !.pc = "login"]
    <2>1. conn[c] \in Record /\ Sound(conn[c])
        BY ConnOf
    <2>2. "login" \in PCs /\ "login" \notin Routed /\ conn[c].pc \notin Routed
        BY DEF PCs, Handshaking, Routed
    <2>3. /\ x \in Record /\ x.pc = "login" /\ x.tls = t /\ x.inst = conn[c].inst
          /\ x.sent = conn[c].sent
        BY <2>1, <2>2 DEF Record
    <2>4. Carries(x, conn[c])
        BY <2>1 DEF Record, Carries
    <2>5. Set(c, x)
        BY <1>2 DEF Transported
    <2>. HIDE DEF x
    <2>6. Sound(x)
        BY <1>2, <2>1, <2>3, <2>4 DEF Carries, Sound, Unresolved, Resolved, Routed, Slotted,
                                      Handshaking
    <2>. QED
        BY <2>2, <2>3, <2>4, <2>5, <2>6, AdvanceKeeps
<1>. QED
    BY <1>1, <1>2

LEMMA DetectKeeps ==
    ASSUME GatewayInv, NEW c \in Conns, NEW first \in {"silence", "zero", "star", "tls"},
           Detect(c, first)
    PROVE  GatewayInv'
<1>1. conn[c].pc = "detect" /\ UNCHANGED <<config, server, slots, routes>>
    BY DEF Detect
<1>2. conn[c] \in Record /\ Sound(conn[c])
    BY ConnOf
<1>3. ASSUME NEW a \in Protocols,
             Set(c, [conn[c] EXCEPT !.pc = "transport", !.proto = a])
      PROVE  GatewayInv'
    <2>. DEFINE x == [conn[c] EXCEPT !.pc = "transport", !.proto = a]
    <2>1. "transport" \in PCs
        BY DEF PCs, Handshaking
    <2>2. /\ x \in Record /\ x.pc = "transport" /\ x.inst = conn[c].inst
          /\ x.sent = conn[c].sent
        BY <1>2, <2>1 DEF Record
    <2>3. Carries(x, conn[c])
        BY <1>2 DEF Record, Carries
    <2>4. Set(c, x)
        BY <1>3
    <2>. HIDE DEF x
    <2>5. Sound(x)
        BY <1>1, <1>2, <2>2, <2>3
           DEF Carries, Sound, Unresolved, Resolved, Routed, Slotted, Handshaking
    <2>. QED
        BY <1>1, <2>2, <2>3, <2>4, <2>5, AdvanceKeeps DEF Routed
<1>4. CASE first = "tls"
    <2>1. Goto(c, "unified_tls")
        BY <1>4 DEF Detect
    <2>2. "unified_tls" \in PCs
        BY DEF PCs, Handshaking
    <2>3. \A x \in Record : x.pc = "unified_tls" /\ Carries(x, conn[c]) /\ x.inst = conn[c].inst
                            /\ x.sent = conn[c].sent => Sound(x)
        BY <1>1, <1>2 DEF Carries, Sound, Unresolved, Resolved, Routed, Slotted, Handshaking
    <2>. QED
        BY <1>1, <2>1, <2>2, <2>3, GotoKeeps DEF Routed
<1>5. CASE first = "star"
    <2>1. Transported(c, "redis", FALSE)
        BY <1>5 DEF Detect
    <2>. QED
        BY <1>1, <2>1, TransportedKeeps DEF Protocols
<1>6. CASE first = "silence"
    <2>1. Set(c, [conn[c] EXCEPT !.pc = "transport", !.proto = "mysql"])
        BY <1>6 DEF Detect
    <2>. QED
        BY <1>3, <2>1 DEF Protocols
<1>7. CASE first = "zero"
    <2>1. Set(c, [conn[c] EXCEPT !.pc = "transport", !.proto = "postgresql"])
        BY <1>7 DEF Detect
    <2>. QED
        BY <1>3, <2>1 DEF Protocols
<1>. QED
    BY <1>4, <1>5, <1>6, <1>7

(* A cancel request, in the clear or inside TLS.                           *)
LEMMA CancelArrives ==
    ASSUME GatewayInv, NEW c \in Conns, conn[c].pc \in {"transport", "login"}, Goto(c, "cancel"),
           UNCHANGED <<config, server, slots, routes>>
    PROVE  GatewayInv'
<1>1. conn[c] \in Record /\ Sound(conn[c])
    BY ConnOf
<1>2. "cancel" \in PCs
    BY DEF PCs
<1>3. \A x \in Record : x.pc = "cancel" /\ Carries(x, conn[c]) /\ x.inst = conn[c].inst
                        /\ x.sent = conn[c].sent => Sound(x)
    BY <1>1 DEF Carries, Sound, Unresolved, Resolved, Routed, Slotted, Handshaking
<1>. QED
    BY <1>2, <1>3, GotoKeeps DEF Routed

LEMMA PostgresTransportKeeps ==
    ASSUME GatewayInv, NEW c \in Conns,
           NEW first \in {"direct_tls", "ssl_request", "startup", "cancel"},
           PostgresTransport(c, first)
    PROVE  GatewayInv'
<1>1. conn[c].pc = "transport" /\ UNCHANGED <<config, server, slots, routes>>
    BY DEF PostgresTransport
<1>2. CASE first = "cancel"
    BY <1>1, <1>2, CancelArrives DEF PostgresTransport
<1>3. CASE first # "cancel"
    <2>. DEFINE t == first \in {"direct_tls", "ssl_request"}
    <2>1. Transported(c, "postgresql", t) /\ t \in BOOLEAN
        BY <1>3 DEF PostgresTransport
    <2>. HIDE DEF t
    <2>. QED
        BY <1>1, <2>1, TransportedKeeps DEF Protocols
<1>. QED
    BY <1>2, <1>3

LEMMA ResolveKeeps ==
    ASSUME GatewayInv, NEW c \in Conns, NEW a, NEW i \in Instances, Resolve(c, a, i)
    PROVE  GatewayInv'
<1>1. conn[c].pc = "login" /\ UNCHANGED <<config, server, slots, routes>>
    BY DEF Resolve
<1>2. CASE InstProtocol[i] = a
    <2>. DEFINE x == [conn[c] EXCEPT !.pc = "authenticate", !.inst = i]
    <2>1. conn[c] \in Record /\ Sound(conn[c])
        BY ConnOf
    <2>2. "authenticate" \in PCs
        BY DEF PCs, Handshaking
    <2>3. /\ x \in Record /\ x.pc = "authenticate" /\ x.inst = i /\ x.tls = conn[c].tls
          /\ x.sent = conn[c].sent
        BY <2>1, <2>2 DEF Record
    <2>4. Carries(x, conn[c])
        BY <2>1 DEF Record, Carries
    <2>5. Set(c, x)
        BY <1>2 DEF Resolve
    <2>. HIDE DEF x
    <2>6. Sound(x)
        BY <1>1, <2>1, <2>3, <2>4
           DEF Carries, Sound, Unresolved, Resolved, Routed, Slotted, Handshaking
    <2>. QED
        BY <1>1, <2>3, <2>4, <2>5, <2>6, AdvanceKeeps DEF Routed
<1>3. CASE InstProtocol[i] # a
    <2>1. Quit(c)
        BY <1>3 DEF Resolve
    <2>. QED
        BY <1>1, <2>1, QuitKeeps DEF Routed
<1>. QED
    BY <1>2, <1>3

LEMMA AuthenticateKeeps ==
    ASSUME GatewayInv, NEW c \in Conns, Authenticate(c)
    PROVE  GatewayInv'
<1>1. conn[c].pc = "authenticate" /\ Goto(c, "dial") /\ UNCHANGED <<config, server, slots, routes>>
    BY DEF Authenticate
<1>2. conn[c] \in Record /\ Sound(conn[c]) /\ "dial" \in PCs
    BY ConnOf DEF PCs, Handshaking
<1>3. \A x \in Record : x.pc = "dial" /\ Carries(x, conn[c]) /\ x.inst = conn[c].inst
                        /\ x.tls = conn[c].tls /\ x.sent = conn[c].sent => Sound(x)
    BY <1>1, <1>2 DEF Carries, Sound, Unresolved, Resolved, Routed, Slotted, Handshaking
<1>. QED
    BY <1>1, <1>2, <1>3, GotoKeeps DEF Routed

LEMMA HandshakeKeeps ==
    ASSUME GatewayInv, NEW c \in Conns, Handshake(c)
    PROVE  GatewayInv'
<1>1. CASE HandleProtocolConnection(c)
    <2>1. conn[c].pc = "started" /\ TryAcquire(c, "transport", conn[c].at)
          /\ mode = "independent" /\ UNCHANGED <<config, server, routes>>
        BY <1>1 DEF HandleProtocolConnection
    <2>2. conn[c].at \in Protocols
        BY <2>1, ConnOf DEF Live, Listeners, Sound, GatewayInv, ServerTyped
    <2>. QED
        BY <2>1, <2>2, TryAcquireKeeps
<1>2. CASE HandleUnifiedConnection(c)
    BY <1>2, TryAcquireKeeps DEF HandleUnifiedConnection
<1>3. CASE \E first \in {"silence", "zero", "star", "tls"} : Detect(c, first)
    BY <1>3, DetectKeeps
<1>4. CASE \E a \in {"postgresql", "redis"} : UnifiedTLS(c, a)
    BY <1>4, TransportedKeeps DEF UnifiedTLS, Protocols
<1>5. CASE \E t \in BOOLEAN : MySQLTransport(c, t) \/ RedisTransport(c, t)
    BY <1>5, TransportedKeeps DEF MySQLTransport, RedisTransport, Protocols
<1>6. CASE \E first \in {"direct_tls", "ssl_request", "startup", "cancel"} :
              PostgresTransport(c, first)
    BY <1>6, PostgresTransportKeeps
<1>7. CASE \E i \in Instances : MySQLLogin(c, i) \/ PostgresLogin(c, i) \/ RedisLogin(c, i)
    BY <1>7, ResolveKeeps DEF MySQLLogin, PostgresLogin, RedisLogin
<1>8. CASE Authenticate(c)
    BY <1>8, AuthenticateKeeps
<1>. QED
    BY <1>1, <1>2, <1>3, <1>4, <1>5, <1>6, <1>7, <1>8 DEF Handshake

-----------------------------------------------------------------------------
(* The login at the upstream database                                      *)

LEMMA DialKeeps ==
    ASSUME GatewayInv, NEW c \in Conns, NEW a, DialUpstream(c, a)
    PROVE  GatewayInv'
<1>. DEFINE v == HandshakeClient(conn[c].inst)
            x == [conn[c] EXCEPT !.pc = "upstream", !.up = TRUE, !.verified = v]
<1>1. conn[c].pc = "dial" /\ Set(c, x) /\ UNCHANGED <<config, server, slots, routes>>
    BY DEF DialUpstream
<1>2. v \in BOOLEAN /\ (v <=> InstTLS[conn[c].inst] # "disable")
    BY DEF HandshakeClient
<1>3. conn[c] \in Record /\ Sound(conn[c]) /\ "upstream" \in PCs
    BY ConnOf DEF PCs, Handshaking
<1>. HIDE DEF v
<1>4. /\ x \in Record /\ x.pc = "upstream" /\ x.inst = conn[c].inst /\ x.tls = conn[c].tls
      /\ x.sent = conn[c].sent /\ x.verified = v
    BY <1>2, <1>3 DEF Record
<1>5. Carries(x, conn[c])
    BY <1>3 DEF Record, Carries
<1>. HIDE DEF x
<1>6. Sound(x)
    BY <1>1, <1>2, <1>3, <1>4, <1>5
       DEF Carries, Sound, Unresolved, Resolved, Routed, Slotted, Handshaking
<1>. QED
    BY <1>1, <1>4, <1>5, <1>6, AdvanceKeeps DEF Routed

(* The account's password goes out, in the clear only where it may.        *)
LEMMA SendKeeps ==
    ASSUME GatewayInv, NEW c \in Conns, conn[c].pc \in {"upstream", "switched"},
           NEW form \in {"clear", "hashed"}, NEW p \in {"upstream", "switched", "granted"},
           form = "clear" => \/ conn[c].verified
                             \/ InstTLS[conn[c].inst] = "disable" /\ conn[c].proto # "mysql",
           Send(c, form, p), UNCHANGED <<config, server, slots, routes>>
    PROVE  GatewayInv'
<1>. DEFINE x == [conn[c] EXCEPT !.sent = form, !.pc = p]
<1>1. Set(c, x)
    BY DEF Send
<1>2. conn[c] \in Record /\ Sound(conn[c]) /\ p \in PCs
    BY ConnOf DEF PCs, Handshaking
<1>3. /\ x \in Record /\ x.pc = p /\ x.inst = conn[c].inst /\ x.tls = conn[c].tls
      /\ x.sent = form /\ x.verified = conn[c].verified /\ x.proto = conn[c].proto
    BY <1>2 DEF Record
<1>4. Carries(x, conn[c])
    BY <1>2 DEF Record, Carries
<1>. HIDE DEF x
<1>5. Sound(x)
    BY <1>2, <1>3, <1>4
       DEF Carries, Sound, Unresolved, Resolved, Routed, Slotted, Handshaking
<1>. QED
    BY <1>1, <1>3, <1>4, <1>5, AdvanceKeeps DEF Routed

(* An upstream that is not verified has a policy that says so.             *)
LEMMA Unverified ==
    ASSUME GatewayInv, NEW c \in Conns, conn[c].pc = "upstream", ~conn[c].verified
    PROVE  InstTLS[conn[c].inst] = "disable"
BY ConnOf DEF Sound

LEMMA AuthOKKeeps ==
    ASSUME GatewayInv, NEW c \in Conns, PostgresAuthOK(c)
    PROVE  GatewayInv'
<1>. DEFINE x == [conn[c] EXCEPT !.pc = "starting", !.sent = "none"]
<1>1. conn[c].pc = "upstream" /\ conn[c].at # "admin" /\ Set(c, x)
      /\ UNCHANGED <<config, server, slots, routes>>
    BY DEF PostgresAuthOK
<1>2. conn[c] \in Record /\ Sound(conn[c]) /\ "starting" \in PCs
    BY ConnOf DEF PCs, Handshaking
<1>3. /\ x \in Record /\ x.pc = "starting" /\ x.inst = conn[c].inst /\ x.tls = conn[c].tls
      /\ x.sent = "none"
    BY <1>2 DEF Record
<1>4. Carries(x, conn[c])
    BY <1>2 DEF Record, Carries
<1>. HIDE DEF x
<1>5. Sound(x) /\ x.key = NoOne
    BY <1>1, <1>2, <1>3, <1>4
       DEF Carries, Sound, Unresolved, Resolved, Routed, Slotted, Handshaking
<1>. QED
    BY <1>1, <1>3, <1>4, <1>5, AdvanceKeeps DEF Routed

LEMMA LoggedInKeeps ==
    ASSUME GatewayInv, NEW c \in Conns, NEW a, NEW p \in {"starting", "granted", "switched"},
           LoggedIn(c, a, p)
    PROVE  GatewayInv'
<1>. DEFINE x == [conn[c] EXCEPT !.pc = "finish", !.sent = "none", !.verified = FALSE]
<1>1. conn[c].pc = p /\ conn[c].at # "admin" /\ Set(c, x)
      /\ UNCHANGED <<config, server, slots, routes>>
    BY DEF LoggedIn
<1>2. conn[c] \in Record /\ Sound(conn[c]) /\ "finish" \in PCs
    BY ConnOf DEF PCs, Handshaking
<1>3. /\ x \in Record /\ x.pc = "finish" /\ x.inst = conn[c].inst /\ x.tls = conn[c].tls
      /\ x.sent = "none"
    BY <1>2 DEF Record
<1>4. Carries(x, conn[c])
    BY <1>2 DEF Record, Carries
<1>. HIDE DEF x
<1>5. Sound(x) /\ (p # "starting" => x.key = NoOne)
    BY <1>1, <1>2, <1>3, <1>4
       DEF Carries, Sound, Unresolved, Resolved, Routed, Slotted, Handshaking
<1>. QED
    BY <1>1, <1>3, <1>4, <1>5, AdvanceKeeps DEF Routed

(* A session is given its cancellation key, and its route is registered.   *)
LEMMA BackendKeyKeeps ==
    ASSUME GatewayInv, NEW c \in Conns, NEW k \in Keys, BackendKey(c, k)
    PROVE  GatewayInv'
<1>. DEFINE x == [conn[c] EXCEPT !.key = k]
            r == [key |-> k, conn |-> c, inst |-> conn[c].inst]
<1>1. conn[c].pc = "starting" /\ conn[c].key = NoOne /\ Set(c, x) /\ routes' = routes \cup {r}
      /\ UNCHANGED <<config, server, slots>>
    BY DEF BackendKey
<1>2. conn[c] \in Record /\ Sound(conn[c]) /\ Live(conn[c])
    BY ConnOf
<1>3. /\ x \in Record /\ x.pc = "starting" /\ x.inst = conn[c].inst /\ x.tls = conn[c].tls
      /\ x.sent = conn[c].sent /\ x.at = conn[c].at /\ x.sock = conn[c].sock
      /\ x.held = conn[c].held /\ x.key = k
    BY <1>1, <1>2 DEF Record
<1>. HIDE DEF x
<1>4. Sound(x) /\ Live(x) /\ conn[c].inst \in Instances
    BY <1>1, <1>2, <1>3 DEF Sound, Live, Unresolved, Resolved, Routed, Slotted, Handshaking
<1>5. SlotsKept'
    BY <1>1, <1>3, SlotsSame
<1>6. r \in [key : Keys, conn : Conns, inst : Instances]
      /\ r.key = k /\ r.conn = c /\ r.inst = conn[c].inst
    BY <1>4
<1>. HIDE DEF r
<1>7. conn'[c] = x /\ \A d \in Conns \ {c} : conn'[d] = conn[d]
    BY <1>1 DEF Set, GatewayInv
<1>8. RoutesKept'
    <2>1. IsFiniteSet(routes') /\ routes' \subseteq [key : Keys, conn : Conns, inst : Instances]
        BY <1>1, <1>6, FS_AddElement DEF GatewayInv, RoutesKept
    <2>2. ASSUME NEW q \in routes'
          PROVE  conn'[q.conn].pc \in Routed /\ conn'[q.conn].key = q.key
                 /\ conn'[q.conn].inst = q.inst
        <3>1. CASE q = r
            BY <1>3, <1>6, <1>7, <3>1 DEF Routed
        <3>2. CASE q \in routes
            <4>1. /\ q.conn \in Conns /\ q.key # NoOne /\ conn[q.conn].pc \in Routed
                  /\ conn[q.conn].key = q.key /\ conn[q.conn].inst = q.inst
                BY <3>2, GatewayAssumption DEF GatewayInv, RoutesKept
            <4>. QED
                BY <1>1, <1>7, <4>1
        <3>. QED
            BY <1>1, <2>2, <3>1, <3>2
    <2>3. ASSUME NEW d \in Conns, conn'[d].pc \in Routed, conn'[d].key # NoOne
          PROVE  [key |-> conn'[d].key, conn |-> d, inst |-> conn'[d].inst] \in routes'
        <3>1. CASE d = c
            <4>1. [key |-> conn'[d].key, conn |-> d, inst |-> conn'[d].inst] = r
                BY <1>3, <1>7, <3>1 DEF r
            <4>. QED
                BY <1>1, <4>1
        <3>2. CASE d # c
            BY <1>1, <1>7, <2>3, <3>2 DEF GatewayInv, RoutesKept
        <3>. QED
            BY <3>1, <3>2
    <2>. QED
        BY <2>1, <2>2, <2>3 DEF RoutesKept
<1>. QED
    BY <1>1, <1>3, <1>4, <1>5, <1>8, ConnMoves

LEMMA ProbeKeeps ==
    ASSUME GatewayInv, NEW c \in Conns, NEW i \in Instances, Probe(c, i)
    PROVE  GatewayInv'
<1>. DEFINE x == [Idle EXCEPT !.pc = "dial", !.at = "admin", !.inst = i,
                              !.proto = InstProtocol[i]]
<1>1. conn[c] = Idle /\ Set(c, x) /\ UNCHANGED <<config, server, slots, routes>>
    BY DEF Probe
<1>2. "dial" \in PCs /\ InstProtocol[i] \in Protocols
    BY GatewayAssumption DEF PCs, Handshaking
<1>3. /\ x \in Record /\ x.pc = "dial" /\ x.at = "admin" /\ x.inst = i
      /\ x.sent = Idle.sent /\ x.key = Idle.key /\ x.held = Idle.held /\ x.sock = Idle.sock
    BY <1>2, IdleRecord DEF Record
<1>. HIDE DEF x
<1>4. Sound(x) /\ Live(x)
    BY <1>3, IdleRecord DEF Sound, Live, Unresolved, Resolved, Routed, Slotted, Handshaking
<1>5. SameRoute(c, x)
    BY <1>1, <1>3, IdleRecord DEF SameRoute, Routed
<1>6. RoutesKept' /\ SlotsKept'
    BY <1>1, <1>3, <1>5, RoutesSame, SlotsSame
<1>. QED
    BY <1>1, <1>3, <1>4, <1>6, ConnMoves

LEMMA UpstreamKeeps ==
    ASSUME GatewayInv, NEW c \in Conns, Upstream(c)
    PROVE  GatewayInv'
<1>1. CASE DialMySQL(c) \/ DialPostgres(c) \/ DialRedis(c)
    BY <1>1, DialKeeps DEF DialMySQL, DialPostgres, DialRedis
<1>2. CASE \E form \in {"clear", "hashed"} : PostgresChallenge(c, form) \/ ProbePostgres(c, form)
    BY <1>2, SendKeeps DEF PostgresChallenge, ProbePostgres, CleartextAllowed
<1>3. CASE PostgresSCRAM(c) \/ MySQLUpstream(c) \/ MySQLAuthSwitch(c)
    BY <1>3, SendKeeps DEF PostgresSCRAM, MySQLUpstream, MySQLAuthSwitch
<1>4. CASE MySQLFullAuth(c)
    BY <1>4, SendKeeps DEF MySQLFullAuth
<1>5. CASE RedisUpstream(c) \/ ProbeRedis(c)
    <2>1. /\ conn[c].pc = "upstream" /\ conn[c].proto = "redis" /\ Send(c, "clear", "granted")
          /\ UNCHANGED <<config, server, slots, routes>>
        BY <1>5 DEF RedisUpstream, ProbeRedis
    <2>2. conn[c].verified \/ InstTLS[conn[c].inst] = "disable"
        BY <2>1, Unverified
    <2>. QED
        BY <2>1, <2>2, SendKeeps
<1>6. CASE PostgresAuthOK(c)
    BY <1>6, AuthOKKeeps
<1>7. CASE \E k \in Keys : BackendKey(c, k)
    BY <1>7, BackendKeyKeeps
<1>8. CASE PostgresReady(c) \/ MySQLReady(c) \/ RedisReady(c)
    BY <1>8, LoggedInKeeps DEF PostgresReady, MySQLReady, RedisReady
<1>9. CASE \E i \in Instances : Probe(c, i)
    BY <1>9, ProbeKeeps
<1>. QED
    BY <1>1, <1>2, <1>3, <1>4, <1>5, <1>6, <1>7, <1>8, <1>9 DEF Upstream

-----------------------------------------------------------------------------
(* Cancel requests                                                         *)

(* The one route with a key leads to the one session that holds it.        *)
LEMMA LookupFindsHolder ==
    ASSUME GatewayInv, NEW k \in Keys, NEW r \in Lookup(k)
    PROVE  /\ r \in [key : Keys, conn : Conns, inst : Instances]
           /\ Holders(k) = {<<r.conn, r.inst>>}
<1>. DEFINE E == {e \in routes : e.key = k}
<1>1. Cardinality(E) = 1 /\ r \in E
    BY DEF Lookup
<1>2. IsFiniteSet(E)
    BY FS_Subset DEF GatewayInv, RoutesKept
<1>3. PICK z : E = {z}
    BY <1>1, <1>2, FS_Singleton
<1>4. /\ r \in routes /\ r.key = k /\ r \in [key : Keys, conn : Conns, inst : Instances]
      /\ \A e \in routes : e.key = k => e = r
    BY <1>1, <1>3 DEF GatewayInv, RoutesKept
<1>5. /\ r.conn \in Conns /\ conn[r.conn].pc \in Routed /\ conn[r.conn].key = k
      /\ conn[r.conn].inst = r.inst
    BY <1>4 DEF GatewayInv, RoutesKept
<1>6. ASSUME NEW d \in Conns, conn[d].key = k, conn[d].pc # "forward"
      PROVE  d = r.conn
    <2>1. k # NoOne
        BY GatewayAssumption
    <2>2. conn[d].pc \in Routed
        BY <1>6, <2>1, ConnOf DEF Sound
    <2>. DEFINE e == [key |-> conn[d].key, conn |-> d, inst |-> conn[d].inst]
    <2>3. e \in routes /\ e.key = k /\ e.conn = d
        BY <1>6, <2>1, <2>2 DEF GatewayInv, RoutesKept
    <2>. HIDE DEF e
    <2>. QED
        BY <1>4, <2>3
<1>7. {e \in Conns : conn[e].key = k /\ conn[e].pc # "forward"} = {r.conn}
    BY <1>5, <1>6 DEF Routed
<1>8. Holders(k) = {<<r.conn, r.inst>>}
    BY <1>5, <1>7 DEF Holders
<1>. QED
    BY <1>4, <1>8

LEMMA CancelLookupKeeps ==
    ASSUME GatewayInv, NEW c \in Conns, NEW k \in Keys, CancelLookup(c, k)
    PROVE  GatewayInv'
<1>1. conn[c].pc = "cancel" /\ UNCHANGED <<config, server, slots, routes>>
    BY DEF CancelLookup
<1>2. CASE Quit(c)
    BY <1>1, <1>2, QuitKeeps DEF Routed
<1>3. ASSUME NEW r \in Lookup(k),
             Set(c, [conn[c] EXCEPT !.pc = "forward", !.inst = r.inst, !.key = k,
                                    !.aim = Holders(k)])
      PROVE  GatewayInv'
    <2>. DEFINE aim == Holders(k)
                x == [conn[c] EXCEPT !.pc = "forward", !.inst = r.inst, !.key = k, !.aim = aim]
    <2>1. /\ r.conn \in Conns /\ r.inst \in Instances /\ aim = {<<r.conn, r.inst>>}
          /\ aim \in SUBSET (Conns \X Instances)
        BY LookupFindsHolder
    <2>2. conn[c] \in Record /\ Sound(conn[c]) /\ Live(conn[c]) /\ "forward" \in PCs
        BY ConnOf DEF PCs
    <2>3. Set(c, x)
        BY <1>3
    <2>. HIDE DEF aim
    <2>4. /\ x \in Record /\ x.pc = "forward" /\ x.inst = r.inst /\ x.key = k /\ x.aim = aim
          /\ x.at = conn[c].at /\ x.sock = conn[c].sock /\ x.held = conn[c].held
          /\ x.sent = conn[c].sent
        BY <2>1, <2>2 DEF Record
    <2>. HIDE DEF x
    <2>5. \E d \in Conns : x.aim = {<<d, x.inst>>}
        BY <2>1, <2>4
    <2>6. Sound(x) /\ Live(x)
        BY <1>1, <2>1, <2>2, <2>4, <2>5
           DEF Sound, Live, Unresolved, Resolved, Routed, Slotted, Handshaking
    <2>7. RoutesKept' /\ SlotsKept'
        BY <1>1, <2>3, <2>4, RoutesSame, SlotsSame DEF SameRoute, Routed
    <2>. QED
        BY <1>1, <2>3, <2>4, <2>6, <2>7, ConnMoves
<1>. QED
    BY <1>2, <1>3 DEF CancelLookup

-----------------------------------------------------------------------------
(* The end of a connection, and its beginning                              *)

LEMMA FinishKeeps ==
    ASSUME GatewayInv, NEW c \in Conns, Finish(c)
    PROVE  GatewayInv'
<1>1. conn[c].pc = "finish" /\ UNCHANGED <<config, server>>
    BY DEF Finish
<1>2. CASE conn[c].sock
    <2>. DEFINE y == [conn[c] EXCEPT !.pc = "audit", !.tls = FALSE]
                x == [y EXCEPT !.held = FALSE]
    <2>1. conn[c] \in Record /\ Sound(conn[c]) /\ Live(conn[c]) /\ "audit" \in PCs
        BY ConnOf DEF PCs
    <2>2. /\ Set(c, x) /\ routes' = routes
          /\ slots' = IF conn[c].held THEN slots - 1 ELSE slots
        BY <1>2 DEF Finish, Release
    <2>3. /\ y \in Record /\ y.pc = "audit" /\ y.inst = conn[c].inst /\ y.key = conn[c].key
          /\ y.at = conn[c].at /\ y.sock = conn[c].sock /\ y.sent = conn[c].sent
        BY <2>1 DEF Record
    <2>. HIDE DEF y
    <2>4. /\ x \in Record /\ x.pc = "audit" /\ x.inst = conn[c].inst /\ x.key = conn[c].key
          /\ x.at = conn[c].at /\ x.sock = conn[c].sock /\ x.sent = conn[c].sent
          /\ x.held = FALSE
        BY <2>3 DEF Record
    <2>. HIDE DEF x
    <2>5. Sound(x) /\ Live(x)
        BY <1>1, <2>1, <2>4
           DEF Sound, Live, Unresolved, Resolved, Routed, Slotted, Handshaking
    <2>6. RoutesKept'
        BY <1>1, <2>2, <2>4, RoutesSame DEF SameRoute, Routed
    <2>7. SlotsKept'
        BY <2>2, <2>4, SlotGivenBack
    <2>. QED
        BY <1>1, <2>2, <2>4, <2>5, <2>6, <2>7, ConnMoves
<1>3. CASE ~conn[c].sock
    <2>1. Quit(c) /\ routes' = WithoutRoute(c) /\ UNCHANGED slots
        BY <1>3 DEF Finish
    <2>. QED
        BY <1>1, <2>1, QuitKeeps
<1>. QED
    BY <1>2, <1>3

LEMMA AuditKeeps ==
    ASSUME GatewayInv, NEW c \in Conns, Audit(c)
    PROVE  GatewayInv'
<1>1. conn[c].pc = "audit" /\ Goto(c, "relay") /\ UNCHANGED <<config, server, slots, routes>>
    BY DEF Audit
<1>2. conn[c] \in Record /\ Sound(conn[c]) /\ "relay" \in PCs
    BY ConnOf DEF PCs
<1>3. \A x \in Record : x.pc = "relay" /\ Carries(x, conn[c]) /\ x.inst = conn[c].inst
                        /\ x.sent = conn[c].sent => Sound(x)
    BY <1>1, <1>2 DEF Carries, Sound, Unresolved, Resolved, Routed, Slotted, Handshaking
<1>. QED
    BY <1>1, <1>2, <1>3, GotoKeeps DEF Routed

LEMMA RelayEndsKeeps ==
    ASSUME GatewayInv, NEW c \in Conns, RelayEnds(c)
    PROVE  GatewayInv'
<1>. DEFINE x == [conn[c] EXCEPT !.pc = "ending", !.sock = FALSE, !.up = FALSE]
<1>1. conn[c] \in Record /\ Sound(conn[c]) /\ Live(conn[c]) /\ "ending" \in PCs
    BY ConnOf DEF PCs
<1>2. conn[c].pc = "relay" /\ Set(c, x) /\ UNCHANGED <<config, server, slots, routes>>
    BY DEF RelayEnds
<1>3. /\ x \in Record /\ x.pc = "ending" /\ x.inst = conn[c].inst /\ x.key = conn[c].key
      /\ x.at = conn[c].at /\ x.sock = FALSE /\ x.sent = conn[c].sent
      /\ x.held = conn[c].held
    BY <1>1 DEF Record
<1>. HIDE DEF x
<1>4. Sound(x) /\ Live(x)
    BY <1>1, <1>2, <1>3
       DEF Sound, Live, Unresolved, Resolved, Routed, Slotted, Handshaking
<1>5. RoutesKept'
    BY <1>2, <1>3, RoutesSame DEF SameRoute, Routed
<1>6. SlotsKept'
    BY <1>2, <1>3, SlotsSame
<1>. QED
    BY <1>2, <1>3, <1>4, <1>5, <1>6, ConnMoves

LEMMA FailKeeps ==
    ASSUME GatewayInv, NEW c \in Conns, Fail(c)
    PROVE  GatewayInv'
BY QuitKeeps DEF Fail, Handshaking

(* An idle record in the place of a connection that has no route.          *)
LEMMA IdleSound == Sound(Idle) /\ Live(Idle)
BY IdleRecord DEF Sound, Live, Unresolved, Resolved, Routed, Slotted, Handshaking

LEMMA LeaveKeeps ==
    ASSUME GatewayInv, NEW c \in Conns, Leave(c)
    PROVE  GatewayInv'
<1>. DEFINE x == [Idle EXCEPT !.held = FALSE]
<1>1. /\ Set(c, x) /\ slots' = (IF conn[c].held THEN slots - 1 ELSE slots)
      /\ routes' = WithoutRoute(c) /\ UNCHANGED <<config, server>>
    BY DEF Leave, Release
<1>2. /\ x \in Record /\ x.pc = Idle.pc /\ x.at = Idle.at /\ x.inst = Idle.inst
      /\ x.sent = Idle.sent /\ x.key = Idle.key /\ x.held = FALSE /\ x.sock = Idle.sock
    BY IdleRecord DEF Record
<1>. HIDE DEF x
<1>3. Sound(x) /\ Live(x)
    BY <1>2, IdleRecord DEF Sound, Live, Unresolved, Resolved, Routed, Slotted, Handshaking
<1>4. RoutesKept'
    BY <1>1, <1>2, IdleRecord, RoutesDropped
<1>5. SlotsKept'
    BY <1>1, <1>2, SlotGivenBack
<1>. QED
    BY <1>1, <1>2, <1>3, <1>4, <1>5, ConnMoves

LEMMA AcceptKeeps ==
    ASSUME GatewayInv, NEW l \in Listeners, NEW c \in Conns, Accept(l, c)
    PROVE  GatewayInv'
<1>. DEFINE x == [Idle EXCEPT !.pc = "accepted", !.at = l, !.sock = TRUE]
<1>1. /\ phase = "serving" /\ loop[l] = "accept" /\ conn[c] = Idle /\ Set(c, x)
      /\ UNCHANGED <<config, server, slots, routes>>
    BY DEF Accept
<1>2. "accepted" \in PCs /\ l \in Protocols \cup {"unified"} /\ l \notin {"none", "admin"}
    BY DEF PCs, GatewayInv, ServerTyped, Listeners, Protocols
<1>3. /\ x \in Record /\ x.pc = "accepted" /\ x.at = l /\ x.inst = Idle.inst
      /\ x.sent = Idle.sent /\ x.key = Idle.key /\ x.held = Idle.held
    BY <1>2, IdleRecord DEF Record
<1>. HIDE DEF x
<1>4. Sound(x) /\ Live(x)
    BY <1>1, <1>2, <1>3, IdleRecord
       DEF Sound, Live, Unresolved, Resolved, Routed, Slotted, Handshaking
<1>5. RoutesKept' /\ SlotsKept'
    BY <1>1, <1>3, IdleRecord, RoutesSame, SlotsSame DEF SameRoute, Routed
<1>. QED
    BY <1>1, <1>3, <1>4, <1>5, ConnMoves

LEMMA AdmitKeeps ==
    ASSUME GatewayInv, NEW c \in Conns, Admit(c)
    PROVE  GatewayInv'
<1>1. conn[c].pc = "accepted" /\ UNCHANGED <<config, server, slots, routes>>
    BY DEF Admit
<1>2. conn[c] \in Record /\ Sound(conn[c]) /\ Live(conn[c])
    BY ConnOf
<1>3. conn[c].held = FALSE /\ conn[c].key = NoOne
    BY <1>1, <1>2 DEF Sound, Slotted, Handshaking, Routed, Record
<1>4. CASE shut
    <2>1. Set(c, Idle)
        BY <1>4 DEF Admit, Add
    <2>2. RoutesKept' /\ SlotsKept'
        BY <1>1, <1>3, <2>1, IdleRecord, RoutesSame, SlotsSame DEF SameRoute, Routed
    <2>. QED
        BY <1>1, <2>1, <2>2, IdleRecord, IdleSound, ConnMoves
<1>5. CASE ~shut
    <2>. DEFINE x == [conn[c] EXCEPT !.pc = "started"]
    <2>1. Set(c, x) /\ "started" \in PCs
        BY <1>5 DEF Admit, Add, Goto, Set, PCs
    <2>2. /\ x \in Record /\ x.pc = "started" /\ x.at = conn[c].at /\ x.inst = conn[c].inst
          /\ x.sent = conn[c].sent /\ x.key = conn[c].key /\ x.held = conn[c].held
        BY <1>2, <2>1 DEF Record
    <2>. HIDE DEF x
    <2>3. Sound(x) /\ Live(x)
        BY <1>1, <1>2, <1>3, <1>5, <2>2
           DEF Sound, Live, Unresolved, Resolved, Routed, Slotted, Handshaking
    <2>4. RoutesKept' /\ SlotsKept'
        BY <1>1, <1>3, <2>1, <2>2, RoutesSame, SlotsSame DEF SameRoute, Routed
    <2>. QED
        BY <1>1, <2>1, <2>2, <2>3, <2>4, ConnMoves
<1>. QED
    BY <1>4, <1>5

-----------------------------------------------------------------------------
(* The server                                                              *)

(* x is y, with its socket as it was or closed.                            *)
Twin(x, y) ==
    /\ x.pc = y.pc /\ x.at = y.at /\ x.proto = y.proto /\ x.tls = y.tls /\ x.held = y.held
    /\ x.inst = y.inst /\ x.verified = y.verified /\ x.sent = y.sent /\ x.key = y.key
    /\ x.aim = y.aim /\ (x.sock => y.sock)

LEMMA ServerMoves ==
    ASSUME GatewayInv, ServerTyped', UNCHANGED <<tlsRequired, slots, routes>>,
           conn' \in [Conns -> Record],
           \A c \in Conns : Twin(conn'[c], conn[c]) /\ Live(conn[c])'
    PROVE  GatewayInv'
<1>1. ASSUME NEW c \in Conns
      PROVE  Sound(conn[c])'
    <2>1. Sound(conn[c]) /\ Twin(conn'[c], conn[c])
        BY ConnOf
    <2>. QED
        BY <2>1 DEF Sound, Twin
<1>2. SlotsKept'
    <2>1. Leases' = Leases
        BY DEF Leases, Twin
    <2>. QED
        BY <2>1 DEF GatewayInv, SlotsKept
<1>3. RoutesKept'
    <2>1. IsFiniteSet(routes') /\ routes' \subseteq [key : Keys, conn : Conns, inst : Instances]
        BY DEF GatewayInv, RoutesKept
    <2>2. \A r \in routes' : conn'[r.conn].pc \in Routed /\ conn'[r.conn].key = r.key
                             /\ conn'[r.conn].inst = r.inst
        BY DEF GatewayInv, RoutesKept, Twin
    <2>3. \A c \in Conns : conn'[c].pc \in Routed /\ conn'[c].key # NoOne =>
             [key |-> conn'[c].key, conn |-> c, inst |-> conn'[c].inst] \in routes'
        BY DEF GatewayInv, RoutesKept, Twin
    <2>. QED
        BY <2>1, <2>2, <2>3 DEF RoutesKept
<1>. QED
    BY <1>1, <1>2, <1>3 DEF GatewayInv

LEMMA TwinSelf ==
    ASSUME GatewayInv, conn' = conn
    PROVE  conn' \in [Conns -> Record] /\ \A c \in Conns : Twin(conn'[c], conn[c])
BY DEF GatewayInv, Twin

LEMMA TwinClosed ==
    ASSUME GatewayInv, closeAll
    PROVE  /\ conn' \in [Conns -> Record]
           /\ \A c \in Conns : /\ Twin(conn'[c], conn[c])
                               /\ conn'[c].pc \notin {"idle", "accepted"} => ~conn'[c].sock
<1>1. ASSUME NEW c \in Conns
      PROVE  /\ conn'[c] \in Record /\ Twin(conn'[c], conn[c])
             /\ conn'[c].pc \notin {"idle", "accepted"} => ~conn'[c].sock
    <2>. DEFINE b == IF Serving(c) THEN FALSE ELSE conn[c].sock
                x == [conn[c] EXCEPT !.sock = b]
    <2>1. conn[c] \in Record
        BY ConnOf
    <2>2. b \in BOOLEAN /\ (b => conn[c].sock) /\ (conn[c].pc \notin {"idle", "accepted"} => ~b)
        BY <2>1 DEF Serving, Record
    <2>3. conn'[c] = x
        BY DEF closeAll
    <2>. HIDE DEF b
    <2>4. /\ x \in Record /\ x.pc = conn[c].pc /\ x.at = conn[c].at /\ x.proto = conn[c].proto
          /\ x.tls = conn[c].tls /\ x.held = conn[c].held /\ x.inst = conn[c].inst
          /\ x.verified = conn[c].verified /\ x.sent = conn[c].sent /\ x.key = conn[c].key
          /\ x.aim = conn[c].aim /\ x.sock = b
        BY <2>1, <2>2 DEF Record
    <2>. HIDE DEF x
    <2>. QED
        BY <2>2, <2>3, <2>4 DEF Twin
<1>2. conn' = [c \in Conns |-> conn'[c]]
    BY DEF closeAll
<1>3. conn' \in [Conns -> Record]
    BY <1>1, <1>2
<1>. QED
    BY <1>1, <1>3

(* A step that closes the connection set.                                  *)
LEMMA CloseAllKeeps ==
    ASSUME GatewayInv, closeAll, UNCHANGED <<tlsRequired, slots, routes>>, ServerTyped',
           Listeners' = Listeners,
           \A c \in Conns : conn[c].at \notin {"none", "admin"} =>
              phase' = "serving" /\ loop'[conn[c].at] # "returned"
    PROVE  GatewayInv'
<1>1. /\ conn' \in [Conns -> Record]
      /\ \A c \in Conns : /\ Twin(conn'[c], conn[c])
                          /\ conn'[c].pc \notin {"idle", "accepted"} => ~conn'[c].sock
    BY TwinClosed
<1>2. ASSUME NEW c \in Conns
      PROVE  Live(conn[c])'
    <2>1. conn'[c].at = conn[c].at /\ Live(conn[c])
        BY <1>1, ConnOf DEF Twin
    <2>. QED
        BY <1>1, <2>1 DEF Live
<1>. QED
    BY <1>1, <1>2, ServerMoves

(* A step that leaves the connections alone.                               *)
LEMMA ServerOnlyKeeps ==
    ASSUME GatewayInv, UNCHANGED <<tlsRequired, shut, slots, conn, routes>>, ServerTyped',
           Listeners' = Listeners,
           \A c \in Conns : conn[c].at \notin {"none", "admin"} =>
              phase' = "serving" /\ loop'[conn[c].at] # "returned"
    PROVE  GatewayInv'
<1>1. ASSUME NEW c \in Conns
      PROVE  Live(conn[c])'
    <2>1. Live(conn[c])
        BY ConnOf
    <2>. QED
        BY <2>1 DEF Live
<1>. QED
    BY <1>1, TwinSelf, ServerMoves

LEMMA LoopStep ==
    ASSUME GatewayInv, NEW l \in Listeners, NEW s \in {"failing", "drain", "returned"},
           loop' = [loop EXCEPT ![l] = s], s = "returned" => Drained(l)
    PROVE  /\ loop' \in [Listeners -> {"accept", "failing", "drain", "returned"}]
           /\ \A c \in Conns : conn[c].at \notin {"none", "admin"} =>
                 loop'[conn[c].at] # "returned"
<1>1. loop \in [Listeners -> {"accept", "failing", "drain", "returned"}]
    BY DEF GatewayInv, ServerTyped
<1>2. ASSUME NEW c \in Conns, conn[c].at \notin {"none", "admin"}
      PROVE  loop'[conn[c].at] # "returned"
    <2>1. conn[c].at \in Listeners /\ loop[conn[c].at] # "returned"
        BY <1>2, ConnOf DEF Live
    <2>. QED
        BY <1>1, <2>1 DEF Drained
<1>. QED
    BY <1>1, <1>2

(* Connections of the accept loops exist only while the gateway serves.    *)
LEMMA OnlyServing ==
    ASSUME GatewayInv, NEW c \in Conns, conn[c].at \notin {"none", "admin"}
    PROVE  conn[c].at \in Listeners /\ phase = "serving" /\ loop[conn[c].at] # "returned"
BY ConnOf DEF Live

LEMMA BindKeeps ==
    ASSUME GatewayInv, BindProtocols \/ BindUnified
    PROVE  GatewayInv'
<1>1. /\ phase = "binding" /\ UNCHANGED <<mode, enabled, tlsRequired, ctx, loop, shut, slots,
                                          conn, routes>>
      /\ Listeners' = Listeners
    BY DEF BindProtocols, BindUnified, config, Listeners
<1>2. open' \subseteq Listeners
    <2>1. CASE BindProtocols
        BY <2>1 DEF BindProtocols, GatewayInv, ServerTyped
    <2>2. CASE BindUnified
        BY <2>2 DEF BindUnified, Listeners
    <2>. QED
        BY <2>1, <2>2
<1>3. phase' \in {"binding", "serving", "returned"} /\ (phase' = "returned" => open' = {})
    BY DEF BindProtocols, BindUnified
<1>4. ServerTyped'
    BY <1>1, <1>2, <1>3 DEF GatewayInv, ServerTyped
<1>5. \A c \in Conns : conn[c].at \in {"none", "admin"}
    BY <1>1, OnlyServing
<1>. QED
    BY <1>1, <1>4, <1>5, ServerOnlyKeeps

LEMMA LoopStepKeeps ==
    ASSUME GatewayInv, NEW l \in Listeners,
           \/ AcceptFails(l) \/ UnifiedAcceptFails(l) \/ ShutdownDone(l) \/ ListenerClosed(l)
           \/ CloseListener(l) \/ LoopReturns(l)
    PROVE  GatewayInv'
<1>1. UNCHANGED <<mode, enabled, tlsRequired, phase, slots, routes>> /\ Listeners' = Listeners
    BY DEF AcceptFails, UnifiedAcceptFails, ShutdownDone, ListenerClosed, CloseListener,
           LoopReturns, config, Listeners
<1>2. \A c \in Conns : conn[c].at \notin {"none", "admin"} => phase' = "serving"
    BY <1>1, OnlyServing
<1>3. ctx' \in {"running", "cancelled"} /\ open' \subseteq open
    BY DEF AcceptFails, UnifiedAcceptFails, ShutdownDone, ListenerClosed, CloseListener,
           LoopReturns, GatewayInv, ServerTyped
<1>4. CASE CloseListener(l)
    <2>1. UNCHANGED <<loop, shut, conn>>
        BY <1>4 DEF CloseListener
    <2>2. ServerTyped'
        BY <1>1, <1>3, <2>1 DEF GatewayInv, ServerTyped
    <2>. QED
        BY <1>1, <1>2, <2>1, <2>2, OnlyServing, ServerOnlyKeeps
<1>5. CASE AcceptFails(l) \/ UnifiedAcceptFails(l) \/ ShutdownDone(l) \/ ListenerClosed(l)
           \/ LoopReturns(l)
    <2>1. PICK s \in {"failing", "drain", "returned"} :
             loop' = [loop EXCEPT ![l] = s] /\ (s = "returned" => Drained(l))
        BY <1>5 DEF AcceptFails, UnifiedAcceptFails, ShutdownDone, ListenerClosed, LoopReturns
    <2>2. /\ loop' \in [Listeners -> {"accept", "failing", "drain", "returned"}]
          /\ \A c \in Conns : conn[c].at \notin {"none", "admin"} =>
                loop'[conn[c].at] # "returned"
        BY <2>1, LoopStep
    <2>3. closeAll \/ UNCHANGED <<shut, conn>>
        BY <1>5 DEF AcceptFails, UnifiedAcceptFails, ShutdownDone, ListenerClosed, LoopReturns
    <2>4. shut' \in BOOLEAN
        BY <2>3 DEF closeAll, GatewayInv, ServerTyped
    <2>5. ServerTyped'
        BY <1>1, <1>3, <2>2, <2>4 DEF GatewayInv, ServerTyped
    <2>6. CASE closeAll
        BY <1>1, <1>2, <2>2, <2>5, <2>6, CloseAllKeeps
    <2>7. CASE UNCHANGED <<shut, conn>>
        BY <1>1, <1>2, <2>2, <2>5, <2>7, ServerOnlyKeeps
    <2>. QED
        BY <2>3, <2>6, <2>7
<1>. QED
    BY <1>4, <1>5

LEMMA CancelKeeps ==
    ASSUME GatewayInv, Cancel
    PROVE  GatewayInv'
<1>1. /\ UNCHANGED <<mode, enabled, tlsRequired, phase, open, loop, shut, slots, conn, routes>>
      /\ ctx' = "cancelled" /\ Listeners' = Listeners
    BY DEF Cancel, config, Listeners
<1>2. ServerTyped'
    BY <1>1 DEF GatewayInv, ServerTyped
<1>. QED
    BY <1>1, <1>2, OnlyServing, ServerOnlyKeeps

LEMMA CloseConnectionsKeeps ==
    ASSUME GatewayInv, CloseConnections
    PROVE  GatewayInv'
<1>1. /\ UNCHANGED <<mode, enabled, tlsRequired, phase, ctx, open, loop, slots, routes>>
      /\ closeAll /\ Listeners' = Listeners
    BY DEF CloseConnections, config, Listeners
<1>2. ServerTyped'
    BY <1>1 DEF GatewayInv, ServerTyped, closeAll
<1>. QED
    BY <1>1, <1>2, OnlyServing, CloseAllKeeps

(* The gateway returns when every loop has: no connection is left.         *)
LEMMA ReturnKeeps ==
    ASSUME GatewayInv, Return
    PROVE  GatewayInv'
<1>1. /\ UNCHANGED <<mode, enabled, tlsRequired, loop, slots, routes>>
      /\ phase' = "returned" /\ open' = {} /\ Listeners' = Listeners
    BY DEF Return, config, Listeners
<1>2. closeAll \/ UNCHANGED <<shut, conn>>
    BY DEF Return
<1>3. ctx' \in {"running", "cancelled"} /\ shut' \in BOOLEAN
    BY DEF Return, closeAll, GatewayInv, ServerTyped
<1>4. ServerTyped'
    BY <1>1, <1>3 DEF GatewayInv, ServerTyped
<1>5. \A c \in Conns : conn[c].at \in {"none", "admin"}
    BY OnlyServing DEF Return
<1>6. CASE closeAll
    BY <1>1, <1>4, <1>5, <1>6, CloseAllKeeps
<1>7. CASE UNCHANGED <<shut, conn>>
    BY <1>1, <1>4, <1>5, <1>7, ServerOnlyKeeps
<1>. QED
    BY <1>2, <1>6, <1>7

-----------------------------------------------------------------------------
LEMMA GatewayInitial == Init => GatewayInv
<1>. SUFFICES ASSUME Init
              PROVE  GatewayInv
    OBVIOUS
<1>1. enabled \subseteq Protocols
    BY GatewayAssumption DEF Init
<1>2. ServerTyped
    BY <1>1 DEF Init, ServerTyped
<1>3. conn = [c \in Conns |-> Idle] /\ routes = {} /\ slots = 0 /\ shut = FALSE
    BY DEF Init
<1>4. conn \in [Conns -> Record] /\ \A c \in Conns : Sound(conn[c]) /\ Live(conn[c])
    BY <1>3, IdleRecord, IdleSound
<1>5. RoutesKept
    BY <1>3, IdleRecord, FS_EmptySet DEF RoutesKept, Routed
<1>6. SlotsKept
    <2>1. Leases = {}
        BY <1>3, IdleRecord DEF Leases
    <2>. QED
        BY <1>3, <2>1, FS_EmptySet, GatewayAssumption DEF SlotsKept
<1>. QED
    BY <1>2, <1>4, <1>5, <1>6 DEF GatewayInv

LEMMA GatewayStep == GatewayInv /\ [Next]_vars => GatewayInv'
<1>. SUFFICES ASSUME GatewayInv, [Next]_vars
              PROVE  GatewayInv'
    OBVIOUS
<1>1. CASE BindProtocols \/ BindUnified \/ Cancel \/ CloseConnections \/ Return
    BY <1>1, BindKeeps, CancelKeeps, CloseConnectionsKeeps, ReturnKeeps
<1>2. ASSUME NEW l \in Listeners,
             \/ \E c \in Conns : Accept(l, c)
             \/ AcceptFails(l) \/ UnifiedAcceptFails(l) \/ ShutdownDone(l) \/ ListenerClosed(l)
             \/ CloseListener(l) \/ LoopReturns(l)
      PROVE  GatewayInv'
    BY <1>2, AcceptKeeps, LoopStepKeeps
<1>3. ASSUME NEW c \in Conns,
             \/ Admit(c) \/ Handshake(c) \/ Upstream(c)
             \/ LoginIsCancel(c) \/ (\E k \in Keys : CancelLookup(c, k)) \/ ForwardCancel(c)
             \/ Finish(c) \/ Audit(c) \/ RelayEnds(c) \/ Fail(c) \/ Leave(c)
      PROVE  GatewayInv'
    <2>1. CASE LoginIsCancel(c)
        BY <2>1, CancelArrives DEF LoginIsCancel
    <2>2. CASE ForwardCancel(c)
        BY <2>2, QuitKeeps DEF ForwardCancel, Routed
    <2>. QED
        BY <1>3, <2>1, <2>2, AdmitKeeps, HandshakeKeeps, UpstreamKeeps, CancelLookupKeeps,
           FinishKeeps, AuditKeeps, RelayEndsKeeps, FailKeeps, LeaveKeeps
<1>4. CASE UNCHANGED vars
    BY <1>4 DEF vars, GatewayInv, ServerTyped, Listeners, RoutesKept, SlotsKept, Leases, Sound,
                Live
<1>. QED
    BY <1>1, <1>2, <1>3, <1>4 DEF Next

(* The inductive invariant, of every behaviour of the gateway.            *)
LEMMA GatewayInvariant == Spec => []GatewayInv
BY GatewayInitial, GatewayStep, PTL DEF Spec

(* Every connection, listener, loop and route is of its type, and no more  *)
(* handshake slots are in use than pendingHandshakeLimiter has.            *)
THEOREM GatewayTypeCorrect == Spec => []TypeOK
<1>1. GatewayInv => TypeOK
    <2>. SUFFICES ASSUME GatewayInv
                  PROVE  TypeOK
        OBVIOUS
    <2>1. slots \in 0 .. HandshakeLimit
        BY LeasesFinite, GatewayAssumption DEF GatewayInv, SlotsKept
    <2>. QED
        BY <2>1 DEF GatewayInv, ServerTyped, RoutesKept, TypeOK, Record, PCs
<1>. QED
    BY <1>1, GatewayInvariant, PTL

(* pending_handshake.go, listener_connections.go, listeners.go: however    *)
(* connections come and end, no slot leaks and none is given back twice;   *)
(* closeAll reaches every connection the loops let in; and when the        *)
(* gateway has returned nothing of it is left.                             *)
THEOREM ListenersCorrect == Spec => []ListenersAccounted
<1>1. GatewayInv => ListenersAccounted
    <2>. SUFFICES ASSUME GatewayInv
                  PROVE  ListenersAccounted
        OBVIOUS
    <2>. DEFINE P == {c \in Conns : conn[c].at # "admin" /\ conn[c].pc \in
                            Handshaking \cup {"cancel", "forward"}}
                Q == {c \in Conns : conn[c].at # "admin" /\
                            conn[c].pc \in Handshaking \cup {"cancel", "forward", "leave"}}
    <2>1. P \subseteq Leases /\ Leases \subseteq Q /\ Q \subseteq Conns
        BY ConnOf DEF Leases, Sound, Slotted
    <2>2. IsFiniteSet(Q)
        BY <2>1, GatewayAssumption, FS_Subset
    <2>3. Cardinality(P) <= Cardinality(Leases) /\ Cardinality(Leases) <= Cardinality(Q)
        BY <2>1, <2>2, LeasesFinite, FS_Subset
    <2>4. slots = Cardinality(Leases) /\ slots \in 0 .. HandshakeLimit
        BY LeasesFinite, GatewayAssumption DEF GatewayInv, SlotsKept
    <2>5. HandshakeSlotsAccounted
        BY <2>3, <2>4 DEF HandshakeSlotsAccounted
    <2>6. shut => \A c \in Conns : Serving(c) => ~conn[c].sock
        BY ConnOf DEF Live, Serving
    <2>7. ASSUME phase = "returned"
          PROVE  /\ open = {} /\ routes = {} /\ slots = 0
                 /\ \A c \in Conns : conn[c].at \in {"none", "admin"}
        <3>1. \A c \in Conns : conn[c].at \in {"none", "admin"}
            BY <2>7, OnlyServing
        <3>2. Leases = {}
            BY <3>1, ConnOf DEF Leases, Sound
        <3>3. slots = 0
            BY <2>4, <3>2, FS_EmptySet
        <3>4. ASSUME NEW r \in routes
              PROVE  FALSE
            <4>1. r.conn \in Conns /\ conn[r.conn].pc \in Routed
                BY DEF GatewayInv, RoutesKept
            <4>. QED
                BY <3>1, <4>1, ConnOf DEF Sound, Routed
        <3>. QED
            BY <2>7, <3>1, <3>3, <3>4 DEF GatewayInv, ServerTyped
    <2>. QED
        BY <2>5, <2>6, <2>7 DEF ListenersAccounted, ShutdownReachesEveryConnection
<1>. QED
    BY <1>1, GatewayInvariant, PTL

(* postgres_*.go, mysql_*.go, redis*.go, upstream_tls.go: no path of the   *)
(* handshake reaches a password check in plaintext where client TLS is     *)
(* required; an instance is sent nothing derived from its password before  *)
(* it is verified, unless its TLS mode is "disable", in which case it is   *)
(* not verified and PostgreSQL and Redis may get the password itself; and  *)
(* a cancel request goes to the instance of the one connection that held   *)
(* its key at the look-up.                                                 *)
THEOREM WirePolicyCorrect == Spec => []PolicyOnTheWire
<1>1. GatewayInv => PolicyOnTheWire
    <2>. SUFFICES ASSUME GatewayInv
                  PROVE  PolicyOnTheWire
        OBVIOUS
    <2>1. PasswordsByPolicy
        BY ConnOf DEF PasswordsByPolicy, Sound, Unresolved, Resolved, Handshaking
    <2>2. CancelReachesItsSession
        BY ConnOf DEF CancelReachesItsSession, Sound, GatewayInv, RoutesKept
    <2>. QED
        BY <2>1, <2>2 DEF PolicyOnTheWire
<1>. QED
    BY <1>1, GatewayInvariant, PTL
-----------------------------------------------------------------------------
(* Web RDP.                                                                *)

(* The handler before relay has started its goroutines.                    *)
Preparing == {"idle", "consumed", "begin", "dial", "handshake", "upgrade", "activate", "register"}

Carried == RDP!StreamOps \cup {"other", "none"}
FilterType == [blocked : SUBSET Id, streams : SUBSET Id, bytes : [Id -> Nat], events : Nat]
LedgerType == [noted : Nat, ended : Nat, carried : [Id -> Nat]]
PumpType == [pc : {"off", "read", "forward", "return", "done"},
             i : [op : RDP!Opcodes, id : Id \cup {NoId}], err : RDP!Errs]
Traffic ==
    /\ pump \in [RDP!Dir -> PumpType]
    /\ filter \in [RDP!Dir -> FilterType]
    /\ ledger \in [RDP!Dir -> LedgerType]
    /\ mine \in [RDP!Dir -> [Id -> Carried]]
    /\ received \in [RDP!Dir -> SUBSET RDP!ChannelOps]
    /\ DOMAIN h = {"pc", "ctx", "deadline", "policy", "err", "code"}
    /\ DOMAIN rdpConn = {"browser", "guacd"}

(* A direction nothing has passed yet.                                     *)
Fresh(d) ==
    /\ filter[d].streams = {} /\ filter[d].blocked = {}
    /\ ledger[d].noted = 0 /\ ledger[d].ended = 0
    /\ received[d] = {}
    /\ \A x \in Id : filter[d].bytes[x] = 0 /\ ledger[d].carried[x] = 0 /\ mine[d][x] = "none"

RelayStarted ==
    /\ h.pc \in Preparing => \A d \in RDP!Dir : pump[d].pc = "off"
    /\ \A d \in RDP!Dir : pump[d].pc = "off" => Fresh(d)

(* The policy is within the rights, and files are only with the drive.     *)
PolicyKept ==
    /\ h.policy \subseteq rights
    /\ h.policy \cap {"file_upload", "file_download"} # {} => "drive_mapping" \in h.policy

Running(d) == pump[d].pc \in {"read", "forward"}

(* The filter knows which of the sender's open streams are permitted.      *)
StreamsKnown(d) ==
    Running(d) => \A x \in Id :
        /\ x \in filter[d].streams <=> mine[d][x] \in RDP!StreamOps /\ RDP!ChannelDecision(d, mine[d][x])
        /\ x \in filter[d].blocked <=> mine[d][x] \in RDP!StreamOps /\ ~RDP!ChannelDecision(d, mine[d][x])

(* What is in hand passed the filter.                                      *)
PassedFilter(d) ==
    pump[d].pc = "forward" =>
        LET i == pump[d].i IN
        /\ i.op \in RDP!ChannelOps => RDP!ChannelDecision(d, i.op)
        /\ i.op \in {"blob", "end"} => i.id \in Id
        /\ i.op = "blob" => i.id \notin filter[d].blocked

(* What the audit counts and what the receiver has differ by what is in    *)
(* hand.                                                                   *)
InHand(d, x, op) == pump[d].pc = "forward" /\ pump[d].i.op = op /\ pump[d].i.id = x
Counted(d) ==
    /\ ledger[d].ended <= ledger[d].noted
    /\ Running(d) /\ rdpConn[RDP!Sink(d)] = "open" =>
        /\ \A x \in Id :
              /\ x \notin filter[d].streams => filter[d].bytes[x] = 0
              /\ ~InHand(d, x, "blob") /\ ~InHand(d, x, "end") =>
                    ledger[d].carried[x] = filter[d].bytes[x]
              /\ InHand(d, x, "blob") =>
                    filter[d].bytes[x] = ledger[d].carried[x] +
                        (IF x \in filter[d].streams THEN 1 ELSE 0)
              /\ InHand(d, x, "end") =>
                    /\ ledger[d].noted = ledger[d].ended + ledger[d].carried[x]
                    /\ x \notin filter[d].streams
        /\ ~(pump[d].pc = "forward" /\ pump[d].i.op = "end") => ledger[d].ended = ledger[d].noted

RDPInv ==
    /\ Traffic /\ RelayStarted /\ PolicyKept
    /\ \A d \in RDP!Dir : StreamsKnown(d) /\ PassedFilter(d) /\ Counted(d)
    /\ RDP!OnlyPermittedTraffic

LEMMA RDPInit == RDP!Init => RDPInv
<1>. SUFFICES ASSUME RDP!Init PROVE RDPInv
    OBVIOUS
<1>1. Traffic
    BY DEF Traffic, RDP!Init, RDP!NewFilter, RDP!NewLedger, RDP!NoInstruction, PumpType, FilterType,
           LedgerType, Carried, RDP!Opcodes, RDP!Errs, RDP!ChannelOps
<1>2. \A d \in RDP!Dir : pump[d].pc = "off" /\ Fresh(d)
    BY DEF RDP!Init, RDP!NewFilter, RDP!NewLedger, Fresh
<1>3. RelayStarted /\ PolicyKept
    BY <1>2 DEF RelayStarted, PolicyKept, RDP!Init
<1>4. \A d \in RDP!Dir : StreamsKnown(d) /\ PassedFilter(d) /\ Counted(d)
    BY <1>2 DEF StreamsKnown, PassedFilter, Counted, Running, Fresh
<1>5. RDP!OnlyPermittedTraffic
    BY <1>2 DEF RDP!OnlyPermittedTraffic, Fresh
<1>. QED
    BY <1>1, <1>3, <1>4, <1>5 DEF RDPInv

(* A step of the handler or of the environment beside the relay.           *)
LEMMA BesideRelay ==
    ASSUME RDPInv, UNCHANGED <<pump, filter, ledger, mine, received, rights>>,
           DOMAIN h' = DOMAIN h, h'.policy = h.policy, h'.pc \in Preparing => h.pc \in Preparing,
           DOMAIN rdpConn' = DOMAIN rdpConn,
           \A d \in RDP!Dir : rdpConn'[RDP!Sink(d)] = "open" =>
               rdpConn[RDP!Sink(d)] = "open" \/ pump[d].pc = "off"
    PROVE  RDPInv'
<1>1. Traffic'
    BY DEF RDPInv, Traffic
<1>2. RelayStarted'
    BY DEF RDPInv, RelayStarted, Fresh
<1>3. PolicyKept'
    BY DEF RDPInv, PolicyKept
<1>4. ASSUME NEW d \in RDP!Dir PROVE StreamsKnown(d)' /\ PassedFilter(d)'
    BY DEF RDPInv, StreamsKnown, PassedFilter, Running, RDP!ChannelDecision
<1>5. ASSUME NEW d \in RDP!Dir PROVE Counted(d)'
    <2>1. Counted(d)
        BY DEF RDPInv
    <2>2. Running(d)' /\ rdpConn'[RDP!Sink(d)] = "open" => Running(d) /\ rdpConn[RDP!Sink(d)] = "open"
        BY DEF Running
    <2>. QED
        BY <2>1, <2>2 DEF Counted, InHand, RDP!Sink
<1>6. RDP!OnlyPermittedTraffic'
    BY DEF RDPInv, RDP!OnlyPermittedTraffic, RDP!Needs
<1>. QED
    BY <1>1, <1>2, <1>3, <1>4, <1>5, <1>6 DEF RDPInv

(* A step of the relay in one direction.                                   *)
LEMMA OneDirection ==
    ASSUME RDPInv, UNCHANGED <<h, rdpConn, rights>>, NEW d \in RDP!Dir, Traffic',
           pump[d].pc # "off", pump'[d].pc # "off",
           \A e \in RDP!Dir : e # d =>
               /\ pump'[e] = pump[e] /\ filter'[e] = filter[e] /\ ledger'[e] = ledger[e]
               /\ mine'[e] = mine[e] /\ received'[e] = received[e],
           StreamsKnown(d)', PassedFilter(d)', Counted(d)',
           \A op \in received'[d] : RDP!Needs(d, op) \subseteq rights
    PROVE  RDPInv'
<1>1. RelayStarted'
    BY DEF RDPInv, RelayStarted, Fresh
<1>2. PolicyKept'
    BY DEF RDPInv, PolicyKept
<1>3. ASSUME NEW e \in RDP!Dir, e # d PROVE StreamsKnown(e)' /\ PassedFilter(e)' /\ Counted(e)'
    <2>1. StreamsKnown(e)'
        <3>1. StreamsKnown(e) /\ pump'[e] = pump[e] /\ filter'[e] = filter[e] /\ mine'[e] = mine[e]
            BY <1>3 DEF RDPInv
        <3>2. Running(e)' <=> Running(e)
            BY <3>1 DEF Running
        <3>3. \A x \in Id : RDP!ChannelDecision(e, mine[e][x])' <=> RDP!ChannelDecision(e, mine[e][x])
            BY <3>1 DEF RDP!ChannelDecision
        <3>. QED
            BY <3>1, <3>2, <3>3 DEF StreamsKnown
    <2>2. PassedFilter(e)'
        BY <1>3 DEF RDPInv, PassedFilter, RDP!ChannelDecision
    <2>3. Counted(e)'
        <3>1. Counted(e)
            BY DEF RDPInv
        <3>. QED
            BY <1>3, <3>1 DEF Counted, InHand, Running, RDP!Sink
    <2>. QED
        BY <2>1, <2>2, <2>3
<1>4. RDP!OnlyPermittedTraffic'
    BY DEF RDPInv, RDP!OnlyPermittedTraffic, RDP!Needs
<1>. QED
    BY <1>1, <1>2, <1>3, <1>4 DEF RDPInv

LEMMA BesideSteps ==
    ASSUME RDPInv,
           \/ RDP!CreateTicket \/ RDP!ConsumeTicket \/ RDP!BeginAudit \/ RDP!Dial \/ RDP!PerformHandshake
           \/ RDP!Upgrade \/ RDP!Activate \/ RDP!RelayDone \/ RDP!RelayResult \/ RDP!GraceResult
           \/ RDP!GraceTimeout \/ RDP!Unregister \/ RDP!FinishAudit
           \/ \E c \in {"browser", "guacd"}, how \in {"left", "lost"} : RDP!PeerLeaves(c, how)
           \/ RDP!ClientCancels \/ RDP!ExpiryPasses \/ RDP!Disconnect \/ RDP!ChangeAccount
    PROVE  RDPInv'
<1>1. UNCHANGED <<pump, filter, ledger, mine, received, rights>>
    BY DEF RDP!CreateTicket, RDP!ConsumeTicket, RDP!BeginAudit, RDP!Dial, RDP!PerformHandshake,
           RDP!Upgrade, RDP!Activate, RDP!RelayDone, RDP!RelayResult, RDP!GraceResult, RDP!GraceTimeout,
           RDP!Unregister, RDP!FinishAudit, RDP!PeerLeaves, RDP!ClientCancels, RDP!ExpiryPasses,
           RDP!Disconnect, RDP!ChangeAccount, RDP!RelayUnchanged, RDP!guacd
<1>2. DOMAIN h = {"pc", "ctx", "deadline", "policy", "err", "code"} /\ DOMAIN rdpConn = {"browser", "guacd"}
    BY DEF RDPInv, Traffic
<1>3. DOMAIN h' = DOMAIN h /\ h'.policy = h.policy /\ (h'.pc \in Preparing => h.pc \in Preparing)
    <2>1. CASE RDP!CreateTicket \/ RDP!ConsumeTicket \/ RDP!BeginAudit
        BY <1>2, <2>1 DEF RDP!CreateTicket, RDP!ConsumeTicket, RDP!BeginAudit, Preparing
    <2>2. CASE RDP!Dial \/ RDP!PerformHandshake \/ RDP!Upgrade \/ RDP!Activate
        BY <1>2, <2>2 DEF RDP!Dial, RDP!PerformHandshake, RDP!Upgrade, RDP!Activate, RDP!EndWith, Preparing
    <2>3. CASE RDP!RelayDone \/ RDP!RelayResult \/ RDP!GraceResult \/ RDP!GraceTimeout
        BY <1>2, <2>3 DEF RDP!RelayDone, RDP!RelayResult, RDP!GraceResult, RDP!GraceTimeout,
                     RDP!CloseAndReturn, Preparing
    <2>4. CASE RDP!Unregister \/ RDP!FinishAudit \/ RDP!ClientCancels \/ RDP!ExpiryPasses
        BY <1>2, <2>4 DEF RDP!Unregister, RDP!FinishAudit, RDP!ClientCancels, RDP!ExpiryPasses,
                     RDP!EndWith, Preparing
    <2>5. CASE \/ RDP!Disconnect \/ RDP!ChangeAccount
               \/ \E c \in {"browser", "guacd"}, how \in {"left", "lost"} : RDP!PeerLeaves(c, how)
        BY <2>5 DEF RDP!Disconnect, RDP!ChangeAccount, RDP!PeerLeaves
    <2>. QED
        BY <2>1, <2>2, <2>3, <2>4, <2>5
<1>4. /\ DOMAIN rdpConn' = DOMAIN rdpConn
      /\ \A c \in DOMAIN rdpConn : rdpConn'[c] = "open" => rdpConn[c] = "open" \/ h.pc \in Preparing
    <2>1. CASE RDP!Dial \/ RDP!PerformHandshake \/ RDP!Upgrade \/ RDP!Activate
        BY <1>2, <2>1 DEF RDP!Dial, RDP!PerformHandshake, RDP!Upgrade, RDP!Activate, RDP!Closed, Preparing
    <2>2. CASE RDP!RelayDone \/ RDP!RelayResult \/ RDP!GraceResult \/ RDP!GraceTimeout \/ RDP!Disconnect
        BY <1>2, <2>2 DEF RDP!RelayDone, RDP!RelayResult, RDP!GraceResult, RDP!GraceTimeout, RDP!Disconnect,
                     RDP!CloseAndReturn, RDP!Closed
    <2>3. CASE \E c \in {"browser", "guacd"}, how \in {"left", "lost"} : RDP!PeerLeaves(c, how)
        BY <1>2, <2>3 DEF RDP!PeerLeaves
    <2>4. CASE \/ RDP!CreateTicket \/ RDP!ConsumeTicket \/ RDP!BeginAudit \/ RDP!Unregister \/ RDP!FinishAudit
               \/ RDP!ClientCancels \/ RDP!ExpiryPasses \/ RDP!ChangeAccount
        BY <2>4 DEF RDP!CreateTicket, RDP!ConsumeTicket, RDP!BeginAudit, RDP!Unregister, RDP!FinishAudit,
                    RDP!ClientCancels, RDP!ExpiryPasses, RDP!ChangeAccount
    <2>. QED
        BY <2>1, <2>2, <2>3, <2>4
<1>5. \A d \in RDP!Dir : rdpConn'[RDP!Sink(d)] = "open" => rdpConn[RDP!Sink(d)] = "open" \/ pump[d].pc = "off"
    BY <1>2, <1>4 DEF RDPInv, RelayStarted, RDP!Sink, RDP!Dir
<1>. QED
    BY <1>1, <1>3, <1>4, <1>5, BesideRelay

LEMMA AuthorizeKeeps ==
    ASSUME RDPInv, RDP!Authorize
    PROVE  RDPInv'
<1>1. /\ UNCHANGED <<pump, filter, ledger, mine, received, rdpConn>>
      /\ h.pc = "consumed" /\ \A d \in RDP!Dir : pump[d].pc = "off" /\ Fresh(d)
    BY DEF RDP!Authorize, RDP!guacd, RDPInv, RelayStarted, Preparing
<1>2. DOMAIN h = {"pc", "ctx", "deadline", "policy", "err", "code"}
    BY DEF RDPInv, Traffic
<1>3. DOMAIN h' = DOMAIN h /\ PolicyKept'
    <2>1. CASE UNCHANGED rights /\ h' = [h EXCEPT !.pc = "returned"]
        BY <1>2, <2>1 DEF RDPInv, PolicyKept
    <2>2. CASE /\ h' = [h EXCEPT !.pc = "begin", !.policy = RDP!EffectivePolicy, !.deadline = account.expires]
               /\ rights' = {c \in account.cfg : RDP!Allowed(c)}
        <3>1. DOMAIN h' = DOMAIN h /\ h'.policy = RDP!EffectivePolicy
            BY <1>2, <2>2
        <3>2. /\ RDP!EffectivePolicy \subseteq rights'
              /\ RDP!EffectivePolicy \cap {"file_upload", "file_download"} # {}
                    => "drive_mapping" \in RDP!EffectivePolicy
            BY <2>2 DEF RDP!EffectivePolicy, RDP!Effective
        <3>. QED
            BY <3>1, <3>2 DEF PolicyKept
    <2>. QED
        BY <2>1, <2>2 DEF RDP!Authorize
<1>4. Traffic' /\ RelayStarted'
    BY <1>1, <1>3 DEF RDPInv, Traffic, RelayStarted, Fresh
<1>5. \A d \in RDP!Dir : StreamsKnown(d)' /\ PassedFilter(d)' /\ Counted(d)'
    BY <1>1 DEF StreamsKnown, PassedFilter, Counted, Running, Fresh
<1>6. RDP!OnlyPermittedTraffic'
    BY <1>1 DEF RDP!OnlyPermittedTraffic, Fresh
<1>. QED
    BY <1>3, <1>4, <1>5, <1>6 DEF RDPInv

LEMMA RegisterKeeps ==
    ASSUME RDPInv, RDP!Register
    PROVE  RDPInv'
<1>1. /\ UNCHANGED <<filter, ledger, mine, received, rdpConn, rights>>
      /\ h.pc = "register" /\ h' = [h EXCEPT !.pc = "relay"]
      /\ pump' = [d \in RDP!Dir |-> [pump[d] EXCEPT !.pc = "read"]]
      /\ \A d \in RDP!Dir : pump[d].pc = "off" /\ Fresh(d)
    BY DEF RDP!Register, RDP!guacd, RDPInv, RelayStarted, Preparing
<1>2. DOMAIN h' = DOMAIN h /\ h'.policy = h.policy /\ h'.pc = "relay"
    BY <1>1 DEF RDPInv, Traffic
<1>3. ASSUME NEW d \in RDP!Dir PROVE pump'[d] \in PumpType /\ pump'[d].pc = "read"
    <2>1. pump[d] \in PumpType
        BY DEF RDPInv, Traffic
    <2>2. [pump[d] EXCEPT !.pc = "read"] \in PumpType /\ [pump[d] EXCEPT !.pc = "read"].pc = "read"
        BY <2>1 DEF PumpType
    <2>. QED
        BY <1>1, <2>2
<1>4. Traffic' /\ RelayStarted' /\ PolicyKept'
    BY <1>1, <1>2, <1>3 DEF RDPInv, Traffic, RelayStarted, PolicyKept, Preparing
<1>5. \A d \in RDP!Dir : StreamsKnown(d)' /\ PassedFilter(d)' /\ Counted(d)'
    BY <1>1, <1>3 DEF StreamsKnown, PassedFilter, Counted, InHand, Running, Fresh, RDP!StreamOps
<1>6. RDP!OnlyPermittedTraffic'
    BY <1>1 DEF RDP!OnlyPermittedTraffic, Fresh
<1>. QED
    BY <1>4, <1>5, <1>6 DEF RDPInv

(* A goroutine that returns forwards and counts nothing more.              *)
LEMMA GoroutineReturns ==
    ASSUME RDPInv, UNCHANGED <<h, rdpConn, rights, received>>, NEW d \in RDP!Dir,
           pump[d].pc # "off", NEW p \in PumpType, p.pc \in {"return", "done"}, pump' = [pump EXCEPT ![d] = p],
           \A e \in RDP!Dir : e # d =>
               filter'[e] = filter[e] /\ ledger'[e] = ledger[e] /\ mine'[e] = mine[e],
           Traffic', ledger'[d].ended <= ledger'[d].noted
    PROVE  RDPInv'
<1>1. pump'[d] = p /\ \A e \in RDP!Dir : e # d => pump'[e] = pump[e]
    BY DEF RDPInv, Traffic
<1>2. StreamsKnown(d)' /\ PassedFilter(d)' /\ Counted(d)'
    BY <1>1 DEF StreamsKnown, PassedFilter, Counted, Running
<1>3. \A op \in received'[d] : RDP!Needs(d, op) \subseteq rights
    BY DEF RDPInv, RDP!OnlyPermittedTraffic
<1>. QED
    BY <1>1, <1>2, <1>3, OneDirection

LEMMA ReadFailsKeeps ==
    ASSUME RDPInv, NEW d \in RDP!Dir, RDP!ReadFails(d) \/ RDP!ForwardFails(d)
    PROVE  RDPInv'
<1>1. /\ UNCHANGED <<h, rdpConn, rights, received, filter, ledger, mine>> /\ pump[d].pc \in {"read", "forward"}
      /\ \E err \in RDP!Errs :
            \/ pump' = [pump EXCEPT ![d].pc = "return", ![d].err = err]
            \/ pump' = [pump EXCEPT ![d].pc = "return", ![d].err = err, ![d].i = RDP!NoInstruction]
    BY DEF RDP!ReadFails, RDP!ForwardFails, RDP!guacd, RDP!Errs
<1>2. pump[d] \in PumpType /\ pump \in [RDP!Dir -> PumpType] /\ RDP!NoInstruction \in [op : RDP!Opcodes, id : Id \cup {NoId}]
    BY DEF RDPInv, Traffic, RDP!NoInstruction, RDP!Opcodes
<1>3. PICK p \in PumpType : p.pc = "return" /\ pump' = [pump EXCEPT ![d] = p]
    <2>1. PICK err \in RDP!Errs :
            \/ pump' = [pump EXCEPT ![d].pc = "return", ![d].err = err]
            \/ pump' = [pump EXCEPT ![d].pc = "return", ![d].err = err, ![d].i = RDP!NoInstruction]
        BY <1>1
    <2>2. CASE pump' = [pump EXCEPT ![d].pc = "return", ![d].err = err]
        <3>. DEFINE p == [pump[d] EXCEPT !.pc = "return", !.err = err]
        <3>1. p \in PumpType /\ p.pc = "return"
            BY <1>2 DEF PumpType
        <3>2. pump' = [pump EXCEPT ![d] = p]
            BY <2>2, <1>2
        <3>. QED
            BY <3>1, <3>2
    <2>3. CASE pump' = [pump EXCEPT ![d].pc = "return", ![d].err = err, ![d].i = RDP!NoInstruction]
        <3>. DEFINE p == [pump[d] EXCEPT !.pc = "return", !.err = err, !.i = RDP!NoInstruction]
        <3>1. p \in PumpType /\ p.pc = "return"
            BY <1>2 DEF PumpType
        <3>2. pump' = [pump EXCEPT ![d] = p]
            BY <2>3, <1>2
        <3>. QED
            BY <3>1, <3>2
    <2>. QED
        BY <2>1, <2>2, <2>3
<1>4. Traffic'
    BY <1>1, <1>2, <1>3 DEF RDPInv, Traffic
<1>5. ledger'[d].ended <= ledger'[d].noted
    BY <1>1 DEF RDPInv, Counted
<1>. QED
    BY <1>1, <1>3, <1>4, <1>5, GoroutineReturns

LEMMA SendResultKeeps ==
    ASSUME RDPInv, NEW d \in RDP!Dir, RDP!SendResult(d)
    PROVE  RDPInv'
<1>1. UNCHANGED <<h, rdpConn, rights, received>> /\ pump[d].pc = "return"
    BY DEF RDP!SendResult
<1>2. pump[d] \in PumpType /\ pump \in [RDP!Dir -> PumpType]
    BY DEF RDPInv, Traffic
<1>. DEFINE p == [pump[d] EXCEPT !.pc = "done", !.err = "expected"]
<1>3. p \in PumpType /\ p.pc = "done" /\ pump' = [pump EXCEPT ![d] = p]
    BY <1>2 DEF PumpType, RDP!SendResult, RDP!Errs
<1>4. RDP!NewFilter \in FilterType /\ RDP!NewLedger \in LedgerType /\ [x \in Id |-> "none"] \in [Id -> Carried]
    BY DEF RDP!NewFilter, RDP!NewLedger, FilterType, LedgerType, Carried
<1>5. Traffic'
    BY <1>1, <1>2, <1>3, <1>4 DEF RDPInv, Traffic, RDP!SendResult
<1>6. \A e \in RDP!Dir : e # d => filter'[e] = filter[e] /\ ledger'[e] = ledger[e] /\ mine'[e] = mine[e]
    BY DEF RDPInv, Traffic, RDP!SendResult
<1>7. ledger'[d].ended <= ledger'[d].noted
    BY DEF RDPInv, Traffic, RDP!SendResult, RDP!NewLedger
<1>. HIDE DEF p
<1>. QED
    BY <1>1, <1>3, <1>5, <1>6, <1>7, GoroutineReturns

Instruction == [op : RDP!Opcodes, id : Id \cup {NoId}]

(* The sender's streams after it has sent i.                               *)
LEMMA MineNow ==
    ASSUME Traffic, NEW d \in RDP!Dir, NEW i \in Instruction, RDP!Sends(d, i),
           mine' = RDP!MineAfter(d, i)
    PROVE  /\ mine' \in [RDP!Dir -> [Id -> Carried]]
           /\ \A e \in RDP!Dir : e # d => mine'[e] = mine[e]
           /\ i.op \in RDP!StreamOps \cup {"blob", "end"} => i.id \in Id
           /\ \A y \in Id : mine'[d][y] =
                 IF y = i.id /\ i.id # NoId /\ i.op \in RDP!StreamOps \cup {"other"} THEN i.op
                 ELSE IF y = i.id /\ i.op = "end" THEN "none" ELSE mine[d][y]
<1>1. i.op \in RDP!StreamOps \cup {"blob", "end"} => i.id \in Id
    BY DEF RDP!Sends, Instruction
<1>2. CASE i.op \in RDP!StreamOps \cup {"other"} /\ i.id # NoId
    <2>1. mine' = [mine EXCEPT ![d][i.id] = i.op] /\ i.id \in Id /\ i.op # "end"
        BY <1>2 DEF RDP!MineAfter, Instruction, RDP!StreamOps
    <2>. QED
        BY <1>1, <1>2, <2>1 DEF Traffic, Carried
<1>3. CASE i.op = "end"
    <2>1. mine' = [mine EXCEPT ![d][i.id] = "none"] /\ i.id \in Id
        BY <1>1, <1>3 DEF RDP!MineAfter, RDP!StreamOps
    <2>. QED
        BY <1>1, <1>3, <2>1 DEF Traffic, Carried, RDP!StreamOps
<1>4. CASE ~(i.op \in RDP!StreamOps \cup {"other"} /\ i.id # NoId) /\ i.op # "end"
    <2>1. mine' = mine
        BY <1>4 DEF RDP!MineAfter
    <2>. QED
        BY <1>1, <1>4, <2>1 DEF Traffic
<1>. QED
    BY <1>2, <1>3, <1>4

(* The filter after it has let i pass or dropped it.                       *)
LEMMA FilterNow ==
    ASSUME Traffic, NEW d \in RDP!Dir, NEW i \in Instruction, RDP!Sends(d, i)
    PROVE  LET f == filter[d]
               g == RDP!FilterAfter(d, i)
           IN /\ g \in FilterType
              /\ \A y \in Id :
                    /\ y \in g.streams <=>
                          IF y = i.id /\ i.op \in RDP!StreamOps /\ RDP!ChannelDecision(d, i.op) THEN TRUE
                          ELSE y \in f.streams /\ ~(y = i.id /\ i.op = "end")
                    /\ y \in g.blocked <=>
                          IF y = i.id /\ i.op \in RDP!StreamOps /\ ~RDP!ChannelDecision(d, i.op) THEN TRUE
                          ELSE y \in f.blocked /\ ~(y = i.id /\ i.op = "end")
                    /\ g.bytes[y] =
                          IF y = i.id /\ i.op \in RDP!StreamOps /\ RDP!ChannelDecision(d, i.op) THEN 0
                          ELSE IF y = i.id /\ i.op = "end" THEN 0
                          ELSE IF y = i.id /\ i.op = "blob" /\ y \in f.streams THEN f.bytes[y] + 1
                          ELSE f.bytes[y]
<1>. DEFINE f == filter[d]
            e == IF RDP!Audited(d, i) THEN f.events + 1 ELSE f.events
            g == RDP!FilterAfter(d, i)
<1>1. f \in FilterType /\ e \in Nat
    BY DEF Traffic, FilterType
<1>2. i.op \in RDP!StreamOps \cup {"blob", "end"} => i.id \in Id
    BY DEF RDP!Sends, Instruction
<1>3. "end" \notin RDP!StreamOps /\ "blob" \notin RDP!StreamOps
    BY DEF RDP!StreamOps
<1>. HIDE DEF e
<1>4. CASE i.op \in RDP!StreamOps /\ RDP!ChannelDecision(d, i.op)
    <2>1. g = [f EXCEPT !.streams = @ \cup {i.id}, !.bytes[i.id] = 0, !.events = e]
        BY <1>4, <1>3 DEF RDP!FilterAfter, e
    <2>. DEFINE f1 == [f EXCEPT !.streams = @ \cup {i.id}]
                b1 == [f.bytes EXCEPT ![i.id] = 0]
    <2>3. f1 \in FilterType /\ f1.bytes = f.bytes /\ f1.streams = f.streams \cup {i.id} /\ f1.blocked = f.blocked
        BY <1>1, <1>2, <1>4 DEF FilterType
    <2>4. b1 \in [Id -> Nat]
        BY <1>1 DEF FilterType
    <2>5. g = [f1 EXCEPT !.bytes = b1, !.events = e]
        BY <2>1, <2>3
    <2>. HIDE DEF f1, b1
    <2>6. g.streams = f1.streams /\ g.blocked = f1.blocked /\ g.bytes = b1 /\ g \in FilterType
        BY <1>1, <2>3, <2>4, <2>5 DEF FilterType
    <2>2. /\ g.streams = f.streams \cup {i.id} /\ g.blocked = f.blocked /\ g \in FilterType
          /\ g.bytes = [f.bytes EXCEPT ![i.id] = 0]
        BY <2>3, <2>6 DEF b1
    <2>. QED
        BY <1>1, <1>2, <1>3, <1>4, <2>2 DEF FilterType
<1>5. CASE i.op \in RDP!StreamOps /\ ~RDP!ChannelDecision(d, i.op)
    <2>1. g = [f EXCEPT !.blocked = @ \cup {i.id}, !.events = e]
        BY <1>5, <1>3 DEF RDP!FilterAfter, e
    <2>2. /\ g.streams = f.streams /\ g.blocked = f.blocked \cup {i.id} /\ g \in FilterType
          /\ g.bytes = f.bytes
        BY <1>1, <1>2, <1>5, <2>1 DEF FilterType
    <2>. QED
        BY <1>1, <1>2, <1>3, <1>5, <2>2 DEF FilterType
<1>6. CASE i.op = "blob" /\ i.id \in f.streams
    <2>1. g = [f EXCEPT !.bytes[i.id] = @ + 1]
        BY <1>6, <1>3 DEF RDP!FilterAfter
    <2>2. /\ g.streams = f.streams /\ g.blocked = f.blocked /\ g \in FilterType
          /\ g.bytes = [f.bytes EXCEPT ![i.id] = f.bytes[i.id] + 1]
        BY <1>1, <1>2, <1>6, <2>1 DEF FilterType
    <2>. QED
        BY <1>1, <1>2, <1>3, <1>6, <2>2 DEF FilterType
<1>7. CASE i.op = "end"
    <2>1. g = [f EXCEPT !.blocked = @ \ {i.id}, !.streams = @ \ {i.id}, !.bytes[i.id] = 0, !.events = e]
        BY <1>7, <1>3 DEF RDP!FilterAfter, e
    <2>. DEFINE f1 == [f EXCEPT !.blocked = @ \ {i.id}, !.streams = @ \ {i.id}]
                b1 == [f.bytes EXCEPT ![i.id] = 0]
    <2>3. /\ f1 \in FilterType /\ f1.bytes = f.bytes
          /\ f1.streams = f.streams \ {i.id} /\ f1.blocked = f.blocked \ {i.id}
        BY <1>1 DEF FilterType
    <2>4. b1 \in [Id -> Nat]
        BY <1>1 DEF FilterType
    <2>5. g = [f1 EXCEPT !.bytes = b1, !.events = e]
        BY <2>1, <2>3
    <2>. HIDE DEF f1, b1
    <2>6. g.streams = f1.streams /\ g.blocked = f1.blocked /\ g.bytes = b1 /\ g \in FilterType
        BY <1>1, <2>3, <2>4, <2>5 DEF FilterType
    <2>2. /\ g.streams = f.streams \ {i.id} /\ g.blocked = f.blocked \ {i.id} /\ g \in FilterType
          /\ g.bytes = [f.bytes EXCEPT ![i.id] = 0]
        BY <2>3, <2>6 DEF b1
    <2>. QED
        BY <1>1, <1>2, <1>3, <1>7, <2>2 DEF FilterType
<1>8. CASE i.op \notin RDP!StreamOps \cup {"end"} /\ ~(i.op = "blob" /\ i.id \in f.streams)
    <2>1. g = [f EXCEPT !.events = e]
        BY <1>8 DEF RDP!FilterAfter, e
    <2>2. /\ g.streams = f.streams /\ g.blocked = f.blocked /\ g \in FilterType /\ g.bytes = f.bytes
        BY <1>1, <2>1 DEF FilterType
    <2>. QED
        BY <1>1, <1>8, <2>2 DEF FilterType
<1>. QED
    BY <1>4, <1>5, <1>6, <1>7, <1>8 DEF RDP!StreamOps

LEMMA ReadRefused ==
    ASSUME RDPInv, NEW d \in RDP!Dir, NEW i \in Instruction, RDP!Sends(d, i), pump[d].pc = "read",
           mine' = RDP!MineAfter(d, i), UNCHANGED <<h, rdpConn, rights, received, filter, ledger>>,
           pump' = [pump EXCEPT ![d].pc = "return", ![d].err = "other"]
    PROVE  RDPInv'
<1>1. pump[d] \in PumpType /\ pump \in [RDP!Dir -> PumpType] /\ Traffic
    BY DEF RDPInv, Traffic
<1>. DEFINE p == [pump[d] EXCEPT !.pc = "return", !.err = "other"]
<1>2. p \in PumpType /\ p.pc = "return" /\ pump' = [pump EXCEPT ![d] = p]
    BY <1>1 DEF PumpType, RDP!Errs
<1>. HIDE DEF p
<1>3. mine' \in [RDP!Dir -> [Id -> Carried]] /\ \A e \in RDP!Dir : e # d => mine'[e] = mine[e]
    BY <1>1, MineNow, Zenon
<1>4. Traffic'
    BY <1>1, <1>2, <1>3 DEF Traffic
<1>5. ledger'[d].ended <= ledger'[d].noted
    BY DEF RDPInv, Counted
<1>. QED
    BY <1>2, <1>3, <1>4, <1>5, GoroutineReturns

(* What the filter's verdict says.                                         *)
LEMMA Verdicts ==
    ASSUME NEW d \in RDP!Dir, NEW i \in Instruction, RDP!Verdict(d, i) # "error"
    PROVE  /\ RDP!Verdict(d, i) \in {"pass", "drop"}
           /\ i.op \in RDP!StreamOps => i.id \notin filter[d].blocked \cup filter[d].streams
           /\ i.op \in RDP!ChannelOps => (RDP!Verdict(d, i) = "pass" <=> RDP!ChannelDecision(d, i.op))
           /\ i.op \in {"blob", "end"} => (RDP!Verdict(d, i) = "pass" <=> i.id \notin filter[d].blocked)
           /\ i.op \in {"other", "error"} => RDP!Verdict(d, i) = "pass"
<1>1. i.op \in {"blob", "end", "other", "error"} => i.op \notin RDP!ChannelOps
    BY DEF RDP!ChannelOps, RDP!StreamOps
<1>. QED
    BY <1>1 DEF RDP!Verdict, RDP!Refused

LEMMA ReadAccepted ==
    ASSUME RDPInv, NEW d \in RDP!Dir, NEW i \in Instruction, RDP!Sends(d, i), pump[d].pc = "read",
           RDP!Verdict(d, i) # "error",
           mine' = RDP!MineAfter(d, i), UNCHANGED <<h, rdpConn, rights, received>>,
           filter' = [filter EXCEPT ![d] = RDP!FilterAfter(d, i)],
           ledger' = IF i.op = "end" /\ RDP!Audited(d, i)
                     THEN [ledger EXCEPT ![d].noted = @ + filter[d].bytes[i.id]] ELSE ledger,
           pump' = IF RDP!Verdict(d, i) = "pass"
                   THEN [pump EXCEPT ![d].pc = "forward", ![d].i = i] ELSE pump
    PROVE  RDPInv'
<1>1. Traffic
    BY DEF RDPInv
<1>2. /\ mine' \in [RDP!Dir -> [Id -> Carried]]
      /\ \A e \in RDP!Dir : e # d => mine'[e] = mine[e]
      /\ i.op \in RDP!StreamOps \cup {"blob", "end"} => i.id \in Id
      /\ \A y \in Id : mine'[d][y] =
            IF y = i.id /\ i.id # NoId /\ i.op \in RDP!StreamOps \cup {"other"} THEN i.op
            ELSE IF y = i.id /\ i.op = "end" THEN "none" ELSE mine[d][y]
    BY <1>1, MineNow, Zenon
<1>. DEFINE f == filter[d]
            g == filter'[d]
<1>3. /\ g = RDP!FilterAfter(d, i) /\ \A e \in RDP!Dir : e # d => filter'[e] = filter[e]
      /\ DOMAIN filter' = RDP!Dir
    BY <1>1 DEF Traffic
<1>4. /\ g \in FilterType
      /\ \A y \in Id :
            /\ y \in g.streams <=>
                  IF y = i.id /\ i.op \in RDP!StreamOps /\ RDP!ChannelDecision(d, i.op) THEN TRUE
                  ELSE y \in f.streams /\ ~(y = i.id /\ i.op = "end")
            /\ y \in g.blocked <=>
                  IF y = i.id /\ i.op \in RDP!StreamOps /\ ~RDP!ChannelDecision(d, i.op) THEN TRUE
                  ELSE y \in f.blocked /\ ~(y = i.id /\ i.op = "end")
            /\ g.bytes[y] =
                  IF y = i.id /\ i.op \in RDP!StreamOps /\ RDP!ChannelDecision(d, i.op) THEN 0
                  ELSE IF y = i.id /\ i.op = "end" THEN 0
                  ELSE IF y = i.id /\ i.op = "blob" /\ y \in f.streams THEN f.bytes[y] + 1
                  ELSE f.bytes[y]
    BY <1>1, <1>3, FilterNow
<1>. HIDE DEF g
<1>5. /\ filter' \in [RDP!Dir -> FilterType] /\ f \in FilterType
    BY <1>1, <1>3, <1>4 DEF Traffic, g
<1>. DEFINE l == ledger[d]
            m == ledger'[d]
<1>6. /\ l \in LedgerType /\ m \in LedgerType /\ m.ended = l.ended /\ m.carried = l.carried
      /\ m.noted = IF i.op = "end" /\ i.id \in f.streams THEN l.noted + f.bytes[i.id] ELSE l.noted
      /\ \A e \in RDP!Dir : e # d => ledger'[e] = ledger[e]
      /\ ledger' \in [RDP!Dir -> LedgerType]
    <2>1. l \in LedgerType /\ ledger \in [RDP!Dir -> LedgerType]
        BY <1>1 DEF Traffic
    <2>2. i.op = "end" => (RDP!Audited(d, i) <=> i.id \in f.streams)
        BY DEF RDP!Audited, RDP!ChannelOps, RDP!StreamOps
    <2>3. CASE i.op = "end" /\ i.id \in f.streams
        <3>1. f.bytes[i.id] \in Nat
            BY <1>2, <1>5, <2>3 DEF FilterType
        <3>2. ledger' = [ledger EXCEPT ![d] = [l EXCEPT !.noted = l.noted + f.bytes[i.id]]]
            BY <2>1, <2>2, <2>3
        <3>3. PICK q : q = [l EXCEPT !.noted = l.noted + f.bytes[i.id]]
            OBVIOUS
        <3>4. q \in LedgerType /\ q.ended = l.ended /\ q.carried = l.carried /\ q.noted = l.noted + f.bytes[i.id]
            BY <2>1, <3>1, <3>3 DEF LedgerType
        <3>. QED
            BY <2>1, <2>3, <3>2, <3>3, <3>4
    <2>4. CASE ~(i.op = "end" /\ i.id \in f.streams)
        BY <2>1, <2>2, <2>4
    <2>. QED
        BY <2>3, <2>4
<1>. HIDE DEF m
<1>7. /\ RDP!Verdict(d, i) \in {"pass", "drop"}
      /\ i.op \in RDP!StreamOps => i.id \notin f.blocked \cup f.streams
      /\ i.op \in RDP!ChannelOps => (RDP!Verdict(d, i) = "pass" <=> RDP!ChannelDecision(d, i.op))
      /\ i.op \in {"blob", "end"} => (RDP!Verdict(d, i) = "pass" <=> i.id \notin f.blocked)
      /\ i.op \in {"other", "error"} => RDP!Verdict(d, i) = "pass"
    BY Verdicts
<1>8. /\ \A e \in RDP!Dir : e # d => pump'[e] = pump[e]
      /\ pump' \in [RDP!Dir -> PumpType] /\ pump'[d] \in PumpType
      /\ RDP!Verdict(d, i) = "pass" => pump'[d].pc = "forward" /\ pump'[d].i = i
      /\ RDP!Verdict(d, i) # "pass" => pump'[d].pc = "read"
    <2>1. pump[d] \in PumpType /\ pump \in [RDP!Dir -> PumpType] /\ i \in [op : RDP!Opcodes, id : Id \cup {NoId}]
        BY <1>1 DEF Traffic, Instruction
    <2>2. CASE RDP!Verdict(d, i) = "pass"
        <3>1. pump' = [pump EXCEPT ![d] = [pump[d] EXCEPT !.pc = "forward", !.i = i]]
            BY <2>1, <2>2
        <3>2. PICK q : q = [pump[d] EXCEPT !.pc = "forward", !.i = i]
            OBVIOUS
        <3>3. q \in PumpType /\ q.pc = "forward" /\ q.i = i
            BY <2>1, <3>2 DEF PumpType
        <3>. QED
            BY <2>1, <2>2, <3>1, <3>2, <3>3
    <2>3. CASE RDP!Verdict(d, i) # "pass"
        BY <2>1, <2>3
    <2>. QED
        BY <2>2, <2>3
<1>9. Traffic'
    BY <1>1, <1>2, <1>5, <1>6, <1>8 DEF Traffic
<1>10. StreamsKnown(d)'
    <2>1. SUFFICES ASSUME NEW y \in Id
          PROVE  /\ y \in g.streams <=> mine'[d][y] \in RDP!StreamOps /\ RDP!ChannelDecision(d, mine'[d][y])
                 /\ y \in g.blocked <=> mine'[d][y] \in RDP!StreamOps /\ ~RDP!ChannelDecision(d, mine'[d][y])
        BY DEF StreamsKnown, RDP!ChannelDecision, g
    <2>2. /\ y \in f.streams <=> mine[d][y] \in RDP!StreamOps /\ RDP!ChannelDecision(d, mine[d][y])
          /\ y \in f.blocked <=> mine[d][y] \in RDP!StreamOps /\ ~RDP!ChannelDecision(d, mine[d][y])
        BY DEF RDPInv, StreamsKnown, Running
    <2>3. "none" \notin RDP!StreamOps /\ "other" \notin RDP!StreamOps /\ "end" \notin RDP!StreamOps
        BY DEF RDP!StreamOps
    <2>4. /\ i.op = "other" /\ i.id # NoId => mine[d][i.id] = "none"
          /\ i.op \in RDP!StreamOps => i.id # NoId
        BY DEF RDP!Sends
    <2>5. CASE y = i.id /\ i.op \in RDP!StreamOps
        <3>1. mine'[d][y] = i.op /\ y \notin f.streams /\ y \notin f.blocked
            BY <1>2, <1>7, <2>4, <2>5
        <3>2. /\ y \in g.streams <=> RDP!ChannelDecision(d, i.op)
              /\ y \in g.blocked <=> ~RDP!ChannelDecision(d, i.op)
            BY <1>4, <2>5, <3>1
        <3>. QED
            BY <2>5, <3>1, <3>2
    <2>6. CASE y = i.id /\ i.op = "end"
        <3>1. mine'[d][y] = "none"
            BY <1>2, <2>3, <2>6
        <3>2. y \notin g.streams /\ y \notin g.blocked
            BY <1>4, <2>3, <2>6
        <3>. QED
            BY <2>3, <3>1, <3>2
    <2>7. CASE y = i.id /\ i.op = "other" /\ i.id # NoId
        <3>1. mine'[d][y] = "other" /\ mine[d][y] = "none"
            BY <1>2, <2>4, <2>7
        <3>2. y \notin g.streams /\ y \notin g.blocked
            BY <1>4, <2>2, <2>3, <2>7, <3>1
        <3>. QED
            BY <2>3, <3>1, <3>2
    <2>8. CASE ~(y = i.id /\ (i.op \in RDP!StreamOps \cup {"end"} \/ (i.op = "other" /\ i.id # NoId)))
        <3>1. mine'[d][y] = mine[d][y]
            BY <1>2, <2>8
        <3>2. (y \in g.streams <=> y \in f.streams) /\ (y \in g.blocked <=> y \in f.blocked)
            BY <1>4, <2>8
        <3>. QED
            BY <2>2, <3>1, <3>2
    <2>. QED
        BY <2>5, <2>6, <2>7, <2>8
<1>11. PassedFilter(d)'
    <2>1. CASE RDP!Verdict(d, i) = "pass"
        <3>1. i.op \in RDP!ChannelOps => RDP!ChannelDecision(d, i.op)'
            BY <1>7, <2>1 DEF RDP!ChannelDecision
        <3>2. i.op \in {"blob", "end"} => i.id \in Id
            BY <1>2
        <3>3. i.op = "blob" => i.id \notin g.blocked
            BY <1>2, <1>4, <1>7, <2>1 DEF RDP!StreamOps
        <3>. QED
            BY <1>8, <2>1, <3>1, <3>2, <3>3 DEF PassedFilter, g, RDP!ChannelDecision
    <2>2. CASE RDP!Verdict(d, i) # "pass"
        BY <1>8, <2>2 DEF PassedFilter
    <2>. QED
        BY <2>1, <2>2
<1>12. Counted(d)'
    <2>1. f.bytes \in [Id -> Nat] /\ l.noted \in Nat /\ l.ended \in Nat /\ l.carried \in [Id -> Nat] /\ l.ended <= l.noted
        BY <1>5, <1>6 DEF RDPInv, Counted, FilterType, LedgerType
    <2>2. m.ended <= m.noted
        BY <1>2, <1>6, <2>1
    <2>3. ASSUME rdpConn[RDP!Sink(d)] = "open"
          PROVE  /\ l.ended = l.noted
                 /\ \A y \in Id : l.carried[y] = f.bytes[y] /\ (y \notin f.streams => f.bytes[y] = 0)
        <3>1. Counted(d) /\ Running(d)
            BY DEF RDPInv, Running
        <3>2. pump[d].pc # "forward"
            OBVIOUS
        <3>. QED
            BY <2>3, <3>1, <3>2 DEF Counted, InHand
    <2>4. \A y \in Id : y \in f.streams => y \notin f.blocked
        BY DEF RDPInv, StreamsKnown, Running
    <2>5. ASSUME rdpConn[RDP!Sink(d)] = "open", NEW y \in Id
          PROVE  /\ y \notin g.streams => g.bytes[y] = 0
                 /\ ~InHand(d, y, "blob")' /\ ~InHand(d, y, "end")' => m.carried[y] = g.bytes[y]
                 /\ InHand(d, y, "blob")' => g.bytes[y] = m.carried[y] + (IF y \in g.streams THEN 1 ELSE 0)
                 /\ InHand(d, y, "end")' => m.noted = m.ended + m.carried[y] /\ y \notin g.streams
        <3>1. /\ l.ended = l.noted /\ l.carried[y] = f.bytes[y] /\ (y \notin f.streams => f.bytes[y] = 0)
              /\ f.bytes[y] \in Nat
            BY <2>1, <2>3, <2>5
        <3>2. \A op \in {"blob", "end"} : InHand(d, y, op)' <=> RDP!Verdict(d, i) = "pass" /\ i.op = op /\ i.id = y
            BY <1>8 DEF InHand
        <3>3. CASE i.id = y /\ i.op \in RDP!StreamOps
            BY <1>4, <1>6, <1>7, <3>1, <3>2, <3>3 DEF RDP!StreamOps
        <3>4. CASE i.id = y /\ i.op = "blob"
            <4>1. /\ y \in g.streams <=> y \in f.streams
                  /\ g.bytes[y] = IF y \in f.streams THEN f.bytes[y] + 1 ELSE f.bytes[y]
                BY <1>4, <3>4 DEF RDP!StreamOps
            <4>2. RDP!Verdict(d, i) # "pass" => y \notin f.streams
                BY <1>7, <2>4, <3>4
            <4>. QED
                BY <1>6, <3>1, <3>2, <3>4, <4>1, <4>2
        <3>5. CASE i.id = y /\ i.op = "end"
            <4>1. y \notin g.streams /\ g.bytes[y] = 0
                BY <1>4, <3>5 DEF RDP!StreamOps
            <4>2. RDP!Verdict(d, i) # "pass" => y \notin f.streams
                BY <1>7, <2>4, <3>5
            <4>. QED
                BY <1>6, <2>1, <3>1, <3>2, <3>5, <4>1, <4>2
        <3>6. CASE i.id # y \/ i.op \notin RDP!StreamOps \cup {"blob", "end"}
            <4>1. (y \in g.streams <=> y \in f.streams) /\ g.bytes[y] = f.bytes[y]
                BY <1>4, <3>6
            <4>. QED
                BY <1>6, <3>1, <3>2, <3>6, <4>1
        <3>. QED
            BY <3>3, <3>4, <3>5, <3>6
    <2>6. ASSUME rdpConn[RDP!Sink(d)] = "open", ~(pump'[d].pc = "forward" /\ pump'[d].i.op = "end")
          PROVE  m.ended = m.noted
        <3>1. i.op = "end" => RDP!Verdict(d, i) # "pass"
            BY <1>8, <2>6
        <3>2. i.op = "end" => i.id \notin f.streams
            BY <1>2, <1>7, <2>4, <3>1
        <3>. QED
            BY <1>6, <2>3, <2>6, <3>2
    <2>7. rdpConn[RDP!Sink(d)]' = rdpConn[RDP!Sink(d)]
        BY DEF RDP!Sink
    <2>. QED
        BY <2>2, <2>5, <2>6, <2>7 DEF Counted, g, m
<1>13. \A op \in received'[d] : RDP!Needs(d, op) \subseteq rights
    BY DEF RDPInv, RDP!OnlyPermittedTraffic
<1>14. pump'[d].pc # "off"
    BY <1>7, <1>8
<1>. QED
    BY <1>2, <1>3, <1>6, <1>8, <1>9, <1>10, <1>11, <1>12, <1>13, <1>14, OneDirection

LEMMA ReadKeeps ==
    ASSUME RDPInv, NEW d \in RDP!Dir, NEW i \in Instruction, RDP!ReadInstruction(d, i)
    PROVE  RDPInv'
<1>1. /\ pump[d].pc = "read" /\ RDP!Sends(d, i) /\ mine' = RDP!MineAfter(d, i)
      /\ UNCHANGED <<h, rdpConn, rights, received>>
    BY DEF RDP!ReadInstruction
<1>2. CASE /\ pump' = [pump EXCEPT ![d].pc = "return", ![d].err = "other"]
           /\ UNCHANGED <<filter, ledger>>
    BY <1>1, <1>2, ReadRefused
<1>3. CASE /\ RDP!Verdict(d, i) # "error"
           /\ filter' = [filter EXCEPT ![d] = RDP!FilterAfter(d, i)]
           /\ ledger' = IF i.op = "end" /\ RDP!Audited(d, i)
                        THEN [ledger EXCEPT ![d].noted = @ + filter[d].bytes[i.id]] ELSE ledger
           /\ pump' = IF RDP!Verdict(d, i) = "pass"
                      THEN [pump EXCEPT ![d].pc = "forward", ![d].i = i] ELSE pump
    BY <1>1, <1>3, ReadAccepted
<1>. QED
    BY <1>2, <1>3 DEF RDP!ReadInstruction

(* The policy lets an opcode pass only if the rights allow what it does.   *)
LEMMA DecisionNeeds ==
    ASSUME PolicyKept, NEW d \in RDP!Dir, NEW op \in RDP!ChannelOps, RDP!ChannelDecision(d, op)
    PROVE  RDP!Needs(d, op) \subseteq rights
BY DEF PolicyKept, RDP!ChannelDecision, RDP!Needs, RDP!ChannelOps, RDP!StreamOps, RDP!Dir

LEMMA ForwardKeeps ==
    ASSUME RDPInv, NEW d \in RDP!Dir, RDP!Forward(d)
    PROVE  RDPInv'
<1>. DEFINE i == pump[d].i
            next == IF i.op = "error" THEN "return" ELSE "read"
<1>1. /\ pump[d].pc = "forward" /\ UNCHANGED <<h, rdpConn, filter, mine, rights>>
      /\ pump' = [pump EXCEPT ![d].pc = next,
                              ![d].err = IF i.op = "error" THEN "guacd" ELSE @,
                              ![d].i = RDP!NoInstruction]
    BY DEF RDP!Forward
<1>2. Traffic /\ pump[d] \in PumpType /\ pump \in [RDP!Dir -> PumpType] /\ i \in Instruction
    BY DEF RDPInv, Traffic, PumpType, Instruction
<1>3. /\ pump' \in [RDP!Dir -> PumpType] /\ pump'[d].pc = next
      /\ \A e \in RDP!Dir : e # d => pump'[e] = pump[e]
    <2>1. PICK q : q = [pump[d] EXCEPT !.pc = next, !.err = IF i.op = "error" THEN "guacd" ELSE @,
                                       !.i = RDP!NoInstruction]
        OBVIOUS
    <2>2. RDP!NoInstruction \in [op : RDP!Opcodes, id : Id \cup {NoId}]
        BY DEF RDP!NoInstruction, RDP!Opcodes
    <2>3. q \in PumpType /\ q.pc = next
        BY <1>2, <2>1, <2>2 DEF PumpType, RDP!Errs
    <2>4. pump' = [pump EXCEPT ![d] = q]
        BY <1>1, <1>2, <2>1
    <2>. QED
        BY <1>2, <2>3, <2>4
<1>4. next \in {"return", "read"}
    OBVIOUS
<1>. HIDE DEF next
<1>5. StreamsKnown(d)' /\ PassedFilter(d)'
    <2>1. StreamsKnown(d)'
        <3>1. StreamsKnown(d) /\ Running(d)
            BY <1>1 DEF RDPInv, Running
        <3>. QED
            BY <1>1, <3>1 DEF StreamsKnown, RDP!ChannelDecision
    <2>2. PassedFilter(d)'
        BY <1>3, <1>4 DEF PassedFilter
    <2>. QED
        BY <2>1, <2>2
<1>6. CASE rdpConn[RDP!Sink(d)] # "open" /\ UNCHANGED <<received, ledger>>
    <2>1. Counted(d)'
        <3>1. rdpConn[RDP!Sink(d)]' # "open"
            BY <1>1, <1>6 DEF RDP!Sink
        <3>. QED
            BY <1>6, <3>1 DEF RDPInv, Counted
    <2>2. \A op \in received'[d] : RDP!Needs(d, op) \subseteq rights
        BY <1>6 DEF RDPInv, RDP!OnlyPermittedTraffic
    <2>3. Traffic'
        BY <1>1, <1>2, <1>3, <1>6 DEF Traffic
    <2>. QED
        BY <1>1, <1>3, <1>4, <1>5, <1>6, <2>1, <2>2, <2>3, OneDirection
<1>7. CASE rdpConn[RDP!Sink(d)] = "open" /\ RDP!Receive(d, i)
    <2>. DEFINE l == ledger[d]
                m == ledger'[d]
                f == filter[d]
    <2>1. /\ i.op \in RDP!ChannelOps => RDP!ChannelDecision(d, i.op)
          /\ i.op \in {"blob", "end"} => i.id \in Id
          /\ i.op = "blob" => i.id \notin f.blocked
        BY <1>1 DEF RDPInv, PassedFilter
    <2>2. \A y \in Id :
              /\ y \in f.streams <=> mine[d][y] \in RDP!StreamOps /\ RDP!ChannelDecision(d, mine[d][y])
              /\ y \in f.blocked <=> mine[d][y] \in RDP!StreamOps /\ ~RDP!ChannelDecision(d, mine[d][y])
        BY <1>1 DEF RDPInv, StreamsKnown, Running
    <2>3. /\ received' \in [RDP!Dir -> SUBSET RDP!ChannelOps]
          /\ \A e \in RDP!Dir : e # d => received'[e] = received[e]
          /\ received'[d] = received[d] \cup ({IF i.op = "blob" THEN mine[d][i.id] ELSE i.op} \cap RDP!ChannelOps)
        BY <1>2, <1>7 DEF Traffic, RDP!Receive
    <2>4. ASSUME NEW op \in received'[d] PROVE RDP!Needs(d, op) \subseteq rights
        <3>1. CASE op \in received[d]
            BY <3>1 DEF RDPInv, RDP!OnlyPermittedTraffic
        <3>2. CASE i.op = "blob" /\ op = mine[d][i.id] /\ op \in RDP!ChannelOps
            <4>1. op \in RDP!StreamOps
                BY <1>2, <2>1, <3>2 DEF Traffic, Carried, RDP!ChannelOps, RDP!StreamOps
            <4>2. RDP!ChannelDecision(d, op)
                BY <2>1, <2>2, <3>2, <4>1
            <4>. QED
                BY <3>2, <4>2, DecisionNeeds DEF RDPInv
        <3>3. CASE i.op # "blob" /\ op = i.op /\ op \in RDP!ChannelOps
            BY <2>1, <3>3, DecisionNeeds DEF RDPInv
        <3>. QED
            BY <2>3, <3>1, <3>2, <3>3
    <2>5. /\ l \in LedgerType /\ m \in LedgerType /\ ledger' \in [RDP!Dir -> LedgerType]
          /\ \A e \in RDP!Dir : e # d => ledger'[e] = ledger[e]
          /\ m.noted = l.noted
          /\ m.ended = IF i.op = "end" THEN l.ended + l.carried[i.id] ELSE l.ended
          /\ \A y \in Id : m.carried[y] =
                IF i.op = "blob" /\ i.id = y /\ mine[d][y] \in RDP!StreamOps THEN l.carried[y] + 1
                ELSE IF i.op = "end" /\ i.id = y THEN 0 ELSE l.carried[y]
        <3>1. l \in LedgerType /\ ledger \in [RDP!Dir -> LedgerType] /\ l.carried \in [Id -> Nat]
            BY <1>2 DEF Traffic, LedgerType
        <3>2. CASE i.op = "blob" /\ mine[d][i.id] \in RDP!StreamOps
            <4>1. PICK c : c = [l.carried EXCEPT ![i.id] = l.carried[i.id] + 1]
                OBVIOUS
            <4>2. /\ c \in [Id -> Nat]
                  /\ \A y \in Id : c[y] = IF i.id = y THEN l.carried[y] + 1 ELSE l.carried[y]
                BY <2>1, <3>1, <3>2, <4>1
            <4>3. PICK q : q = [l EXCEPT !.carried = c]
                OBVIOUS
            <4>4. q \in LedgerType /\ q.carried = c /\ q.noted = l.noted /\ q.ended = l.ended
                BY <3>1, <4>2, <4>3 DEF LedgerType
            <4>5. ledger' = [ledger EXCEPT ![d] = q]
                BY <1>7, <3>1, <3>2, <4>1, <4>3 DEF RDP!Receive
            <4>. QED
                BY <3>1, <3>2, <4>2, <4>4, <4>5
        <3>3. CASE i.op = "end"
            <4>1. PICK c : c = [l.carried EXCEPT ![i.id] = 0]
                OBVIOUS
            <4>2. /\ c \in [Id -> Nat] /\ l.carried[i.id] \in Nat
                  /\ \A y \in Id : c[y] = IF i.id = y THEN 0 ELSE l.carried[y]
                BY <2>1, <3>1, <3>3, <4>1
            <4>3. PICK n, q : n = l.ended + l.carried[i.id] /\ q = [l EXCEPT !.carried = c, !.ended = n]
                OBVIOUS
            <4>4. n \in Nat
                BY <3>1, <4>2, <4>3 DEF LedgerType
            <4>5. q \in LedgerType /\ q.carried = c /\ q.noted = l.noted /\ q.ended = n
                BY <3>1, <4>2, <4>3, <4>4 DEF LedgerType
            <4>6. ledger' = [ledger EXCEPT ![d].carried[i.id] = 0, ![d].ended = @ + ledger[d].carried[i.id]]
                BY <1>7, <3>3 DEF RDP!Receive
            <4>7. [l EXCEPT !.carried = c].ended = l.ended
                BY <3>1 DEF LedgerType
            <4>8. ledger' = [ledger EXCEPT ![d] = q]
                BY <3>1, <4>1, <4>3, <4>6, <4>7
            <4>. QED
                BY <3>1, <3>3, <4>2, <4>3, <4>5, <4>8
        <3>4. CASE i.op # "end" /\ ~(i.op = "blob" /\ mine[d][i.id] \in RDP!StreamOps)
            <4>1. ledger' = ledger
                BY <1>7, <3>4 DEF RDP!Receive
            <4>. QED
                BY <3>1, <3>4, <4>1
        <3>. QED
            BY <3>2, <3>3, <3>4
    <2>6. Counted(d)'
        <3>1. f.bytes \in [Id -> Nat] /\ l.noted \in Nat /\ l.ended \in Nat /\ l.carried \in [Id -> Nat]
            BY <1>2 DEF Traffic, FilterType, LedgerType
        <3>2. Counted(d) /\ Running(d)
            BY <1>1 DEF RDPInv, Running
        <3>3. ASSUME NEW y \in Id
              PROVE  m.carried[y] = f.bytes[y] /\ (y \notin f.streams => f.bytes[y] = 0)
            <4>1. i.op = "blob" => (i.id \in f.streams <=> mine[d][i.id] \in RDP!StreamOps)
                BY <2>1, <2>2
            <4>2. CASE i.op = "blob" /\ i.id = y
                <5>1. InHand(d, y, "blob")
                    BY <1>1, <4>2 DEF InHand
                <5>. QED
                    BY <1>7, <2>5, <3>1, <3>2, <4>1, <4>2, <5>1 DEF Counted
            <4>3. CASE i.op = "end" /\ i.id = y
                <5>1. InHand(d, y, "end")
                    BY <1>1, <4>3 DEF InHand
                <5>. QED
                    BY <1>7, <2>5, <3>2, <4>3, <5>1 DEF Counted
            <4>4. CASE ~(i.op \in {"blob", "end"} /\ i.id = y)
                <5>1. ~InHand(d, y, "blob") /\ ~InHand(d, y, "end")
                    BY <4>4 DEF InHand
                <5>. QED
                    BY <1>7, <2>5, <3>2, <4>4, <5>1 DEF Counted
            <4>. QED
                BY <4>2, <4>3, <4>4
        <3>4. m.ended = m.noted
            <4>1. CASE i.op = "end"
                <5>1. InHand(d, i.id, "end") /\ i.id \in Id
                    BY <1>1, <2>1, <4>1 DEF InHand
                <5>. QED
                    BY <1>7, <2>5, <3>1, <3>2, <4>1, <5>1 DEF Counted
            <4>2. CASE i.op # "end"
                BY <1>7, <2>5, <3>2, <4>2 DEF Counted
            <4>. QED
                BY <4>1, <4>2
        <3>5. m.noted \in Nat
            BY <2>5, <3>1
        <3>6. \A y \in Id : ~InHand(d, y, "blob")' /\ ~InHand(d, y, "end")'
            BY <1>3, <1>4 DEF InHand
        <3>. QED
            BY <1>1, <1>3, <1>4, <3>3, <3>4, <3>5, <3>6 DEF Counted
    <2>7. Traffic'
        BY <1>1, <1>2, <1>3, <2>3, <2>5 DEF Traffic
    <2>. QED
        BY <1>1, <1>3, <1>4, <1>5, <2>3, <2>4, <2>5, <2>6, <2>7, OneDirection
<1>. QED
    BY <1>6, <1>7 DEF RDP!Forward

LEMMA RDPInvNext ==
    ASSUME RDPInv, [RDP!Next]_RDP!vars
    PROVE  RDPInv'
<1>1. CASE RDP!Authorize
    BY <1>1, AuthorizeKeeps
<1>2. CASE RDP!Register
    BY <1>2, RegisterKeeps
<1>3. CASE \E d \in RDP!Dir : RDP!PumpStep(d)
    BY <1>3, ReadFailsKeeps, ForwardKeeps, SendResultKeeps DEF RDP!PumpStep
<1>4. CASE \E d \in RDP!Dir : \E op \in RDP!Opcodes, x \in Id \cup {NoId} :
              RDP!ReadInstruction(d, [op |-> op, id |-> x])
    <2>1. PICK d \in RDP!Dir, op \in RDP!Opcodes, x \in Id \cup {NoId} :
              RDP!ReadInstruction(d, [op |-> op, id |-> x])
        BY <1>4
    <2>2. [op |-> op, id |-> x] \in Instruction
        BY DEF Instruction
    <2>. QED
        BY <2>1, <2>2, ReadKeeps
<1>5. CASE UNCHANGED RDP!vars
    BY <1>5, BesideRelay DEF RDP!vars
<1>6. CASE \/ RDP!CreateTicket \/ RDP!ConsumeTicket \/ RDP!BeginAudit \/ RDP!Dial \/ RDP!PerformHandshake
           \/ RDP!Upgrade \/ RDP!Activate \/ RDP!RelayDone \/ RDP!RelayResult \/ RDP!GraceResult
           \/ RDP!GraceTimeout \/ RDP!Unregister \/ RDP!FinishAudit
           \/ \E c \in {"browser", "guacd"}, how \in {"left", "lost"} : RDP!PeerLeaves(c, how)
           \/ RDP!ClientCancels \/ RDP!ExpiryPasses \/ RDP!Disconnect \/ RDP!ChangeAccount
    BY <1>6, BesideSteps
<1>. QED
    BY <1>1, <1>2, <1>3, <1>4, <1>5, <1>6 DEF RDP!Next, RDP!HandlerStep

(* For any number of streams, instructions and events, whatever the peers  *)
(* send and an administrator changes: only what the rights in force when   *)
(* the ticket was consumed permit reaches the other side, and the byte     *)
(* counts of the audit are those of the transfers the receiver saw end.    *)
THEOREM TrafficCorrect == MCSpec => []TrafficPermitted
<1>. DEFINE Inv == part = "rdp" => RDPInv
<1>1. MCInit => Inv
    BY RDPInit DEF MCInit
<1>2. Inv /\ [GatewayNext \/ RDPNext]_all => Inv'
    <2>. SUFFICES ASSUME Inv, [GatewayNext \/ RDPNext]_all PROVE Inv'
        OBVIOUS
    <2>1. UNCHANGED part
        BY DEF GatewayNext, RDPNext, all
    <2>2. part = "rdp" => [RDP!Next]_RDP!vars
        BY DEF GatewayNext, RDPNext, all, rdpVars, RDP!vars
    <2>. QED
        BY <2>1, <2>2, RDPInvNext
<1>3. RDPInv => RDP!TrafficPermitted
    BY DEF RDPInv, Counted, Running, RDP!TrafficPermitted, RDP!EndedTransfersCounted
<1>4. Inv => TrafficPermitted
    BY <1>3 DEF TrafficPermitted
<1>. QED
    BY <1>1, <1>2, <1>4, PTL DEF MCSpec
==============================================================================
