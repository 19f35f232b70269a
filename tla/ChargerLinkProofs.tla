-------------------------- MODULE ChargerLinkProofs --------------------------
(***************************************************************************)
(* Proofs about ChargerLink, for any number of chargers and sockets: the   *)
(* tables stand for sockets that are served, and the connections implement *)
(* ChargerReach.                                                           *)
(***************************************************************************)
EXTENDS ChargerLink, TLAPS

USE DEF Handling, Closing

\* A socket has a coroutine from its opening on, and a charger has one open
\* socket at most.
SocketInv ==
    /\ \A c \in Conn : net[c] = "new" <=> coro[c] = "none"
    /\ \A c, d \in Conn :
          ChargerOf[c] = ChargerOf[d] /\ net[c] = "open" /\ net[d] = "open" => c = d

IInv == TypeOK /\ RegisteredIsServed /\ SocketInv

-----------------------------------------------------------------------------
LEMMA InitIInv == Init => IInv
  BY LinkAssumption DEF Init, IInv, TypeOK, RegisteredIsServed, SocketInv, Status

LEMMA TypeStep ==
    ASSUME TypeOK, [Next]_vars
    PROVE  TypeOK'
<1> USE LinkAssumption DEF TypeOK, Status, Goto, At, Show, Record
<1>1. ASSUME NEW c \in Conn, Connect(c)
      PROVE  TypeOK'
  BY <1>1 DEF Connect
<1>2. ASSUME NEW c \in Conn, Drop(c)
      PROVE  TypeOK'
  BY <1>2 DEF Drop
<1>3. ASSUME NEW c \in Conn, Detect(c)
      PROVE  TypeOK'
  BY <1>3 DEF Detect
<1>4. ASSUME NEW c \in Conn, Heartbeat(c) \/ HeartbeatRow(c) \/ BootNotification(c)
                              \/ BootLive(c) \/ Spawn(c)
      PROVE  TypeOK'
  BY <1>4 DEF Heartbeat, HeartbeatRow, BootNotification, BootLive, Spawn
<1>5. ASSUME NEW c \in Conn, OffLive(c) \/ OffRow(c)
      PROVE  TypeOK'
  BY <1>5 DEF OffLive, OffRow
<1>6. ASSUME NEW c \in Conn, Abort(c)
      PROVE  TypeOK'
  BY <1>6 DEF Abort, Fault
<1>7. CASE Restart
  BY <1>7 DEF Restart, Fault
<1>8. CASE UNCHANGED vars
  BY <1>8 DEF vars
<1> QED BY <1>1, <1>2, <1>3, <1>4, <1>5, <1>6, <1>7, <1>8 DEF Next, Step, FromCharger

\* What a step of a handler, or of on_disconnect, does to the connections.
InHandler(c) ==
    /\ coro[c] # "none"
    /\ \E pc \in {"loop", "ended"} \cup Handling \cup Closing :
          /\ coro' = [coro EXCEPT ![c] = pc]
          /\ coro[c] \in {"loop"} \cup Handling => pc \in {"loop"} \cup Handling
    /\ UNCHANGED <<net, conns, handlers>>

LEMMA HandlerSteps ==
    ASSUME NEW c \in Conn,
           \/ Heartbeat(c) \/ HeartbeatRow(c) \/ BootNotification(c) \/ BootLive(c)
           \/ Spawn(c) \/ OffLive(c) \/ OffRow(c) \/ Abort(c)
    PROVE  InHandler(c)
<1> USE DEF InHandler, At, Goto
<1>1. CASE Heartbeat(c) \/ HeartbeatRow(c)
  BY <1>1 DEF Heartbeat, HeartbeatRow
<1>2. CASE BootNotification(c) \/ BootLive(c) \/ Spawn(c)
  BY <1>2 DEF BootNotification, BootLive, Spawn
<1>3. CASE OffLive(c) \/ OffRow(c)
  BY <1>3 DEF OffLive, OffRow
<1>4. CASE Abort(c)
  BY <1>4 DEF Abort
<1> QED BY <1>1, <1>2, <1>3, <1>4

LEMMA LinkStep ==
    ASSUME IInv, [Next]_vars
    PROVE  RegisteredIsServed' /\ SocketInv'
<1> USE LinkAssumption DEF IInv, TypeOK, RegisteredIsServed, SocketInv
<1>1. ASSUME NEW c \in Conn, Connect(c)
      PROVE  RegisteredIsServed' /\ SocketInv'
  BY <1>1 DEF Connect, Goto
<1>2. ASSUME NEW c \in Conn, Drop(c)
      PROVE  RegisteredIsServed' /\ SocketInv'
  BY <1>2 DEF Drop
<1>3. ASSUME NEW c \in Conn, Detect(c)
      PROVE  RegisteredIsServed' /\ SocketInv'
  BY <1>3 DEF Detect, Goto, At
<1>4. ASSUME NEW c \in Conn, InHandler(c)
      PROVE  RegisteredIsServed' /\ SocketInv'
  BY <1>4 DEF InHandler
<1>5. CASE Restart
  BY <1>5 DEF Restart
<1>6. CASE UNCHANGED vars
  BY <1>6 DEF vars
<1> QED BY <1>1, <1>2, <1>3, <1>4, <1>5, <1>6, HandlerSteps DEF Next, Step, FromCharger

\* IInv is an invariant of the connections.
LEMMA IInvAlways == Spec => []IInv
<1>1. IInv /\ [Next]_vars => IInv'
  BY TypeStep, LinkStep DEF IInv
<1> QED BY <1>1, InitIInv, PTL DEF Spec

-----------------------------------------------------------------------------
(* Theorems.                                                               *)

\* The tables, statuses and coroutines are well formed.
THEOREM LinkTypeCorrect == Spec => []TypeOK
<1>1. IInv => TypeOK
  BY DEF IInv
<1> QED BY <1>1, IInvAlways, PTL

\* A registered socket is served by a coroutine, and its handler is the
\* registered one (server.py:57-70, main.py:76-97), for any number of sockets,
\* overlapping in any way.
THEOREM TablesServed == Spec => []RegisteredIsServed
<1>1. IInv => RegisteredIsServed
  BY DEF IInv
<1> QED BY <1>1, IInvAlways, PTL

-----------------------------------------------------------------------------
(* The status of a charger, as long as no fault and no crossing happened.  *)

Active(c) == coro[c] \notin {"none", "ended"}

Calm(a) == a \notin crossed /\ faults = 0

\* Of a calm charger one coroutine at most is alive.  While it handles messages
\* its handler is registered, so that its end will find it; and where it is
\* suspended tells how far the two copies of the status have got.
Settling(a) ==
    /\ \A c, d \in Conn : ChargerOf[c] = a /\ ChargerOf[d] = a /\ Active(c) /\ Active(d)
                          => c = d
    /\ \A c \in Conn : ChargerOf[c] = a =>
          /\ coro[c] \in {"loop"} \cup Handling => handlers[a] = c
          /\ coro[c] \in {"loop", "spawn", "off_live"} => shown[a] = row[a]
          /\ coro[c] = "hb_row" => shown[a] = "online"
          /\ coro[c] = "boot_live" => row[a] = "online"
          /\ coro[c] = "off_row" => shown[a] = "offline"
    /\ (\A c \in Conn : ChargerOf[c] = a => ~Active(c)) =>
          shown[a] = row[a] /\ shown[a] # "online"

SettledInv == \A a \in Charger : Calm(a) => Settling(a)

\* A step about other chargers leaves the status of a alone.
LEMMA SettlingApart ==
    ASSUME NEW a \in Charger, Settling(a),
           \A c \in Conn : ChargerOf[c] = a => coro'[c] = coro[c],
           handlers'[a] = handlers[a], shown'[a] = shown[a], row'[a] = row[a]
    PROVE  Settling(a)'
BY DEF Settling, Active

\* The step of c, a socket of a, moved c alone.
Moves(c, a, pc) ==
    /\ c \in Conn /\ ChargerOf[c] = a
    /\ coro'[c] = pc
    /\ \A d \in Conn \ {c} : coro'[d] = coro[d]
    /\ \A b \in Charger \ {a} : /\ handlers'[b] = handlers[b]
                                /\ shown'[b] = shown[b] /\ row'[b] = row[b]

\* A coroutine that is alive stays the only one; what it has still to write is
\* what is said of the step it goes to.
LEMMA SettlingMoves ==
    ASSUME TypeOK, NEW c \in Conn, NEW a \in Charger, NEW pc, Moves(c, a, pc),
           Settling(a), Active(c),
           pc \in {"loop", "ended"} \cup Handling \cup Closing,
           pc \in {"loop"} \cup Handling => handlers'[a] = c,
           pc \in {"loop", "spawn", "off_live", "ended"} => shown'[a] = row'[a],
           pc = "hb_row" => shown'[a] = "online",
           pc = "boot_live" => row'[a] = "online",
           pc = "off_row" => shown'[a] = "offline",
           pc = "ended" => shown'[a] # "online"
    PROVE  Settling(a)'
<1>1. \A d \in Conn : ChargerOf[d] = a /\ d # c => ~Active(d) /\ coro'[d] = coro[d]
  BY DEF Settling, Moves
<1>2. \A d \in Conn : ChargerOf[d] = a /\ d # c => coro'[d] \in {"none", "ended"}
  BY <1>1 DEF Active
<1>3. coro'[c] = pc /\ ChargerOf[c] = a
  BY DEF Moves
<1>4. \A d, e \in Conn : ChargerOf[d] = a /\ ChargerOf[e] = a /\ Active(d)' /\ Active(e)'
                          => d = e
  BY <1>2 DEF Active
<1>5. \A d \in Conn : ChargerOf[d] = a =>
          /\ coro'[d] \in {"loop"} \cup Handling => handlers'[a] = d
          /\ coro'[d] \in {"loop", "spawn", "off_live"} => shown'[a] = row'[a]
          /\ coro'[d] = "hb_row" => shown'[a] = "online"
          /\ coro'[d] = "boot_live" => row'[a] = "online"
          /\ coro'[d] = "off_row" => shown'[a] = "offline"
  BY <1>2, <1>3
<1>6. (\A d \in Conn : ChargerOf[d] = a => ~Active(d)') =>
          shown'[a] = row'[a] /\ shown'[a] # "online"
  BY <1>3 DEF Active
<1> QED BY <1>4, <1>5, <1>6 DEF Settling

LEMMA SettledStep ==
    ASSUME IInv, SettledInv, [Next]_vars
    PROVE  SettledInv'
<1> SUFFICES ASSUME NEW a \in Charger, Calm(a)' PROVE Settling(a)'
  BY DEF SettledInv
<1>a. TypeOK
  BY DEF IInv
<1>b. faults \in Nat
  BY LinkAssumption DEF IInv, TypeOK
<1>1. Calm(a) /\ Settling(a)
  <2>1. crossed \subseteq crossed' /\ (faults' = faults \/ faults' = faults + 1)
    BY DEF Next, Step, FromCharger, Connect, Drop, Detect, Heartbeat, HeartbeatRow,
           BootNotification, BootLive, Spawn, OffLive, OffRow, Abort, Restart, Fault, vars
  <2> QED BY <1>b, <2>1 DEF Calm, SettledInv
<1>2. faults' = faults
  BY <1>1 DEF Calm
<1>3. ASSUME NEW c \in Conn, NEW pc, Moves(c, ChargerOf[c], pc), ChargerOf[c] # a
      PROVE  Settling(a)'
  BY <1>1, <1>3, SettlingApart DEF Moves
<1>4. ASSUME NEW c \in Conn, Connect(c) PROVE Settling(a)'
  <2>1. Moves(c, ChargerOf[c], "loop")
    BY <1>4, <1>a DEF Connect, Moves, Goto, TypeOK
  <2>2. CASE ChargerOf[c] = a
    <3>1. \A d \in Conn : ChargerOf[d] = a => coro[d] \in {"none", "ended"}
      BY <1>4, <2>2, <1>a DEF Connect, Calm
    <3>2. shown[a] = row[a] /\ shown'[a] = shown[a] /\ row'[a] = row[a] /\ handlers'[a] = c
      BY <1>1, <1>4, <2>2, <3>1, <1>a DEF Settling, Active, Connect, TypeOK
    <3>3. coro'[c] = "loop" /\ \A d \in Conn : ChargerOf[d] = a /\ d # c =>
                                                 coro'[d] \in {"none", "ended"}
      BY <2>1, <3>1 DEF Moves
    <3> QED BY <2>2, <3>2, <3>3 DEF Settling, Active
  <2> QED BY <1>3, <2>1, <2>2
<1>5. ASSUME NEW c \in Conn, Drop(c) PROVE Settling(a)'
  BY <1>1, <1>5, SettlingApart DEF Drop
<1>6. ASSUME NEW c \in Conn, Detect(c) PROVE Settling(a)'
  <2> DEFINE pc == IF handlers[ChargerOf[c]] = None THEN "ended" ELSE "off_live"
  <2>1. Moves(c, ChargerOf[c], pc)
    BY <1>6, <1>a DEF Detect, Moves, Goto, TypeOK
  <2>2. CASE ChargerOf[c] = a
    <3>1. coro[c] = "loop" /\ UNCHANGED <<shown, row>>
      BY <1>6 DEF Detect, At
    <3>2. handlers[a] = c /\ shown[a] = row[a] /\ Active(c)
      BY <1>1, <2>2, <3>1 DEF Settling, Active
    <3>3. pc = "off_live"
      BY <2>2, <3>2, LinkAssumption
    <3> QED BY <1>1, <1>a, <2>1, <2>2, <3>1, <3>2, <3>3, SettlingMoves
  <2> QED BY <1>3, <2>1, <2>2
<1>7. ASSUME NEW c \in Conn, Heartbeat(c) \/ HeartbeatRow(c) \/ BootNotification(c)
                              \/ BootLive(c) \/ Spawn(c)
      PROVE  Settling(a)'
  <2>1. PICK pc \in {"loop"} \cup Handling :
          /\ Moves(c, ChargerOf[c], pc)
          /\ coro[c] \in {"loop"} \cup Handling /\ UNCHANGED handlers
          /\ pc = "spawn" => \/ /\ coro[c] = "hb_row" /\ UNCHANGED shown
                                /\ row'[ChargerOf[c]] = "online"
                             \/ /\ coro[c] = "boot_live" /\ UNCHANGED row
                                /\ shown'[ChargerOf[c]] = "online"
          /\ pc = "loop" => coro[c] = "spawn" /\ UNCHANGED <<shown, row>>
          /\ pc = "hb_row" => shown'[ChargerOf[c]] = "online"
          /\ pc = "boot_live" => row'[ChargerOf[c]] = "online"
    <3> USE <1>a, LinkAssumption DEF TypeOK, At, Goto, Show, Record, Moves
    <3>1. CASE Heartbeat(c)
      BY <3>1 DEF Heartbeat
    <3>2. CASE HeartbeatRow(c)
      BY <3>2 DEF HeartbeatRow
    <3>3. CASE BootNotification(c)
      BY <3>3 DEF BootNotification
    <3>4. CASE BootLive(c)
      BY <3>4 DEF BootLive
    <3>5. CASE Spawn(c)
      BY <3>5 DEF Spawn
    <3> QED BY <1>7, <3>1, <3>2, <3>3, <3>4, <3>5
  <2>2. CASE ChargerOf[c] = a
    <3>1. handlers'[a] = c /\ Active(c)
      BY <1>1, <2>1, <2>2 DEF Settling, Active
    <3>2. pc \in {"loop", "spawn"} => shown'[a] = row'[a]
      BY <1>1, <2>1, <2>2 DEF Settling
    <3> QED BY <1>1, <1>a, <2>1, <2>2, <3>1, <3>2, SettlingMoves
  <2> QED BY <1>3, <2>1, <2>2
<1>8. ASSUME NEW c \in Conn, OffLive(c) \/ OffRow(c) PROVE Settling(a)'
  <2>1. PICK pc \in {"off_row", "ended"} :
          /\ Moves(c, ChargerOf[c], pc)
          /\ coro[c] \in Closing /\ UNCHANGED handlers
          /\ pc = "off_row" => shown'[ChargerOf[c]] = "offline"
          /\ pc = "ended" => /\ coro[c] = "off_row" /\ UNCHANGED shown
                             /\ row'[ChargerOf[c]] = "offline"
    <3> USE <1>a, LinkAssumption DEF TypeOK, At, Goto, Show, Record, Moves
    <3>1. CASE OffLive(c)
      BY <3>1 DEF OffLive
    <3>2. CASE OffRow(c)
      BY <3>2 DEF OffRow
    <3> QED BY <1>8, <3>1, <3>2
  <2>2. CASE ChargerOf[c] = a
    <3>1. Active(c)
      BY <2>1 DEF Active
    <3>2. pc = "ended" => shown'[a] = "offline" /\ row'[a] = "offline"
      BY <1>1, <2>1, <2>2 DEF Settling
    <3> QED BY <1>1, <1>a, <2>1, <2>2, <3>1, <3>2, SettlingMoves
  <2> QED BY <1>3, <2>1, <2>2
<1>9. ASSUME NEW c \in Conn, Abort(c) PROVE FALSE
  BY <1>2, <1>9, <1>b DEF Abort, Fault
<1>10. ~Restart
  BY <1>2, <1>b DEF Restart, Fault
<1>11. CASE UNCHANGED vars
  BY <1>1, <1>11, SettlingApart DEF vars
<1> QED BY <1>4, <1>5, <1>6, <1>7, <1>8, <1>9, <1>10, <1>11 DEF Next, Step, FromCharger

\* Without a fault, and without a socket that outlives the opening of the next,
\* Redis and the database agree between messages, and a charger without a socket is
\* not shown as online (main.py:93-97, handler.py:336-347).
THEOREM StatusSettles == Spec => []StatusSettled
<1>1. Init => SettledInv
  BY DEF Init, SettledInv, Settling, Active
<1>2. IInv /\ SettledInv /\ [Next]_vars => SettledInv'
  BY SettledStep
<1>3. IInv /\ SettledInv => StatusSettled
  <2> SUFFICES ASSUME IInv, SettledInv, NEW a \in Charger, Calm(a)
               PROVE  LET mine == {c \in Conn : ChargerOf[c] = a}
                      IN /\ (\A c \in mine : coro[c] \in {"none", "loop", "ended"}) =>
                              shown[a] = row[a]
                         /\ (\A c \in mine : coro[c] \in {"none", "ended"}) =>
                              shown[a] # "online"
    BY DEF StatusSettled, Calm
  <2>1. Settling(a)
    BY DEF SettledInv
  <2> QED BY <2>1 DEF Settling, Active
<1> QED BY <1>1, <1>2, <1>3, IInvAlways, PTL DEF Spec

-----------------------------------------------------------------------------
(* The connections implement what the rest of the system sees of them.     *)

UpMap  == [a \in Charger |-> UpOf(a)]
RegMap == [a \in Charger |-> RegOf(a)]

LEMMA ReachStutters ==
    ASSUME UNCHANGED <<net, conns>>
    PROVE  UNCHANGED Reach!reachVars
BY DEF Reach!reachVars, UpOf, RegOf

\* What a step leaves alone of the chargers it is not about.
LEMMA OthersApart ==
    ASSUME IInv, NEW a \in Charger, NEW b \in Charger, b # a,
           conns'[b] = conns[b],
           \A d \in Conn : ChargerOf[d] # a => net'[d] = net[d]
    PROVE  UpOf(b)' = UpOf(b) /\ RegOf(b)' = RegOf(b)
<1>1. \A d \in Conn : ChargerOf[d] = b => net'[d] = net[d]
  OBVIOUS
<1>2. conns[b] # None => conns[b] \in Conn /\ ChargerOf[conns[b]] = b
  BY DEF IInv, TypeOK, RegisteredIsServed
<1>3. UpOf(b)' = UpOf(b)
  BY <1>1 DEF UpOf
<1>4. RegOf(b)' = RegOf(b)
  BY <1>1, <1>2 DEF RegOf
<1> QED BY <1>3, <1>4

LEMMA ReachArrives ==
    ASSUME IInv, NEW c \in Conn, Connect(c)
    PROVE  \E a \in Charger : Reach!Arrive(a)
<1>1. PICK a \in Charger : a = ChargerOf[c]
  BY LinkAssumption
<1>2. /\ ~UpOf(a)
      /\ net'[c] = "open" /\ conns'[a] = c
      /\ \A d \in Conn : d # c => net'[d] = net[d]
      /\ \A b \in Charger : b # a => conns'[b] = conns[b]
  BY <1>1 DEF Connect, UpOf, IInv, TypeOK
<1>3. UpOf(a)' /\ RegOf(a)' = "open"
  BY <1>1, <1>2, LinkAssumption DEF UpOf, RegOf
<1>4. \A b \in Charger : b # a => UpOf(b)' = UpOf(b) /\ RegOf(b)' = RegOf(b)
  BY <1>1, <1>2, OthersApart
<1>5. UpMap' = [UpMap EXCEPT ![a] = TRUE]
  BY <1>3, <1>4 DEF UpMap
<1>6. RegMap' = [RegMap EXCEPT ![a] = "open"]
  BY <1>3, <1>4 DEF RegMap
<1> QED BY <1>2, <1>5, <1>6 DEF Reach!Arrive, UpMap, RegMap

LEMMA ReachLoses ==
    ASSUME IInv, NEW c \in Conn, Drop(c)
    PROVE  \E a \in Charger : Reach!Lose(a)
<1>1. PICK a \in Charger : a = ChargerOf[c]
  BY LinkAssumption
<1>2. /\ net[c] = "open" /\ net'[c] = "gone"
      /\ conns' = conns
      /\ \A d \in Conn : d # c => net'[d] = net[d]
  BY DEF Drop, IInv, TypeOK
<1>3. \A d \in Conn : ChargerOf[d] = a /\ net[d] = "open" => d = c
  BY <1>1, <1>2 DEF IInv, SocketInv
<1>4. UpOf(a) /\ UpOf(a)' = FALSE
  BY <1>1, <1>2, <1>3 DEF UpOf
<1>5. RegOf(a)' = IF RegOf(a) = "open" THEN "dead" ELSE RegOf(a)
  <2>1. CASE conns[a] = None
    BY <1>1, <1>2, <2>1 DEF RegOf
  <2>2. CASE conns[a] # None
    <3>1. conns[a] \in Conn /\ ChargerOf[conns[a]] = a
      BY <2>2 DEF IInv, TypeOK, RegisteredIsServed
    <3>2. net'[conns[a]] # "open"
      BY <1>2, <1>3, <3>1
    <3>3. RegOf(a) \in {"open", "dead"} /\ RegOf(a)' = "dead"
      BY <1>2, <2>2, <3>2 DEF RegOf
    <3> QED BY <3>3
  <2> QED BY <2>1, <2>2
<1>6. \A b \in Charger : b # a => UpOf(b)' = UpOf(b) /\ RegOf(b)' = RegOf(b)
  BY <1>1, <1>2, OthersApart
<1>7. UpMap' = [UpMap EXCEPT ![a] = FALSE]
  BY <1>4, <1>6 DEF UpMap
<1>8. RegMap' = [RegMap EXCEPT ![a] = IF @ = "open" THEN "dead" ELSE @]
  BY <1>5, <1>6 DEF RegMap
<1> QED BY <1>4, <1>7, <1>8 DEF Reach!Lose, UpMap, RegMap

LEMMA ReachForgets ==
    ASSUME IInv, NEW c \in Conn, Detect(c)
    PROVE  UNCHANGED Reach!reachVars \/ \E a \in Charger : Reach!Forget(a)
<1>1. PICK a \in Charger : a = ChargerOf[c]
  BY LinkAssumption
<1>2. /\ net[c] = "gone" /\ net' = net
      /\ conns'[a] = None
      /\ \A b \in Charger : b # a => conns'[b] = conns[b]
      /\ conns' = [conns EXCEPT ![a] = None]
  BY <1>1 DEF Detect, IInv, TypeOK
<1>3. CASE conns[a] = None
  BY <1>2, <1>3, ReachStutters DEF IInv, TypeOK
<1>4. CASE conns[a] # None
  <2>1. RegOf(a) \in {"open", "dead"} /\ RegOf(a)' = "none"
    BY <1>1, <1>2, <1>4 DEF RegOf
  <2>2. UpMap' = UpMap
    BY <1>2 DEF UpMap, UpOf
  <2>3. \A b \in Charger : b # a => RegOf(b)' = RegOf(b)
    BY <1>2, OthersApart
  <2>4. RegMap' = [RegMap EXCEPT ![a] = "none"]
    BY <2>1, <2>3 DEF RegMap
  <2> QED BY <2>1, <2>2, <2>4 DEF Reach!Forget, UpMap, RegMap
<1> QED BY <1>3, <1>4

LEMMA ReachResets ==
    ASSUME IInv, Restart
    PROVE  Reach!Reset
<1>1. /\ \A c \in Conn : net'[c] = IF net[c] = "new" THEN "new" ELSE "gone"
      /\ \A a \in Charger : conns'[a] = None
  BY DEF Restart
<1>2. UpMap' = [a \in Charger |-> FALSE]
  BY <1>1 DEF UpMap, UpOf
<1>3. ASSUME NEW a \in Charger
      PROVE  RegOf(a)' = IF RegOf(a) = "never" THEN "never" ELSE "none"
  <2>1. CASE conns[a] # None
    <3>1. conns[a] \in Conn /\ ChargerOf[conns[a]] = a /\ net[conns[a]] # "new"
      BY <2>1 DEF IInv, TypeOK, RegisteredIsServed, SocketInv
    <3> QED BY <1>1, <2>1, <3>1 DEF RegOf
  <2>2. CASE conns[a] = None
    BY <1>1, <2>2 DEF RegOf
  <2> QED BY <2>1, <2>2
<1>4. RegMap' = [a \in Charger |-> IF RegMap[a] = "never" THEN "never" ELSE "none"]
  BY <1>3 DEF RegMap
<1> QED BY <1>2, <1>4 DEF Reach!Reset, UpMap, RegMap

LEMMA ReachStep == IInv /\ [Next]_vars => [Reach!ReachNext]_(Reach!reachVars)
<1> SUFFICES ASSUME IInv, [Next]_vars PROVE [Reach!ReachNext]_(Reach!reachVars)
  OBVIOUS
<1>1. ASSUME NEW c \in Conn, InHandler(c)
      PROVE  UNCHANGED Reach!reachVars
  BY <1>1, ReachStutters DEF InHandler
<1>2. CASE UNCHANGED vars
  BY <1>2, ReachStutters DEF vars
<1> QED BY <1>1, <1>2, HandlerSteps, ReachArrives, ReachLoses, ReachForgets, ReachResets
        DEF Next, Step, FromCharger, Reach!ReachNext

\* The connections, with sockets that end in any order, faults and restarts,
\* are what PaidStart takes them for: a command reaches an open registered
\* socket, and only the opening of a socket registers it.
THEOREM ImplementsReach == Spec => ReachSpec
<1>1. Init => Reach!ReachInit
  <2> SUFFICES ASSUME Init PROVE Reach!ReachInit
    OBVIOUS
  <2>1. \A a \in Charger : UpOf(a) = FALSE /\ RegOf(a) = "never"
    BY DEF Init, UpOf, RegOf
  <2>2. UpMap = [a \in Charger |-> FALSE] /\ RegMap = [a \in Charger |-> "never"]
    BY <2>1 DEF UpMap, RegMap
  <2> QED BY <2>2 DEF Reach!ReachInit, UpMap, RegMap
<1> QED BY <1>1, IInvAlways, ReachStep, PTL DEF Spec, ReachSpec, Reach!ReachSpec
=============================================================================
