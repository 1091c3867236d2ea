---------------------------- MODULE ClientProofs ----------------------------
(***************************************************************************)
(* Proofs about the two clients of the API.                                *)
(*                                                                         *)
(* LiveClient: one socket at most, one way back and a truthful state, for  *)
(* every number of faults and calls; that the dashboard only ever drives   *)
(* it by its own steps; and that what the page shows is never older than   *)
(* what the wire has brought it.                                           *)
(*                                                                         *)
(* Generator: every loss is counted, and the events of an order are stored *)
(* in the order of its course.                                             *)
(***************************************************************************)
EXTENDS Dashboard, Generator, SequenceFacts, TLAPS

USE LiveClientAssumption DEF LiveClientAssumption

Shut == {"aborted", "closing", "closed"}

\* Neither property is inductive alone: that only the socket in use can open rests on
\* OneLiveSocket, that a retry finds none in use rests on WayBack.
ClientInv == ClientTypeOK /\ OneLiveSocket /\ WayBack /\ StateTruthful

-----------------------------------------------------------------------------
(* Sockets.                                                                *)

\* dropSocket() leaves no socket that is not shut.
LEMMA DroppedShut ==
    ASSUME ClientTypeOK, OneLiveSocket, WayBack
    PROVE  /\ Dropped \in Seq(Phases) /\ Len(Dropped) = Len(phase)
           /\ \A s \in 1..Len(Dropped) : Dropped[s] \in Shut
<1>1. phase \in Seq(Phases) /\ attached \in 0..Len(phase) /\ Sockets = 1..Len(phase)
  BY DEF ClientTypeOK, Sockets
<1>2. CASE attached = 0
  BY <1>1, <1>2 DEF Dropped, OneLiveSocket, Shut
<1>3. CASE attached # 0
  <2> DEFINE to == IF phase[attached] = "connecting" THEN "aborted" ELSE "closing"
  <2>1. attached \in 1..Len(phase) /\ to \in Phases /\ to \in Shut
    BY <1>1, <1>3 DEF Phases, Shut
  <2>2. Dropped = [phase EXCEPT ![attached] = to]
    BY <1>3 DEF Dropped
  <2>3. /\ Dropped \in Seq(Phases) /\ Len(Dropped) = Len(phase)
        /\ \A j \in 1..Len(phase) : Dropped[j] = IF j = attached THEN to ELSE phase[j]
    <3> HIDE DEF to
    <3> QED
      BY <1>1, <2>1, <2>2, ExceptSeq
  <2>4. \A s \in 1..Len(phase) : s # attached => phase[s] \in Shut
    BY <1>1 DEF OneLiveSocket, Shut
  <2> QED
    BY <2>1, <2>3, <2>4
<1> QED
  BY <1>2, <1>3

\* One event of one socket, which is then in phase p.
LEMMA PhaseOfOne ==
    ASSUME ClientTypeOK, NEW s \in Sockets, NEW p \in Phases,
           phase' = [phase EXCEPT ![s] = p]
    PROVE  /\ phase' \in Seq(Phases) /\ Len(phase') = Len(phase) /\ Sockets' = Sockets
           /\ \A t \in Sockets : phase'[t] = IF t = s THEN p ELSE phase[t]
<1>1. phase \in Seq(Phases) /\ Sockets = 1..Len(phase)
  BY DEF ClientTypeOK, Sockets
<1>2. /\ phase' \in Seq(Phases) /\ Len(phase') = Len(phase)
      /\ \A t \in 1..Len(phase) : phase'[t] = IF t = s THEN p ELSE phase[t]
  BY <1>1, ExceptSeq
<1>3. Sockets' = 1..Len(phase')
  BY <1>2 DEF Sockets
<1> QED
  BY <1>1, <1>2, <1>3

-----------------------------------------------------------------------------
(* The shared steps.                                                       *)

\* A retry is scheduled while no socket is in use.
LEMMA ScheduleKeeps ==
    ASSUME ClientInv, running' = TRUE, attached' = 0, scheduleReconnect,
           phase' \in Seq(Phases), \A s \in 1..Len(phase') : phase'[s] \in Shut,
           faults' \in 0..MaxFaults, calls' \in 0..MaxCalls
    PROVE  ClientInv'
<1>1. /\ retryTimer' = TRUE /\ heartbeat' = FALSE /\ retryShown' = TRUE
      /\ status' = "reconnecting" /\ attempt' \in Nat
  BY DEF scheduleReconnect, ClientInv, ClientTypeOK
<1>2. Sockets' = 1..Len(phase') /\ Len(phase') \in Nat
  BY DEF Sockets
<1>3. ClientTypeOK'
  <2>1. attached' \in 0..Len(phase')
    BY <1>2
  <2> QED
    BY <1>1, <2>1 DEF ClientTypeOK
<1>4. OneLiveSocket'
  BY <1>2 DEF OneLiveSocket, Shut
<1>5. WayBack' /\ StateTruthful'
  BY <1>1 DEF WayBack, StateTruthful
<1> QED
  BY <1>3, <1>4, <1>5 DEF ClientInv

\* connect() of a running client that has shut every earlier socket.
LEMMA ConnectKeeps ==
    ASSUME ClientInv, running' = TRUE, calls' \in 0..MaxCalls,
           NEW sockets \in Seq(Phases), NEW beat \in BOOLEAN,
           \A s \in 1..Len(sockets) : sockets[s] \in Shut,
           connect(sockets, beat)
    PROVE  ClientInv'
<1>1. CASE /\ phase' = Append(sockets, "connecting") /\ attached' = Len(sockets) + 1
           /\ status' = (IF attempt = 0 THEN "connecting" ELSE "reconnecting")
           /\ retryTimer' = FALSE /\ heartbeat' = beat /\ retryShown' = FALSE
           /\ UNCHANGED <<attempt, faults>>
  <2>1. /\ phase' \in Seq(Phases) /\ Len(phase') = Len(sockets) + 1
        /\ \A s \in 1..Len(sockets) : phase'[s] = sockets[s]
        /\ phase'[Len(sockets) + 1] = "connecting" /\ Len(sockets) \in Nat
    BY <1>1, AppendProperties, "connecting" \in Phases DEF Phases
  <2>2. Sockets' = 1..(Len(sockets) + 1)
    BY <2>1 DEF Sockets
  <2>3. ClientTypeOK'
    <3>1. attached' \in 0..Len(phase')
      BY <1>1, <2>1
    <3>2. attempt' \in Nat /\ faults' \in 0..MaxFaults
      BY <1>1 DEF ClientTypeOK, ClientInv
    <3>3. status' \in {"connecting", "reconnecting"}
      BY <1>1
    <3> QED
      BY <1>1, <2>1, <3>1, <3>2, <3>3 DEF ClientTypeOK
  <2>4. OneLiveSocket'
    BY <1>1, <2>1, <2>2 DEF OneLiveSocket, Shut
  <2>5. WayBack'
    <3>1. attached' # 0 /\ phase'[attached'] = "connecting"
      BY <1>1, <2>1
    <3>2. retryTimer' = FALSE
      BY <1>1
    <3> QED
      BY <3>1, <3>2 DEF WayBack
  <2>6. StateTruthful'
    BY <1>1, <2>1 DEF StateTruthful
  <2> QED
    BY <2>3, <2>4, <2>5, <2>6 DEF ClientInv
<1>2. CASE Fault /\ phase' = sockets /\ attached' = 0 /\ scheduleReconnect
  <2>1. faults' \in 0..MaxFaults
    BY <1>2 DEF Fault, ClientInv, ClientTypeOK
  <2> QED
    BY <1>2, <2>1, ScheduleKeeps
<1> QED
  BY <1>1, <1>2 DEF connect

-----------------------------------------------------------------------------
(* Every step.                                                             *)

LEMMA ClientStep ==
    ASSUME ClientInv, ClientNext PROVE ClientInv'
<1> USE DEF ClientInv
<1>1. /\ phase \in Seq(Phases) /\ attached \in 0..Len(phase) /\ Sockets = 1..Len(phase)
      /\ running \in BOOLEAN /\ faults \in 0..MaxFaults /\ calls \in 0..MaxCalls
      /\ heartbeat \in BOOLEAN
  BY DEF ClientTypeOK, Sockets
<1>2. attached = 0 => \A s \in 1..Len(phase) : phase[s] \in Shut
  BY <1>1 DEF OneLiveSocket, Shut
<1>3. CASE start
  <2>1. running' = TRUE /\ calls' \in 0..MaxCalls /\ connect(phase, heartbeat)
    BY <1>1, <1>3 DEF start, Call
  <2>2. attached = 0
    BY <1>3 DEF start, OneLiveSocket
  <2> QED
    BY <1>1, <1>2, <2>1, <2>2, ConnectKeeps
<1>4. CASE stop
  <2>1. /\ phase' \in Seq(Phases) /\ \A s \in 1..Len(phase') : phase'[s] \in Shut
        /\ attached' = 0 /\ Sockets' = 1..Len(phase') /\ Len(phase') \in Nat
    BY <1>4, DroppedShut DEF stop, Sockets
  <2>2. ClientTypeOK'
    <3>1. attached' \in 0..Len(phase') /\ calls' \in 0..MaxCalls
      BY <1>1, <1>4, <2>1 DEF stop, Call
    <3>2. attempt' \in Nat /\ faults' \in 0..MaxFaults
      BY <1>4 DEF stop, ClientTypeOK
    <3> QED
      BY <1>4, <2>1, <3>1, <3>2 DEF stop, ClientTypeOK
  <2>3. OneLiveSocket' /\ WayBack' /\ StateTruthful'
    BY <1>4, <2>1 DEF stop, OneLiveSocket, WayBack, StateTruthful, Shut
  <2> QED
    BY <2>2, <2>3
<1>5. CASE reconnectNow
  <2>1. calls' \in 0..MaxCalls /\ running' = running
    BY <1>1, <1>5 DEF reconnectNow, Call
  <2>2. CASE running /\ status # "open"
    BY <1>1, <1>5, <2>1, <2>2, DroppedShut, ConnectKeeps DEF reconnectNow
  <2>3. CASE ~(running /\ status # "open")
    <3>1. UNCHANGED <<phase, attached, running, timerVars, stateVars, faults>>
      BY <1>5, <2>3 DEF reconnectNow
    <3>2. ClientTypeOK'
      BY <2>1, <3>1 DEF ClientTypeOK, timerVars, stateVars
    <3>3. OneLiveSocket' /\ WayBack' /\ StateTruthful'
      BY <3>1 DEF OneLiveSocket, WayBack, StateTruthful, timerVars, stateVars, Sockets
    <3> QED
      BY <3>2, <3>3
  <2> QED
    BY <2>2, <2>3
<1>6. CASE RetryFires
  <2>1. running = TRUE /\ attached = 0
    BY <1>1, <1>6 DEF RetryFires, WayBack
  <2> QED
    BY <1>1, <1>2, <1>6, <2>1, ConnectKeeps DEF RetryFires
<1>7. CASE HeartbeatFires
  <2>1. /\ phase' \in Seq(Phases) /\ \A s \in 1..Len(phase') : phase'[s] \in Shut
        /\ attached' = 0 /\ faults' \in 0..MaxFaults /\ calls' \in 0..MaxCalls
        /\ running' = running /\ Sockets' = 1..Len(phase') /\ Len(phase') \in Nat
    BY <1>1, <1>7, DroppedShut DEF HeartbeatFires, Fault, Sockets
  <2>2. CASE running
    BY <1>1, <1>7, <2>1, <2>2, ScheduleKeeps DEF HeartbeatFires
  <2>3. CASE ~running
    <3>1. heartbeat' = FALSE /\ UNCHANGED <<retryTimer, status, attempt, retryShown>>
      BY <1>7, <2>3 DEF HeartbeatFires, stateVars
    <3>2. ClientTypeOK'
      <4>1. attached' \in 0..Len(phase')
        BY <2>1
      <4> QED
        BY <1>1, <2>1, <3>1, <4>1 DEF ClientTypeOK
    <3>3. OneLiveSocket' /\ WayBack' /\ StateTruthful'
      BY <2>1, <2>3, <3>1 DEF OneLiveSocket, WayBack, StateTruthful, Shut
    <3> QED
      BY <3>2, <3>3
  <2> QED
    BY <2>2, <2>3
<1>8. ASSUME NEW s \in Sockets, Opens(s) PROVE ClientInv'
  <2>1. PICK p \in {"open", "closing"} :
          /\ phase[s] \in {"connecting", "aborted"} /\ (p = "open" => phase[s] = "connecting")
          /\ phase' = [phase EXCEPT ![s] = p] /\ faults' \in 0..MaxFaults
    BY <1>1, <1>8 DEF Opens, Fault
  <2>2. /\ phase' \in Seq(Phases) /\ Len(phase') = Len(phase) /\ Sockets' = Sockets
        /\ \A t \in Sockets : phase'[t] = IF t = s THEN p ELSE phase[t]
    <3>1. p \in Phases
      BY DEF Phases
    <3> QED
      BY <2>1, <3>1, PhaseOfOne
  <2>3. heartbeat' = TRUE /\ UNCHANGED <<attached, running, retryTimer, status, attempt, retryShown, calls>>
    BY <1>8 DEF Opens, stateVars
  <2>4. ClientTypeOK'
    BY <1>1, <2>1, <2>2, <2>3 DEF ClientTypeOK
  <2>5. OneLiveSocket'
    BY <1>1, <2>1, <2>2, <2>3 DEF OneLiveSocket
  <2>6. WayBack' /\ StateTruthful'
    BY <1>1, <2>1, <2>2, <2>3 DEF WayBack, StateTruthful
  <2> QED
    BY <2>4, <2>5, <2>6
<1>9. ASSUME NEW s \in Sockets, NEW k \in {"hello", "other"}, Hears(s, k) PROVE ClientInv'
  <2>1. UNCHANGED <<phase, attached, running, retryTimer, retryShown, faults, calls>>
    BY <1>9 DEF Hears, stateVars
  <2>2. \/ s # attached /\ UNCHANGED <<heartbeat, status, attempt>>
        \/ /\ s = attached /\ heartbeat' = TRUE
           /\ status' \in {status, "open"} /\ attempt' \in {attempt, 0}
    BY <1>9 DEF Hears, Current, stateVars
  <2>3. s = attached => attached # 0 /\ running
    BY <1>1 DEF OneLiveSocket
  <2>4. ClientTypeOK'
    <3>1. /\ attempt' \in Nat /\ heartbeat' \in BOOLEAN
          /\ status' \in {"idle", "connecting", "open", "reconnecting", "stopped"}
      <4>1. CASE UNCHANGED <<heartbeat, status, attempt>>
        BY <4>1 DEF ClientTypeOK
      <4>2. CASE heartbeat' = TRUE /\ status' \in {status, "open"} /\ attempt' \in {attempt, 0}
        BY <4>2 DEF ClientTypeOK
      <4> QED
        BY <2>2, <4>1, <4>2
    <3> QED
      BY <2>1, <3>1 DEF ClientTypeOK
  <2>5. OneLiveSocket'
    BY <2>1 DEF OneLiveSocket, Sockets
  <2>6. WayBack' /\ StateTruthful'
    BY <2>1, <2>2, <2>3 DEF WayBack, StateTruthful
  <2> QED
    BY <2>4, <2>5, <2>6
<1>10. ASSUME NEW s \in Sockets, Closes(s) PROVE ClientInv'
  <2>1. /\ phase' = [phase EXCEPT ![s] = "closed"] /\ faults' \in 0..MaxFaults
        /\ calls' \in 0..MaxCalls /\ running' = running /\ "closed" \in Phases
    BY <1>1, <1>10 DEF Closes, Fault, Phases
  <2>2. /\ phase' \in Seq(Phases) /\ Len(phase') = Len(phase) /\ Sockets' = Sockets
        /\ \A t \in Sockets : phase'[t] = IF t = s THEN "closed" ELSE phase[t]
    BY <2>1, PhaseOfOne
  <2>3. CASE s = attached
    <3>1. running = TRUE
      BY <1>1, <2>3 DEF OneLiveSocket
    <3>2. attached' = 0 /\ scheduleReconnect
      BY <1>10, <2>3, <3>1 DEF Closes, Current, Lost
    <3>3. \A t \in 1..Len(phase') : phase'[t] \in Shut
      BY <1>1, <2>2, <2>3 DEF OneLiveSocket, Shut
    <3> QED
      BY <2>1, <2>2, <3>1, <3>2, <3>3, ScheduleKeeps
  <2>4. CASE s # attached
    <3>1. UNCHANGED <<attached, retryTimer, heartbeat, status, attempt, retryShown>>
      BY <1>10, <2>4 DEF Closes, Current, timerVars, stateVars
    <3>2. ClientTypeOK'
      BY <1>1, <2>1, <2>2, <3>1 DEF ClientTypeOK
    <3>3. OneLiveSocket'
      BY <1>1, <2>1, <2>2, <3>1 DEF OneLiveSocket
    <3>4. WayBack' /\ StateTruthful'
      BY <1>1, <2>1, <2>2, <2>4, <3>1 DEF WayBack, StateTruthful
    <3> QED
      BY <3>2, <3>3, <3>4
  <2> QED
    BY <2>3, <2>4
<1>11. ASSUME NEW s \in Sockets, Cut(s) PROVE ClientInv'
  <2>1. PICK p \in {"closing", "silent"} : phase' = [phase EXCEPT ![s] = p]
    BY <1>11 DEF Cut
  <2>2. /\ phase' \in Seq(Phases) /\ Len(phase') = Len(phase) /\ Sockets' = Sockets
        /\ \A t \in Sockets : phase'[t] = IF t = s THEN p ELSE phase[t]
    <3>1. p \in Phases
      BY DEF Phases
    <3> QED
      BY <2>1, <3>1, PhaseOfOne
  <2>3. /\ phase[s] = "open" /\ faults' \in 0..MaxFaults
        /\ UNCHANGED <<attached, running, retryTimer, heartbeat, status, attempt, retryShown, calls>>
    BY <1>1, <1>11 DEF Cut, Fault, timerVars, stateVars
  <2>4. s = attached
    BY <2>3 DEF OneLiveSocket
  <2>5. ClientTypeOK'
    BY <1>1, <2>2, <2>3 DEF ClientTypeOK
  <2>6. OneLiveSocket'
    BY <1>1, <2>2, <2>3, <2>4 DEF OneLiveSocket
  <2>7. WayBack' /\ StateTruthful'
    BY <1>1, <2>2, <2>3, <2>4 DEF WayBack, StateTruthful
  <2> QED
    BY <2>5, <2>6, <2>7
<1> QED
  BY <1>3, <1>4, <1>5, <1>6, <1>7, <1>8, <1>9, <1>10, <1>11 DEF ClientNext

LEMMA ClientStart == ClientInit => ClientInv
<1> SUFFICES ASSUME ClientInit PROVE ClientInv
  OBVIOUS
<1>1. phase = <<>> /\ phase \in Seq(Phases) /\ Len(phase) = 0 /\ Sockets = {}
  BY DEF ClientInit, Sockets
<1>2. ClientTypeOK
  <2>1. attached \in 0..Len(phase) /\ faults \in 0..MaxFaults /\ calls \in 0..MaxCalls
    BY <1>1 DEF ClientInit
  <2> QED
    BY <1>1, <2>1 DEF ClientInit, ClientTypeOK
<1>3. OneLiveSocket /\ WayBack /\ StateTruthful
  BY <1>1 DEF ClientInit, OneLiveSocket, WayBack, StateTruthful
<1> QED
  BY <1>2, <1>3 DEF ClientInv

LEMMA ClientStutter == ASSUME ClientInv, UNCHANGED clientVars PROVE ClientInv'
<1>1. UNCHANGED <<phase, attached, running, retryTimer, heartbeat, status, attempt, retryShown,
                  faults, calls>>
  BY DEF clientVars, timerVars, stateVars
<1> QED
  BY <1>1 DEF ClientInv, ClientTypeOK, OneLiveSocket, WayBack, StateTruthful, Sockets

LEMMA ClientInvariant == ClientSpec => []ClientInv
<1>1. ClientInv /\ [ClientNext]_clientVars => ClientInv'
  BY ClientStep, ClientStutter
<1> QED
  BY <1>1, ClientStart, PTL DEF ClientSpec

\* The client is well typed (liveClient.ts:54-75).
THEOREM ClientTypeCorrect == ClientSpec => []ClientTypeOK
<1>1. ClientInv => ClientTypeOK
  BY DEF ClientInv
<1> QED
  BY <1>1, ClientInvariant, PTL

\* Whatever timers, late events and calls come in between, one socket at most is
\* live, and none of a stopped client (liveClient.ts:83-96, 108-118, 169-179).
THEOREM AtMostOneSocket == ClientSpec => []OneLiveSocket
<1>1. ClientInv => OneLiveSocket
  BY DEF ClientInv
<1> QED
  BY <1>1, ClientInvariant, PTL

\* A running client has a socket whose end it will notice, or a retry timer, and
\* never both (liveClient.ts:114-118, 142-167).
THEOREM AlwaysAWayBack == ClientSpec => []WayBack
<1>1. ClientInv => WayBack
  BY DEF ClientInv
<1> QED
  BY <1>1, ClientInvariant, PTL

\* What the page is told of the connection is so (liveClient.ts:87, 99, 135, 149-153).
THEOREM AlwaysTruthful == ClientSpec => []StateTruthful
<1>1. ClientInv => StateTruthful
  BY DEF ClientInv
<1> QED
  BY <1>1, ClientInvariant, PTL

-----------------------------------------------------------------------------
(* The dashboard.                                                          *)

LEMMA DashboardStep == ASSUME [Next]_dashboardVars PROVE [ClientNext]_clientVars
<1>1. CASE PublishSnapshot \/ PublishAlert \/ PublishEvents \/ Ask \/ AnswerArrives
  BY <1>1 DEF PublishSnapshot, PublishAlert, PublishEvents, Ask, AnswerArrives
<1>2. CASE Page \/ Timer
  BY <1>2 DEF Page, Timer, ClientNext
<1>3. ASSUME NEW s \in Sockets, SocketOpens(s) \/ SocketEnds(s) PROVE ClientNext
  BY <1>3 DEF SocketOpens, SocketEnds, ClientNext
<1>4. ASSUME NEW s \in Sockets, Receive(s) PROVE ClientNext
  <2> DEFINE kind == Head(wire[s]).kind
  <2>1. Hears(s, kind)
    BY <1>4 DEF Receive
  <2>2. kind # "hello" => Hears(s, "other")
    BY <2>1 DEF Hears
  <2> HIDE DEF kind
  <2>3. \E k \in {"hello", "other"} : Hears(s, k)
    BY <2>1, <2>2
  <2> QED
    BY <2>3 DEF ClientNext
<1>5. CASE UNCHANGED dashboardVars
  BY <1>5 DEF dashboardVars
<1> QED
  BY <1>1, <1>2, <1>3, <1>4, <1>5 DEF Next

\* Whatever server, network and page do, the dashboard's client takes only steps of
\* the live client, so what is proved of the one holds of the other.
THEOREM DashboardRunsClient == Spec => ClientSpec
<1>1. Init => ClientInit
  BY DEF Init
<1> QED
  BY <1>1, DashboardStep, PTL DEF Spec, ClientSpec

\* In every dashboard, however many sockets it goes through, one is live at most.
THEOREM DashboardOneSocket == Spec => []OneLiveSocket
BY DashboardRunsClient, AtMostOneSocket, PTL

\* And what its page says of the connection is so.
THEOREM DashboardTruthful == Spec => []StateTruthful
BY DashboardRunsClient, AlwaysTruthful, PTL

-----------------------------------------------------------------------------
(* The feed.                                                               *)

\* A feed that shows none but the first ev events, newest first.
Feeds(ev) == {f \in Seq(1..ev) : /\ Len(f) <= FeedLimit
                                 /\ \A i, j \in 1..Len(f) : i < j => f[i] > f[j]}

\* The newest event of a feed.
Top(f) == IF f = <<>> THEN 0 ELSE Head(f)

\* A feed that descends has its events above b in front.
LEMMA FeedSplit ==
    ASSUME NEW ev \in Nat, NEW f \in Feeds(ev), NEW b \in Nat
    PROVE  \E c \in 0..Len(f) : /\ \A i \in 1..c : f[i] > b
                                /\ \A i \in (c + 1)..Len(f) : f[i] <= b
<1> DEFINE S == {c \in 0..Len(f) : \A i \in (c + 1)..Len(f) : f[i] <= b}
<1>1. /\ f \in Seq(1..ev) /\ Len(f) \in Nat
      /\ \A i, j \in 1..Len(f) : i < j => f[i] > f[j]
  BY DEF Feeds
<1>2. S \in SUBSET Nat /\ Len(f) \in S
  BY <1>1
<1>3. PICK c \in S : \A d \in S : c <= d
  <2> HIDE DEF S
  <2> QED BY <1>2, LeastNumber
<1>4. c \in 0..Len(f) /\ \A i \in (c + 1)..Len(f) : f[i] <= b
  BY <1>3
<1>5. ASSUME NEW i \in 1..c PROVE f[i] > b
  <2>1. c \in 1..Len(f) /\ c - 1 \in 0..Len(f) /\ (c - 1) + 1 = c
    BY <1>1, <1>4, <1>5
  <2>2. PICK j \in c..Len(f) : ~(f[j] <= b)
    <3>1. ~(c <= c - 1)
      BY <2>1
    <3>2. c - 1 \notin S
      BY <1>3, <3>1
    <3> QED BY <2>1, <3>2
  <2>3. j = c
    BY <1>1, <1>4, <2>1, <2>2
  <2>4. f[c] > b
    <3>1. f[c] \in 1..ev
      BY <1>1, <2>1, ElementOfSeq
    <3> QED BY <2>2, <2>3, <3>1
  <2>5. f[i] \in 1..ev /\ f[c] \in 1..ev /\ i \in 1..Len(f)
    BY <1>1, <1>4, <1>5, <2>1, ElementOfSeq
  <2>6. i < c => f[i] > f[c]
    BY <1>1, <1>5, <2>1, <2>5
  <2> QED BY <1>4, <1>5, <2>4, <2>5, <2>6
<1> QED BY <1>4, <1>5

\* What mergeFeed() makes of a feed and of a run of events that ends with the
\* newest of all: the run, newest first, and what the feed has before it.
LEMMA MergeFacts ==
    ASSUME NEW ev \in Nat, NEW f \in Feeds(ev), NEW b \in Nat, NEW items \in Seq(Nat),
           b + Len(items) <= ev,
           \A i \in 1..Len(items) : items[i] = b + i,
           \A i \in 1..Len(f) : f[i] <= b + Len(items)
    PROVE  LET merged == mergeFeed(f, items)
           IN  /\ merged \in Feeds(ev)
               /\ \A i \in 1..Len(merged) : merged[i] <= b + Len(items)
               /\ Top(merged) = IF items = <<>> THEN Top(f) ELSE b + Len(items)
<1> DEFINE R == Len(items)
           L == Len(f)
           all == Reverse(items) \o f
           places == {i \in DOMAIN all : \A j \in 1..(i - 1) : all[j] # all[i]}
           Upto(i) == {j \in places : j <= i}
           Place(k) == CHOOSE i \in places : Cardinality(Upto(i)) = k
           kept == [k \in 1..Cardinality(places) |-> all[Place(k)]]
<1>1. PICK c \in 0..L : /\ \A i \in 1..c : f[i] > b
                        /\ \A i \in (c + 1)..L : f[i] <= b
  BY FeedSplit
<1>2. /\ f \in Seq(1..ev) /\ L \in Nat /\ R \in Nat /\ L <= FeedLimit
      /\ \A i \in 1..L : f[i] \in 1..ev
      /\ \A i, j \in 1..L : i < j => f[i] > f[j]
  BY ElementOfSeq DEF Feeds
<1>3. /\ DOMAIN all = 1..(R + L)
      /\ \A i \in 1..R : all[i] = b + R - i + 1
      /\ \A i \in (R + 1)..(R + L) : all[i] = f[i - R]
  <2> DEFINE back == Reverse(items)
  <2>1. back = [i \in 1..R |-> items[(R - i) + 1]]
    BY DEF Reverse
  <2>2. \A i \in 1..R : items[(R - i) + 1] \in Nat
    BY <1>2, ElementOfSeq
  <2>3. back \in Seq(Nat) /\ Len(back) = R
    BY <1>2, <2>1, <2>2
  <2>4. f \in Seq(Nat)
    BY <1>2, SeqMonotonic, 1..ev \subseteq Nat
  <2>5. \A i \in 1..R : back[i] = b + R - i + 1
    BY <1>2, <2>1
  <2> HIDE DEF back, L, R
  <2>6. /\ all \in Seq(Nat) /\ Len(all) = R + L
        /\ \A i \in 1..(R + L) : all[i] = IF i <= R THEN back[i] ELSE f[i - R]
    BY <2>3, <2>4, ConcatProperties DEF back, L
  <2>7. DOMAIN all = 1..(R + L)
    BY <2>6, LenProperties
  <2>8. R \in Nat /\ L \in Nat
    BY <1>2 DEF R, L
  <2> HIDE DEF all
  <2>9. \A i \in 1..R : all[i] = b + R - i + 1
    <3>1. \A i \in 1..R : i \in 1..(R + L) /\ i <= R
      BY <2>8
    <3> QED BY <3>1, <2>5, <2>6
  <2>10. \A i \in (R + 1)..(R + L) : all[i] = f[i - R]
    <3>1. \A i \in (R + 1)..(R + L) : i \in 1..(R + L) /\ ~(i <= R)
      BY <2>8
    <3> QED BY <3>1, <2>6
  <2> QED BY <2>7, <2>9, <2>10
<1> HIDE DEF all, R, L
<1>4. places = 1..R \cup (R + c + 1)..(R + L)
  <2>1. ASSUME NEW i \in 1..R, NEW j \in 1..(i - 1) PROVE all[j] # all[i]
    BY <1>2, <1>3
  <2>2. ASSUME NEW i \in (R + c + 1)..(R + L), NEW j \in 1..(i - 1) PROVE all[j] # all[i]
    <3>1. all[i] = f[i - R] /\ i - R \in (c + 1)..L /\ f[i - R] <= b /\ f[i - R] \in 1..ev
      BY <1>1, <1>2, <1>3, <2>2
    <3>2. CASE j \in 1..R
      BY <1>2, <1>3, <3>1, <3>2
    <3>3. CASE j > R
      <4>1. all[j] = f[j - R] /\ j - R \in 1..L /\ j - R < i - R /\ i - R \in 1..L
        BY <1>2, <1>3, <2>2, <3>3
      <4>2. f[j - R] > f[i - R] /\ f[j - R] \in 1..ev
        BY <1>2, <4>1
      <4> QED BY <3>1, <4>1, <4>2
    <3> QED BY <1>2, <2>2, <3>2, <3>3
  <2>3. ASSUME NEW i \in (R + 1)..(R + c) PROVE i \notin places
    <3>1. all[i] = f[i - R] /\ i - R \in 1..c /\ i - R \in 1..L
      BY <1>2, <1>3
    <3>2. f[i - R] > b /\ f[i - R] \in 1..ev /\ f[i - R] <= b + R
      BY <1>1, <1>2, <3>1 DEF R, L
    <3> DEFINE x == f[i - R]
               p == b + R - x + 1
    <3>3. p \in 1..R /\ b + R - p + 1 = f[i - R]
      <4>1. x \in Int /\ x > b /\ x <= b + R /\ R \in Int /\ b \in Int
        BY <1>2, <3>2
      <4>2. p \in 1..R /\ b + R - p + 1 = x
        <5> HIDE DEF x
        <5> QED BY <4>1
      <4> QED BY <4>2
    <3>5. p \in 1..(i - 1)
      BY <1>2, <2>3, <3>3
    <3> HIDE DEF p
    <3>4. all[p] = f[i - R]
      BY <1>3, <3>3
    <3> QED BY <3>1, <3>4, <3>5
  <2> QED BY <1>2, <1>3, <2>1, <2>2, <2>3
<1> HIDE DEF places
<1>5. /\ \A i \in 1..R : Cardinality(Upto(i)) = i
      /\ \A i \in (R + c + 1)..(R + L) : Cardinality(Upto(i)) = i - c
      /\ Cardinality(places) = R + L - c
  <2>1. \A m, n \in Nat : n >= m => IsFiniteSet((m + 1)..n) /\ Cardinality((m + 1)..n) = n - m
    <3> TAKE m, n \in Nat
    <3> HAVE n >= m
    <3> m + 1 \in Int /\ n \in Int
      OBVIOUS
    <3>1. IsFiniteSet((m + 1)..n) /\ Cardinality((m + 1)..n) = IF m + 1 > n THEN 0 ELSE n - (m + 1) + 1
      BY ONLY FS_Interval, m + 1 \in Int, n \in Int
    <3> QED BY <3>1
  <2>2. \A i \in (R + c)..(R + L) :
            Cardinality(1..R \cup (R + c + 1)..i) = i - c
    <3> TAKE i \in (R + c)..(R + L)
    <3> DEFINE A == (0 + 1)..R
               B == ((R + c) + 1)..i
    <3>0. R + c \in Nat /\ i \in Nat /\ i >= R + c /\ 0 \in Nat /\ R >= 0
      BY <1>1, <1>2
    <3>1. IsFiniteSet(A) /\ Cardinality(A) = R - 0
      BY ONLY <1>2, <2>1, <3>0
    <3>2. IsFiniteSet(B) /\ Cardinality(B) = i - (R + c)
      BY ONLY <2>1, <3>0
    <3>3. A \cap B = {}
      BY <1>1, <1>2
    <3>4. Cardinality(A \cup B) = Cardinality(A) + Cardinality(B) - Cardinality({})
      <4> HIDE DEF A, B
      <4> QED BY <3>1, <3>2, <3>3, FS_Union
    <3>5. Cardinality({}) = 0
      BY FS_EmptySet
    <3>6. A = 1..R
      OBVIOUS
    <3> QED BY <1>1, <1>2, <3>1, <3>2, <3>4, <3>5, <3>6
  <2>3. ASSUME NEW i \in 1..R PROVE Cardinality(Upto(i)) = i
    <3>1. Upto(i) = (0 + 1)..i
      BY <1>1, <1>2, <1>4
    <3>2. i \in Nat /\ 0 \in Nat /\ i >= 0 /\ i - 0 = i
      BY <1>2
    <3> HIDE DEF Upto
    <3>3. Cardinality((0 + 1)..i) = i - 0
      BY ONLY <2>1, <3>2
    <3> QED BY <3>1, <3>2, <3>3
  <2>4. ASSUME NEW i \in (R + c + 1)..(R + L) PROVE Cardinality(Upto(i)) = i - c
    <3>1. Upto(i) = 1..R \cup (R + c + 1)..i
      BY <1>1, <1>2, <1>4
    <3>2. i \in (R + c)..(R + L)
      BY <1>1, <1>2
    <3> HIDE DEF Upto
    <3> QED BY <2>2, <3>1, <3>2
  <2>5. Cardinality(places) = R + L - c
    <3> DEFINE n == R + L
               U == 1..R \cup (R + c + 1)..n
    <3>1. n \in (R + c)..(R + L)
      BY <1>1, <1>2
    <3>2. Cardinality(U) = n - c
      <4> HIDE DEF n
      <4> QED BY ONLY <2>2, <3>1
    <3>3. places = U
      BY <1>4
    <3>4. n - c = R + L - c
      BY <1>2
    <3> HIDE DEF U
    <3> QED BY <3>2, <3>3, <3>4, Zenon
  <2> QED BY <2>3, <2>4, <2>5
<1>6. \A k \in 1..(R + L - c) : Place(k) = IF k <= R THEN k ELSE k + c
  <2> TAKE k \in 1..(R + L - c)
  <2> DEFINE p == IF k <= R THEN k ELSE k + c
  <2> HIDE DEF Upto
  <2>1. p \in places /\ Cardinality(Upto(p)) = k
    <3>1. CASE k <= R
      BY <1>2, <1>4, <1>5, <3>1
    <3>2. CASE k > R
      <4> DEFINE q == k + c
      <4>1. q \in (R + c + 1)..(R + L) /\ q - c = k /\ p = q
        BY <1>1, <1>2, <3>2
      <4> HIDE DEF q
      <4>2. q \in places /\ Cardinality(Upto(q)) = k
        BY <1>4, <1>5, <4>1
      <4> HIDE DEF p
      <4> QED BY <4>1, <4>2
    <3> QED BY <1>2, <3>1, <3>2
  <2>2. ASSUME NEW i \in places, Cardinality(Upto(i)) = k PROVE i = p
    <3>1. CASE i \in 1..R
      BY <1>2, <1>5, <2>2, <3>1
    <3>2. CASE i \in (R + c + 1)..(R + L)
      <4>1. i - c = k
        BY <1>5, <2>2, <3>2
      <4> QED BY <1>1, <1>2, <3>2, <4>1
    <3> QED BY <1>4, <3>1, <3>2
  <2> HIDE DEF p
  <2>3. Place(k) = p
    BY <2>1, <2>2
  <2> QED BY <2>3 DEF p
<1>7. kept = [k \in 1..(R + L - c) |-> IF k <= R THEN b + R - k + 1 ELSE f[k - R + c]]
  <2>1. \A k \in 1..(R + L - c) : all[Place(k)] = IF k <= R THEN b + R - k + 1 ELSE f[k - R + c]
    <3> TAKE k \in 1..(R + L - c)
    <3> HIDE DEF Place
    <3>1. CASE k <= R
      BY <1>2, <1>3, <1>6, <3>1
    <3>2. CASE k > R
      <4>1. Place(k) = k + c /\ k + c \in (R + 1)..(R + L) /\ k + c - R = k - R + c
        BY <1>1, <1>2, <1>6, <3>2
      <4> DEFINE q == k + c
      <4>2. q \in (R + 1)..(R + L) /\ q - R = k - R + c /\ Place(k) = q
        BY <1>1, <1>2, <4>1
      <4> HIDE DEF q
      <4>3. all[q] = f[q - R]
        BY <1>3, <4>2
      <4> QED BY <1>2, <3>2, <4>2, <4>3
    <3> QED BY <1>2, <3>1, <3>2
  <2> HIDE DEF Place
  <2> QED BY <1>5, <2>1
<1> DEFINE merged == mergeFeed(f, items)
           N == R + L - c
           M == IF N > FeedLimit THEN FeedLimit ELSE N
<1>8. merged = FirstOf(kept, FeedLimit)
  BY DEF mergeFeed, all, places
<1> HIDE DEF kept
<1>9. N \in Nat /\ M \in 0..N /\ M <= FeedLimit
  BY <1>1, <1>2, DashboardAssumption DEF DashboardAssumption
<1>10. /\ kept \in Seq(1..ev) /\ Len(kept) = N
       /\ \A k \in 1..N : kept[k] \in 1..ev /\ kept[k] <= b + R
       /\ \A k \in 1..N : kept[k] = IF k <= R THEN b + R - k + 1 ELSE f[k - R + c]
  <2>1. \A k \in 1..N : kept[k] = IF k <= R THEN b + R - k + 1 ELSE f[k - R + c]
    BY <1>7
  <2>2. ASSUME NEW k \in 1..N PROVE kept[k] \in 1..ev /\ kept[k] <= b + R
    <3>1. CASE k <= R
      BY <1>2, <2>1, <3>1 DEF R
    <3>2. CASE k > R
      <4>1. kept[k] = f[k - R + c] /\ k - R + c \in 1..L
        BY <1>1, <1>2, <2>1, <3>2
      <4> QED BY <1>2, <4>1 DEF R, L
    <3> QED BY <1>2, <3>1, <3>2
  <2>3. kept \in [1..N -> 1..ev]
    BY <1>7, <2>2
  <2>4. kept \in Seq(1..ev) /\ Len(kept) = N
    BY <1>9, <2>3
  <2> QED BY <2>1, <2>2, <2>4
<1>11. /\ merged \in Seq(1..ev) /\ Len(merged) = M
       /\ \A k \in 1..M : merged[k] = kept[k]
  <2>1. merged = SubSeq(kept, 1, M)
    BY <1>8, <1>10 DEF FirstOf
  <2> HIDE DEF merged, M, N
  <2>2. \A i \in 1..M : kept[i] \in 1..ev
    BY <1>9, <1>10
  <2>3. 1 \in Int /\ M \in Int
    BY <1>9
  <2>4. /\ SubSeq(kept, 1, M) \in Seq(1..ev)
        /\ Len(SubSeq(kept, 1, M)) = IF 1 <= M THEN M - 1 + 1 ELSE 0
        /\ \A i \in 1..(M - 1 + 1) : SubSeq(kept, 1, M)[i] = kept[1 + i - 1]
    BY ONLY <2>2, <2>3, SubSeqProperties
  <2>5. /\ (IF 1 <= M THEN M - 1 + 1 ELSE 0) = M /\ M - 1 + 1 = M
        /\ \A i \in 1..M : 1 + i - 1 = i
    BY <1>9
  <2> QED BY ONLY <2>1, <2>4, <2>5
<1> HIDE DEF merged, M
<1>12. ASSUME NEW i \in 1..M, NEW j \in 1..M, i < j PROVE merged[i] > merged[j]
  <2>0. /\ i \in 1..N /\ j \in 1..N /\ merged[i] = kept[i] /\ merged[j] = kept[j]
        /\ kept[i] = (IF i <= R THEN b + R - i + 1 ELSE f[i - R + c])
        /\ kept[j] = (IF j <= R THEN b + R - j + 1 ELSE f[j - R + c])
    BY <1>9, <1>10, <1>11
  <2>1. CASE j <= R
    BY <1>2, <1>12, <2>0, <2>1
  <2>2. CASE i <= R /\ j > R
    <3>1. j - R + c \in (c + 1)..L /\ f[j - R + c] <= b /\ f[j - R + c] \in 1..ev
      BY <1>1, <1>2, <2>0, <2>2
    <3> QED BY <1>2, <2>0, <2>2, <3>1
  <2>3. CASE i > R
    <3>1. i - R + c \in 1..L /\ j - R + c \in 1..L /\ i - R + c < j - R + c
      BY <1>1, <1>2, <1>12, <2>0, <2>3
    <3> QED BY <1>2, <1>12, <2>0, <2>3, <3>1
  <2> QED BY <1>2, <1>12, <2>1, <2>2, <2>3
<1>13. merged \in Feeds(ev) /\ \A i \in 1..Len(merged) : merged[i] <= b + R
  BY <1>9, <1>10, <1>11, <1>12 DEF Feeds
<1>14. Top(merged) = IF items = <<>> THEN Top(f) ELSE b + R
  <2>1. CASE items # <<>>
    <3>1. R > 0
      BY <2>1, EmptySeq, <1>2 DEF R
    <3>2. M > 0 /\ 1 \in 1..M
      BY <1>1, <1>2, <3>1, DashboardAssumption DEF DashboardAssumption, M
    <3>3. merged # <<>> /\ Head(merged) = merged[1]
      BY <1>9, <1>11, <3>2
    <3>4. merged[1] = b + R
      <4>1. 1 \in 1..N /\ 1 <= R /\ b + R - 1 + 1 = b + R
        BY <1>2, <1>9, <3>1, <3>2
      <4>2. merged[1] = kept[1]
        BY <1>11, <3>2
      <4>3. kept[1] = IF 1 <= R THEN b + R - 1 + 1 ELSE f[1 - R + c]
        BY <1>10, <4>1
      <4> HIDE DEF N
      <4> QED BY <4>1, <4>2, <4>3
    <3> QED BY <2>1, <3>3, <3>4 DEF Top
  <2>2. CASE items = <<>>
    <3>1. R = 0
      BY <2>2, <1>2 DEF R
    <3>2. \A i \in 1..L : f[i] <= b
      BY <3>1, <1>2 DEF R, L
    <3>3. c = 0
      <4>1. c > 0 => 1 \in 1..c /\ 1 \in 1..L /\ f[1] > b /\ f[1] <= b /\ f[1] \in 1..ev
        BY <1>1, <1>2, <3>2
      <4> QED BY <1>1, <1>2, <4>1
    <3>4. M = L
      BY <1>2, <3>1, <3>3, DashboardAssumption DEF DashboardAssumption, M
    <3>5. L > 0 => 1 \in 1..M /\ 1 \in 1..N /\ merged[1] = f[1]
      BY <1>2, <1>9, <1>10, <1>11, <3>1, <3>3, <3>4
    <3>6. f = <<>> <=> L = 0
      BY <1>2, EmptySeq DEF L
    <3>7. merged = <<>> <=> M = 0
      BY <1>9, <1>11, EmptySeq
    <3>8. L > 0 => Head(f) = f[1] /\ Head(merged) = merged[1]
      BY <1>2, <1>11, <3>4, <3>6, <3>7
    <3> QED BY <1>2, <2>2, <3>4, <3>5, <3>6, <3>7, <3>8 DEF Top
  <2> QED BY <2>1, <2>2
<1> QED BY <1>13, <1>14 DEF R, merged

-----------------------------------------------------------------------------
(* Messages.                                                               *)

Messages ==
    [kind : {"hello"}, active : BOOLEAN, items : Seq(Nat)]
    \cup [kind : {"events"}, items : Seq(Nat)]
    \cup [kind : {"snapshot"}, n : Nat]
    \cup [kind : {"alert"}, firing : BOOLEAN]

News == {"hello", "events"}
AlertNews == {"hello", "alert"}

\* The newest event of a message with events, and the one before its oldest.
Newest(m) == IF m.items = <<>> THEN 0 ELSE m.items[Len(m.items)]
Base(m) == Newest(m) - Len(m.items)

\* What a client may have seen when a message arrives.
SeenBefore(m) == IF m.kind = "events" THEN Base(m) ELSE Newest(m)

\* A message sent by a server that has published so many snapshots and events.
Carried(sn, ev) ==
    {m \in Messages :
        /\ m.kind = "snapshot" => m.n \in 1..sn
        /\ m.kind \in News =>
             /\ Base(m) \in Nat /\ Newest(m) \in 0..ev
             /\ \A i \in 1..Len(m.items) : m.items[i] = Base(m) + i
        /\ m.kind = "events" => m.items # <<>>}

LEMMA MessageFacts ==
    ASSUME NEW m \in Messages
    PROVE  /\ m.kind \in {"hello", "events", "snapshot", "alert"}
           /\ m.kind = "hello" => m.active \in BOOLEAN
           /\ m.kind = "alert" => m.firing \in BOOLEAN
           /\ m.kind = "snapshot" => m.n \in Nat
           /\ m.kind \in News => m.items \in Seq(Nat)
BY DEF Messages, News

LEMMA CarriedGrows ==
    ASSUME NEW sn \in Nat, NEW ev \in Nat, NEW sn2 \in Nat, NEW ev2 \in Nat,
           sn <= sn2, ev <= ev2
    PROVE  Carried(sn, ev) \subseteq Carried(sn2, ev2)
<1>1. 1..sn \subseteq 1..sn2 /\ 0..ev \subseteq 0..ev2
  OBVIOUS
<1> QED BY <1>1 DEF Carried

\* A run of events, as both kinds of message carry them.
LEMMA RunFacts ==
    ASSUME NEW m, NEW b \in Nat, NEW n \in Nat, b <= n, b = n => n = 0,
           m.items \in Seq(Nat), Len(m.items) = n - b,
           \A i \in 1..(n - b) : m.items[i] = b + i
    PROVE  Newest(m) = n /\ Base(m) = b
<1>1. CASE b = n
  <2>1. m.items = <<>> /\ Len(m.items) = 0
    BY <1>1, EmptySeq
  <2> QED BY <1>1, <2>1 DEF Newest, Base
<1>2. CASE b < n
  <2>1. m.items # <<>> /\ n - b \in 1..(n - b)
    BY <1>2, EmptySeq
  <2>2. m.items[Len(m.items)] = n
    BY <2>1
  <2> QED BY <2>1, <2>2 DEF Newest, Base
<1> QED BY <1>1, <1>2

\* What a tick publishes of events when it makes n of b.
Published(b, n) == Events([i \in 1..(n - b) |-> b + i])

LEMMA EventsFacts ==
    ASSUME NEW sn \in Nat, NEW b \in Nat, NEW n \in Nat, b < n
    PROVE  /\ Published(b, n) \in Carried(sn, n) /\ Published(b, n).kind = "events"
           /\ Base(Published(b, n)) = b /\ Newest(Published(b, n)) = n
<1> DEFINE items == [i \in 1..(n - b) |-> b + i]
           m == Events(items)
<1>1. /\ items \in Seq(Nat) /\ Len(items) = n - b
      /\ \A i \in 1..(n - b) : items[i] = b + i
  OBVIOUS
<1> HIDE DEF items
<1>2. m \in Messages /\ m.kind = "events" /\ m.items = items
  BY <1>1 DEF Events, Messages
<1> HIDE DEF m
<1>3. Base(m) = b /\ Newest(m) = n
  <2>1. /\ m.items \in Seq(Nat) /\ Len(m.items) = n - b
        /\ \A i \in 1..(n - b) : m.items[i] = b + i
        /\ b <= n /\ (b = n => n = 0)
    BY <1>1, <1>2
  <2> QED BY <2>1, RunFacts
<1>4. items # <<>>
  BY <1>1, EmptySeq
<1>5. m \in Carried(sn, n)
  BY <1>1, <1>2, <1>3, <1>4 DEF Carried, News
<1> QED BY <1>2, <1>3, <1>5 DEF m, items, Published

LEMMA HelloFacts ==
    ASSUME snapshots \in Nat, events \in Nat
    PROVE  /\ Hello \in Carried(snapshots, events) /\ Hello.kind = "hello"
           /\ Hello.active = Firing /\ Newest(Hello) = events
<1> DEFINE all == [i \in 1..events |-> i]
           from == IF events > RecentLimit THEN events - RecentLimit + 1 ELSE 1
           b == from - 1
<1>1. all \in Seq(Nat) /\ Len(all) = events /\ \A i \in 1..events : all[i] = i
  OBVIOUS
<1>2. from \in 1..(events + 1) /\ (from > events => events = 0)
  BY DashboardAssumption DEF DashboardAssumption
<1>3. Recent = SubSeq(all, from, events)
  BY <1>1 DEF Recent, LastOf
<1>4. /\ Recent \in Seq(Nat) /\ Len(Recent) = events - b
      /\ \A i \in 1..(events - b) : Recent[i] = b + i
  <2>1. \A i \in from..events : all[i] \in Nat /\ all[i] = i
    BY <1>1, <1>2
  <2> HIDE DEF from, all
  <2>2. from \in Int /\ events \in Int
    BY <1>2
  <2>3. /\ SubSeq(all, from, events) \in Seq(Nat)
        /\ Len(SubSeq(all, from, events)) = IF from <= events THEN events - from + 1 ELSE 0
        /\ \A i \in 1..(events - from + 1) : SubSeq(all, from, events)[i] = all[from + i - 1]
    BY ONLY <2>1, <2>2, SubSeqProperties
  <2>4. ASSUME NEW i \in 1..(events - from + 1) PROVE Recent[i] = b + i
    <3> DEFINE j == from + i - 1
    <3>1. j \in from..events /\ j = b + i
      BY <1>2
    <3>2. Recent[i] = all[j]
      BY <1>3, <2>3
    <3> HIDE DEF j
    <3> QED BY <2>1, <3>1, <3>2
  <2>5. events - b = events - from + 1
    BY <1>2
  <2>6. Len(Recent) = events - from + 1
    BY <1>2, <1>3, <2>3
  <2> HIDE DEF b
  <2> QED BY <1>3, <2>3, <2>4, <2>5, <2>6
<1> HIDE DEF all, from
<1>5. Hello.kind = "hello" /\ Hello.active = Firing /\ Hello.items = Recent /\ Hello \in Messages
  BY <1>4 DEF Hello, Messages, Firing
<1>6. b \in Nat /\ b <= events /\ (b = events => events = 0)
  BY <1>2
<1> HIDE DEF b
<1>7. Newest(Hello) = events /\ Base(Hello) = b
  BY <1>4, <1>5, <1>6, RunFacts
<1>8. Hello \in Carried(snapshots, events)
  BY <1>4, <1>5, <1>6, <1>7 DEF Carried
<1> QED BY <1>5, <1>7, <1>8

-----------------------------------------------------------------------------
(* What is on the wire.                                                    *)

\* Behind a feed, the messages of a socket bring its events in order: hello once
\* and first, then what was published after it.
Following(feed) ==
    {w \in Seq(Messages) :
        /\ \A i \in 1..Len(w) : w[i].kind \in News =>
              \A k \in 1..Len(feed) : feed[k] <= SeenBefore(w[i])
        /\ \A i, j \in 1..Len(w) : i < j /\ w[i].kind \in News /\ w[j].kind \in News =>
              w[j].kind = "events" /\ Newest(w[i]) <= Base(w[j])}

\* The last message of these kinds brings the present value, if there is none it is shown.
Bringing(kinds, value, shown, present) ==
    {w \in Seq(Messages) :
        /\ (\A i \in 1..Len(w) : w[i].kind \notin kinds) => shown = present
        /\ \A i \in 1..Len(w) :
              w[i].kind \in kinds /\ (\A j \in 1..Len(w) : j > i => w[j].kind \notin kinds) =>
                 value[w[i]] = present}

LEMMA EmptyWire ==
    ASSUME NEW feed, NEW kinds, NEW value, NEW shown, NEW present
    PROVE  /\ <<>> \in Following(feed)
           /\ <<>> \in Bringing(kinds, value, shown, present) <=> shown = present
<1>1. <<>> \in Seq(Messages) /\ Len(<<>>) = 0 /\ 1..0 = {}
  OBVIOUS
<1> QED BY <1>1 DEF Following, Bringing

LEMMA WireAppend ==
    ASSUME NEW w \in Seq(Messages), NEW m \in Messages
    PROVE  /\ Append(w, m) \in Seq(Messages) /\ Len(Append(w, m)) = Len(w) + 1 /\ Len(w) \in Nat
           /\ \A i \in 1..Len(w) : Append(w, m)[i] = w[i]
           /\ Append(w, m)[Len(w) + 1] = m
BY AppendProperties

LEMMA WireTail ==
    ASSUME NEW w \in Seq(Messages), w # <<>>
    PROVE  /\ Tail(w) \in Seq(Messages) /\ Len(w) \in Nat \ {0} /\ Len(Tail(w)) = Len(w) - 1
           /\ \A i \in 1..Len(Tail(w)) : Tail(w)[i] = w[i + 1] /\ i + 1 \in 1..Len(w)
           /\ \A i \in 2..Len(w) : w[i] = Tail(w)[i - 1] /\ i - 1 \in 1..Len(Tail(w))
           /\ Head(w) = w[1] /\ Head(w) \in Messages
<1>1. /\ Tail(w) \in Seq(Messages) /\ Len(w) \in Nat \ {0} /\ Len(Tail(w)) = Len(w) - 1
      /\ \A i \in 1..Len(Tail(w)) : Tail(w)[i] = w[i + 1]
      /\ Head(w) \in Messages
  BY HeadTailProperties, EmptySeq
<1>2. Head(w) = w[1]
  OBVIOUS
<1>3. ASSUME NEW i \in 2..Len(w) PROVE w[i] = Tail(w)[i - 1] /\ i - 1 \in 1..Len(Tail(w))
  <2> DEFINE j == i - 1
  <2>1. j \in 1..Len(Tail(w)) /\ j + 1 = i
    BY <1>1
  <2> HIDE DEF j
  <2>2. Tail(w)[j] = w[i]
    BY <1>1, <2>1
  <2> QED BY <2>1, <2>2 DEF j
<1> QED BY <1>1, <1>2, <1>3

LEMMA BringingAppend ==
    ASSUME NEW w \in Seq(Messages), NEW m \in Messages, NEW kinds, NEW value,
           NEW shown, NEW present
    PROVE  /\ m.kind \in kinds /\ value[m] = present =>
                 Append(w, m) \in Bringing(kinds, value, shown, present)
           /\ m.kind \notin kinds /\ w \in Bringing(kinds, value, shown, present) =>
                 Append(w, m) \in Bringing(kinds, value, shown, present)
<1> DEFINE u == Append(w, m)
<1>1. /\ u \in Seq(Messages) /\ Len(u) = Len(w) + 1 /\ Len(w) \in Nat
      /\ \A i \in 1..Len(w) : u[i] = w[i]
      /\ u[Len(w) + 1] = m
  BY WireAppend
<1> HIDE DEF u
<1>2. ASSUME m.kind \in kinds, value[m] = present
      PROVE  u \in Bringing(kinds, value, shown, present)
  <2>1. Len(w) + 1 \in 1..Len(u)
    BY <1>1
  <2>2. \A i \in 1..Len(u) :
            u[i].kind \in kinds /\ (\A j \in 1..Len(u) : j > i => u[j].kind \notin kinds) => i = Len(w) + 1
    BY <1>1, <1>2, <2>1
  <2> QED BY <1>1, <1>2, <2>1, <2>2 DEF Bringing
<1>3. ASSUME m.kind \notin kinds, w \in Bringing(kinds, value, shown, present)
      PROVE  u \in Bringing(kinds, value, shown, present)
  <2>1. (\A i \in 1..Len(u) : u[i].kind \notin kinds) => shown = present
    <3>1. 1..Len(w) \subseteq 1..Len(u)
      BY <1>1
    <3> QED BY <1>1, <1>3, <3>1 DEF Bringing
  <2>2. ASSUME NEW i \in 1..Len(u), u[i].kind \in kinds,
               \A j \in 1..Len(u) : j > i => u[j].kind \notin kinds
        PROVE  value[u[i]] = present
    <3>1. i # Len(w) + 1 /\ i \in 1..Len(w) /\ u[i] = w[i]
      BY <1>1, <1>3, <2>2
    <3>2. ASSUME NEW j \in 1..Len(w), j > i PROVE w[j].kind \notin kinds
      <4>1. j \in 1..Len(u) /\ u[j] = w[j]
        BY <1>1
      <4> QED BY <2>2, <3>2, <4>1
    <3> QED BY <1>3, <2>2, <3>1, <3>2 DEF Bringing
  <2> QED BY <1>1, <2>1, <2>2 DEF Bringing
<1> QED BY <1>2, <1>3 DEF u

LEMMA BringingTail ==
    ASSUME NEW kinds, NEW value, NEW shown, NEW present,
           NEW w \in Bringing(kinds, value, shown, present), w # <<>>
    PROVE  /\ Head(w).kind \in kinds =>
                 Tail(w) \in Bringing(kinds, value, value[Head(w)], present)
           /\ Head(w).kind \notin kinds =>
                 Tail(w) \in Bringing(kinds, value, shown, present)
<1> DEFINE u == Tail(w)
           m == Head(w)
<1>0. w \in Seq(Messages)
  BY DEF Bringing
<1>1. /\ u \in Seq(Messages) /\ Len(w) \in Nat \ {0} /\ Len(u) = Len(w) - 1
      /\ \A i \in 1..Len(u) : u[i] = w[i + 1] /\ i + 1 \in 1..Len(w)
      /\ \A i \in 2..Len(w) : w[i] = u[i - 1] /\ i - 1 \in 1..Len(u)
      /\ m = w[1] /\ 1 \in 1..Len(w)
  BY <1>0, WireTail
<1> HIDE DEF u, m
<1>2. ASSUME NEW i \in 1..Len(u), u[i].kind \in kinds,
             \A j \in 1..Len(u) : j > i => u[j].kind \notin kinds
      PROVE  value[u[i]] = present
  <2>1. i + 1 \in 1..Len(w) /\ u[i] = w[i + 1]
    BY <1>1
  <2>2. ASSUME NEW j \in 1..Len(w), j > i + 1 PROVE w[j].kind \notin kinds
    <3>1. j \in 2..Len(w) /\ j - 1 > i
      BY <1>1, <2>2
    <3>2. w[j] = u[j - 1] /\ j - 1 \in 1..Len(u)
      BY <1>1, <3>1
    <3> QED BY <1>2, <3>1, <3>2
  <2> DEFINE k == i + 1
  <2> HIDE DEF k
  <2>3. k \in 1..Len(w) /\ u[i] = w[k] /\ \A j \in 1..Len(w) : j > k => w[j].kind \notin kinds
    BY <2>1, <2>2 DEF k
  <2> QED BY <1>2, <2>3 DEF Bringing
<1>3. ASSUME \A i \in 1..Len(u) : u[i].kind \notin kinds
      PROVE  \A j \in 1..Len(w) : j > 1 => w[j].kind \notin kinds
  <2> TAKE j \in 1..Len(w)
  <2> HAVE j > 1
  <2>1. j \in 2..Len(w)
    BY <1>1
  <2>2. w[j] = u[j - 1] /\ j - 1 \in 1..Len(u)
    BY <1>1, <2>1
  <2> QED BY <1>3, <2>2
<1>4. ASSUME m.kind \in kinds PROVE u \in Bringing(kinds, value, value[m], present)
  <2>1. (\A i \in 1..Len(u) : u[i].kind \notin kinds) => value[m] = present
    BY <1>1, <1>3, <1>4 DEF Bringing
  <2> QED BY <1>1, <1>2, <2>1 DEF Bringing
<1>5. ASSUME m.kind \notin kinds PROVE u \in Bringing(kinds, value, shown, present)
  <2>1. ASSUME \A i \in 1..Len(u) : u[i].kind \notin kinds PROVE shown = present
    <3>1. \A j \in 1..Len(w) : w[j].kind \notin kinds
      BY <1>1, <1>3, <1>5, <2>1
    <3> QED BY <3>1 DEF Bringing
  <2> QED BY <1>1, <1>2, <2>1 DEF Bringing
<1> QED BY <1>4, <1>5 DEF u, m

LEMMA FollowingAppend ==
    ASSUME NEW feed, NEW w \in Following(feed), NEW m \in Messages
    PROVE  /\ m.kind \notin News => Append(w, m) \in Following(feed)
           /\ m.kind = "events"
              /\ (\A i \in 1..Len(w) : w[i].kind \in News => Newest(w[i]) <= Base(m))
              /\ (\A k \in 1..Len(feed) : feed[k] <= Base(m))
              => Append(w, m) \in Following(feed)
<1> DEFINE u == Append(w, m)
<1>0. w \in Seq(Messages)
  BY DEF Following
<1>1. /\ u \in Seq(Messages) /\ Len(u) = Len(w) + 1 /\ Len(w) \in Nat
      /\ \A i \in 1..Len(w) : u[i] = w[i]
      /\ u[Len(w) + 1] = m
  BY <1>0, WireAppend
<1>2. \A i \in 1..Len(u) : i \in 1..Len(w) \/ i = Len(w) + 1
  BY <1>1
<1> HIDE DEF u
<1>3. ASSUME m.kind \notin News PROVE u \in Following(feed)
  <2>1. \A i \in 1..Len(u) : u[i].kind \in News => i \in 1..Len(w) /\ u[i] = w[i]
    BY <1>1, <1>2, <1>3
  <2> QED BY <1>1, <2>1 DEF Following
<1>4. ASSUME m.kind = "events",
             \A i \in 1..Len(w) : w[i].kind \in News => Newest(w[i]) <= Base(m),
             \A k \in 1..Len(feed) : feed[k] <= Base(m)
      PROVE  u \in Following(feed)
  <2>1. \A i \in 1..Len(u) : u[i].kind \in News =>
            \A k \in 1..Len(feed) : feed[k] <= SeenBefore(u[i])
    BY <1>1, <1>2, <1>4 DEF Following, SeenBefore
  <2>2. ASSUME NEW i \in 1..Len(u), NEW j \in 1..Len(u), i < j, u[i].kind \in News, u[j].kind \in News
        PROVE  u[j].kind = "events" /\ Newest(u[i]) <= Base(u[j])
    <3>1. i \in 1..Len(w) /\ u[i] = w[i]
      BY <1>1, <2>2
    <3>2. CASE j = Len(w) + 1
      BY <1>1, <1>4, <2>2, <3>1, <3>2
    <3>3. CASE j \in 1..Len(w)
      BY <1>1, <2>2, <3>1, <3>3 DEF Following
    <3> QED BY <1>2, <3>2, <3>3
  <2> QED BY <1>1, <2>1, <2>2 DEF Following
<1> QED BY <1>3, <1>4 DEF u

LEMMA FollowingTail ==
    ASSUME NEW sn, NEW ev \in Nat, NEW feed, NEW feed2 \in Seq(Nat),
           NEW w \in Following(feed), w \in Seq(Carried(sn, ev)), w # <<>>,
           \/ Head(w).kind \notin News /\ feed2 = feed
           \/ Head(w).kind \in News /\ \A k \in 1..Len(feed2) : feed2[k] <= Newest(Head(w))
    PROVE  Tail(w) \in Following(feed2)
<1> DEFINE u == Tail(w)
           m == Head(w)
<1>0. w \in Seq(Messages)
  BY DEF Following
<1>1. /\ u \in Seq(Messages) /\ Len(w) \in Nat \ {0} /\ Len(u) = Len(w) - 1
      /\ \A i \in 1..Len(u) : u[i] = w[i + 1] /\ i + 1 \in 1..Len(w)
      /\ m = w[1] /\ 1 \in 1..Len(w)
  BY <1>0, WireTail
<1> HIDE DEF u, m
<1>2. ASSUME NEW i \in 1..Len(u), NEW j \in 1..Len(u), i < j, u[i].kind \in News, u[j].kind \in News
      PROVE  u[j].kind = "events" /\ Newest(u[i]) <= Base(u[j])
  <2>1. /\ u[i] = w[i + 1] /\ u[j] = w[j + 1] /\ i + 1 < j + 1
        /\ i + 1 \in 1..Len(w) /\ j + 1 \in 1..Len(w)
    <3>1. u[i] = w[i + 1] /\ i + 1 \in 1..Len(w)
      BY <1>1
    <3>2. u[j] = w[j + 1] /\ j + 1 \in 1..Len(w)
      BY <1>1
    <3>3. i + 1 < j + 1
      <4>1. i \in Int /\ j \in Int
        BY <1>1
      <4> QED BY ONLY <4>1, i < j
    <3> QED BY ONLY <3>1, <3>2, <3>3
  <2> QED BY <1>2, <2>1 DEF Following
<1>3. ASSUME NEW i \in 1..Len(u), u[i].kind \in News, NEW k \in 1..Len(feed2)
      PROVE  feed2[k] <= SeenBefore(u[i])
  <2>1. u[i] = w[i + 1] /\ i + 1 \in 1..Len(w) /\ 1 < i + 1
    BY <1>1
  <2>2. CASE m.kind \notin News /\ feed2 = feed
    BY <1>3, <2>1, <2>2 DEF Following
  <2>3. CASE m.kind \in News /\ \A l \in 1..Len(feed2) : feed2[l] <= Newest(m)
    <3>1. u[i].kind = "events" /\ Newest(m) <= Base(u[i])
      BY <1>1, <1>3, <2>1, <2>3 DEF Following
    <3>2. feed2[k] <= Newest(m) /\ SeenBefore(u[i]) = Base(u[i])
      BY <2>3, <3>1 DEF SeenBefore
    <3>3. Newest(m) \in Int /\ Base(u[i]) \in Int /\ feed2[k] \in Int
      <4>1. m \in Carried(sn, ev) /\ u[i] \in Carried(sn, ev)
        BY <1>1, <2>1, ElementOfSeq
      <4>2. feed2[k] \in Nat
        BY ElementOfSeq
      <4> QED BY <1>3, <2>3, <4>1, <4>2 DEF Carried
    <3> QED BY <3>1, <3>2, <3>3
  <2> QED BY <2>2, <2>3 DEF m
<1> QED BY <1>1, <1>2, <1>3 DEF Following, u

-----------------------------------------------------------------------------
(* The inductive invariant of the dashboard.                               *)

Bit(b) == IF b THEN 1 ELSE 0
AlertBit == [m \in Messages |-> Bit(IF m.kind = "hello" THEN m.active ELSE m.firing)]
Number == [m \in Messages |-> m.n]
NewestEvent == [m \in Messages |-> Newest(m)]

Views(sn, ev) == [snapshot : 0..sn, active : BOOLEAN, feed : Feeds(ev)]

ServerTyped ==
    /\ snapshots \in 0..MaxSnapshots /\ toggles \in 0..MaxToggles /\ events \in 0..MaxEvents
    /\ answer \in {New, Done} \cup 1..snapshots

\* Only the socket in use has messages the page will still look at.
WireTyped ==
    /\ wire \in [Sockets -> Seq(Carried(snapshots, events))]
    /\ \A s \in Sockets : s # attached => wire[s] = <<>>

\* Whatever became of the socket in use, it brings nothing the page has gone beyond.
WireFollows == attached # 0 => wire[attached] \in Following(view.feed)

\* And as long as it is open it brings all that the page does not show yet.
WireBrings ==
    attached # 0 /\ phase[attached] = "open" =>
        /\ wire[attached] \in Bringing(AlertNews, AlertBit, Bit(view.active), toggles % 2)
        /\ wire[attached] \in Bringing({"snapshot"}, Number, view.snapshot, snapshots)
        /\ wire[attached] \in Bringing(News, NewestEvent, Top(view.feed), events)

PageInv ==
    /\ ServerTyped /\ view \in Views(snapshots, events)
    /\ WireTyped /\ WireFollows /\ WireBrings

LEMMA ViewFacts ==
    ASSUME NEW sn, NEW ev, NEW v \in Views(sn, ev)
    PROVE  v.snapshot \in 0..sn /\ v.active \in BOOLEAN /\ v.feed \in Feeds(ev)
BY DEF Views

LEMMA FeedsGrow ==
    ASSUME NEW ev \in Nat, NEW ev2 \in Nat, ev <= ev2
    PROVE  Feeds(ev) \subseteq Feeds(ev2)
<1>1. 1..ev \subseteq 1..ev2
  OBVIOUS
<1> QED BY <1>1, SeqMonotonic DEF Feeds

LEMMA CountsTyped ==
    ASSUME ServerTyped
    PROVE  /\ snapshots \in Nat /\ events \in Nat /\ toggles \in Nat /\ toggles % 2 \in {0, 1}
           /\ MaxSnapshots \in Nat /\ MaxEvents \in Nat /\ MaxToggles \in Nat
<1>1. /\ snapshots \in Nat /\ events \in Nat /\ toggles \in Nat
      /\ MaxSnapshots \in Nat /\ MaxEvents \in Nat /\ MaxToggles \in Nat
  BY DashboardAssumption DEF DashboardAssumption, ServerTyped
<1> QED BY <1>1

LEMMA FiringBit ==
    ASSUME toggles \in Nat PROVE Bit(Firing) = toggles % 2
<1>1. toggles % 2 \in {0, 1}
  OBVIOUS
<1> QED BY <1>1 DEF Bit, Firing

\* What a message makes of the page.
LEMMA ApplyFacts ==
    ASSUME snapshots \in Nat, events \in Nat, view \in Views(snapshots, events),
           NEW m \in Carried(snapshots, events),
           m.kind \in News => \A k \in 1..Len(view.feed) : view.feed[k] <= SeenBefore(m)
    PROVE  LET v == applyMessage(m)
           IN  /\ v \in Views(snapshots, events)
               /\ v.snapshot = IF m.kind = "snapshot" THEN Number[m] ELSE view.snapshot
               /\ Bit(v.active) = IF m.kind \in AlertNews THEN AlertBit[m] ELSE Bit(view.active)
               /\ Top(v.feed) = IF m.kind \in News THEN NewestEvent[m] ELSE Top(view.feed)
               /\ m.kind \notin News => v.feed = view.feed
               /\ m.kind \in News => \A k \in 1..Len(v.feed) : v.feed[k] <= Newest(m)
<1> DEFINE v == applyMessage(m)
           merged == mergeFeed(view.feed, m.items)
<1>1. /\ m \in Messages /\ m.kind \in {"hello", "events", "snapshot", "alert"}
      /\ m.kind = "hello" => m.active \in BOOLEAN
      /\ m.kind = "alert" => m.firing \in BOOLEAN
      /\ m.kind \in News => m.items \in Seq(Nat)
  BY MessageFacts DEF Carried
<1>2. /\ view.snapshot \in 0..snapshots /\ view.active \in BOOLEAN
      /\ view.feed \in Feeds(events)
  BY ViewFacts
<1>3. Number[m] = m.n /\ NewestEvent[m] = Newest(m)
  BY <1>1 DEF Number, NewestEvent
<1>4. AlertBit[m] = Bit(IF m.kind = "hello" THEN m.active ELSE m.firing)
  BY <1>1 DEF AlertBit
<1>5. ASSUME m.kind \in News
      PROVE  /\ merged \in Feeds(events) /\ Top(merged) = Newest(m)
             /\ \A k \in 1..Len(merged) : merged[k] <= Newest(m)
  <2> DEFINE f == view.feed
             items == m.items
             b == Base(m)
  <2>1. /\ items \in Seq(Nat) /\ b \in Nat /\ Newest(m) \in 0..events
        /\ \A i \in 1..Len(items) : items[i] = b + i
        /\ (m.kind = "events" => items # <<>>)
    BY <1>1, <1>5 DEF Carried
  <2>2. Len(items) \in Nat /\ Newest(m) = b + Len(items)
    <3>1. items = <<>> => Newest(m) = 0
      BY DEF Newest
    <3>2. Len(items) \in Nat /\ Newest(m) \in Int /\ Base(m) = Newest(m) - Len(items)
      BY <2>1 DEF Base
    <3> QED BY <3>2
  <2>3. f \in Feeds(events) /\ f \in Seq(1..events) /\ Len(f) \in Nat
        /\ \A k \in 1..Len(f) : f[k] \in 1..events
    <3>1. f \in Feeds(events)
      BY <1>2
    <3>2. f \in Seq(1..events)
      BY <3>1 DEF Feeds
    <3> HIDE DEF f
    <3> QED BY ONLY <3>1, <3>2, ElementOfSeq, LenProperties
  <2>4. \A k \in 1..Len(f) : f[k] <= SeenBefore(m)
    BY <1>5
  <2>5. SeenBefore(m) \in Int /\ SeenBefore(m) <= b + Len(items)
    BY <2>1, <2>2 DEF SeenBefore
  <2>6. b + Len(items) <= events /\ b + Len(items) \in Nat
    BY <2>1, <2>2
  <2>7. items = <<>> => Top(f) = Newest(m)
    <3>1. ASSUME items = <<>> PROVE Newest(m) = 0 /\ b = 0
      BY <2>1, <2>2, <3>1 DEF Newest
    <3>2. ASSUME items = <<>> PROVE Len(f) = 0
      <4>1. SeenBefore(m) = 0
        BY <2>1, <3>1, <3>2 DEF SeenBefore
      <4>2. \A k \in 1..Len(f) : f[k] <= 0 /\ f[k] \in 1..events
        BY <2>3, <2>4, <4>1
      <4>3. Len(f) > 0 => 1 \in 1..Len(f)
        BY <2>3
      <4> QED BY <2>3, <4>2, <4>3
    <3>3. Len(f) = 0 => f = <<>>
      BY <2>3, EmptySeq
    <3> QED BY <3>1, <3>2, <3>3 DEF Top
  <2> HIDE DEF f, items, b
  <2>8. \A k \in 1..Len(f) : f[k] <= b + Len(items)
    BY <2>3, <2>4, <2>5, <2>6
  <2>9. /\ mergeFeed(f, items) \in Feeds(events)
        /\ \A i \in 1..Len(mergeFeed(f, items)) : mergeFeed(f, items)[i] <= b + Len(items)
        /\ Top(mergeFeed(f, items)) = IF items = <<>> THEN Top(f) ELSE b + Len(items)
    <3>1. /\ events \in Nat /\ f \in Feeds(events) /\ b \in Nat /\ items \in Seq(Nat)
          /\ b + Len(items) <= events
          /\ \A i \in 1..Len(items) : items[i] = b + i
          /\ \A i \in 1..Len(f) : f[i] <= b + Len(items)
      BY <2>1, <2>3, <2>6, <2>8
    <3>2. mergeFeed(f, items) \in Feeds(events)
      BY ONLY <3>1, MergeFacts
    <3>3. \A i \in 1..Len(mergeFeed(f, items)) : mergeFeed(f, items)[i] <= b + Len(items)
      BY ONLY <3>1, MergeFacts, ZenonT(60)
    <3>4. Top(mergeFeed(f, items)) = IF items = <<>> THEN Top(f) ELSE b + Len(items)
      BY ONLY <3>1, MergeFacts, SMTT(60)
    <3> QED BY <3>2, <3>3, <3>4
  <2> QED BY <2>2, <2>7, <2>9 DEF f, items
<1> HIDE DEF merged
<1>6. CASE m.kind = "hello"
  <2>1. v = [view EXCEPT !.active = m.active, !.feed = merged]
    BY <1>6 DEF applyMessage, merged
  <2>2. v = [snapshot |-> view.snapshot, active |-> m.active, feed |-> merged]
    BY <2>1 DEF Views
  <2>3. v.snapshot = view.snapshot /\ v.active = m.active /\ v.feed = merged
    BY <2>2
  <2>4. m.kind \in News /\ m.kind \in AlertNews /\ m.kind # "snapshot"
    BY <1>6 DEF News, AlertNews
  <2>5. v \in Views(snapshots, events)
    BY <1>1, <1>2, <1>5, <1>6, <2>2, <2>4 DEF Views
  <2> HIDE DEF v
  <2> QED BY <1>3, <1>4, <1>5, <1>6, <2>3, <2>4, <2>5 DEF v
<1>7. CASE m.kind = "events"
  <2>1. v = [view EXCEPT !.feed = merged]
    BY <1>7 DEF applyMessage, merged
  <2>2. v = [snapshot |-> view.snapshot, active |-> view.active, feed |-> merged]
    BY <2>1 DEF Views
  <2>3. v.snapshot = view.snapshot /\ v.active = view.active /\ v.feed = merged
    BY <2>2
  <2>4. m.kind \in News /\ m.kind \notin AlertNews /\ m.kind # "snapshot"
    BY <1>7 DEF News, AlertNews
  <2>5. v \in Views(snapshots, events)
    BY <1>2, <1>5, <2>2, <2>4 DEF Views
  <2> HIDE DEF v
  <2> QED BY <1>3, <1>5, <2>3, <2>4, <2>5 DEF v
<1>8. CASE m.kind = "snapshot"
  <2>1. v = [view EXCEPT !.snapshot = m.n]
    BY <1>8 DEF applyMessage
  <2>2. v = [snapshot |-> m.n, active |-> view.active, feed |-> view.feed]
    BY <2>1 DEF Views
  <2>3. v.snapshot = m.n /\ v.active = view.active /\ v.feed = view.feed
    BY <2>2
  <2>4. m.kind \notin News /\ m.kind \notin AlertNews
    BY <1>8 DEF News, AlertNews
  <2>5. m.n \in 0..snapshots
    BY <1>8 DEF Carried
  <2>6. v \in Views(snapshots, events)
    BY <1>2, <2>2, <2>5 DEF Views
  <2> HIDE DEF v
  <2> QED BY <1>3, <1>8, <2>3, <2>4, <2>6 DEF v
<1>9. CASE m.kind = "alert"
  <2>1. v = [view EXCEPT !.active = m.firing]
    BY <1>9 DEF applyMessage
  <2>2. v = [snapshot |-> view.snapshot, active |-> m.firing, feed |-> view.feed]
    BY <2>1 DEF Views
  <2>3. v.snapshot = view.snapshot /\ v.active = m.firing /\ v.feed = view.feed
    BY <2>2
  <2>4. m.kind \notin News /\ m.kind \in AlertNews /\ m.kind # "snapshot" /\ m.kind # "hello"
    BY <1>9 DEF News, AlertNews
  <2>5. v \in Views(snapshots, events)
    BY <1>1, <1>2, <1>9, <2>2 DEF Views
  <2> HIDE DEF v
  <2> QED BY <1>4, <2>3, <2>4, <2>5 DEF v
<1> QED BY <1>1, <1>6, <1>7, <1>8, <1>9

-----------------------------------------------------------------------------
(* The server's steps.                                                     *)

LEMMA PublishFacts ==
    ASSUME ClientInv, PageInv, NEW sn \in Nat, NEW ev \in Nat, snapshots <= sn, events <= ev,
           NEW m \in Carried(sn, ev), Publish(m)
    PROVE  /\ wire' \in [Sockets -> Seq(Carried(sn, ev))]
           /\ \A s \in Sockets : s # attached => wire'[s] = <<>>
           /\ attached # 0 => attached \in Sockets /\ wire[attached] \in Seq(Messages)
           /\ attached # 0 /\ phase[attached] = "open" =>
                 wire'[attached] = Append(wire[attached], m)
           /\ attached # 0 /\ phase[attached] # "open" => wire'[attached] = wire[attached]
<1>1. snapshots \in Nat /\ events \in Nat
  BY CountsTyped DEF PageInv
<1>2. Carried(snapshots, events) \subseteq Carried(sn, ev) /\ Carried(sn, ev) \subseteq Messages
  BY <1>1, CarriedGrows DEF Carried
<1>3. wire \in [Sockets -> Seq(Carried(snapshots, events))]
      /\ \A s \in Sockets : s # attached => wire[s] = <<>>
  BY DEF PageInv, WireTyped
<1>4. \A s \in Sockets : wire[s] \in Seq(Carried(sn, ev)) /\ wire[s] \in Seq(Messages)
  BY <1>2, <1>3, SeqMonotonic
<1>5. \A s \in Sockets : Append(wire[s], m) \in Seq(Carried(sn, ev))
  BY <1>4, AppendProperties
<1>6. attached # 0 => attached \in Sockets
  BY DEF ClientInv, ClientTypeOK, Sockets
<1>7. wire' = [s \in Sockets |-> IF phase[s] = "open" /\ s = attached
                                 THEN Append(wire[s], m) ELSE wire[s]]
  BY DEF Publish
<1>8. \A s \in Sockets : wire'[s] = IF phase[s] = "open" /\ s = attached
                                    THEN Append(wire[s], m) ELSE wire[s]
  BY <1>7
<1>9. wire' \in [Sockets -> Seq(Carried(sn, ev))]
  BY <1>4, <1>5, <1>7
<1> QED BY <1>3, <1>4, <1>6, <1>8, <1>9

LEMMA KeptBringing ==
    ASSUME NEW kinds, NEW value, NEW shown, NEW present, NEW w \in Seq(Messages),
           w \in Bringing(kinds, value, shown, present), NEW m \in Messages, m.kind \notin kinds
    PROVE  Append(w, m) \in Bringing(kinds, value, shown, present)
BY BringingAppend

LEMMA PublishSnapshotKeeps ==
    ASSUME ClientInv, PageInv, PublishSnapshot PROVE PageInv'
<1> DEFINE m == Snapshot(snapshots + 1)
           a == attached
           w == wire[a]
<1>1. /\ snapshots' = snapshots + 1 /\ Publish(m) /\ snapshots < MaxSnapshots
      /\ UNCHANGED <<phase, attached, toggles, events, answer, view>>
  BY DEF PublishSnapshot, clientVars
<1>2. /\ ServerTyped /\ view \in Views(snapshots, events) /\ snapshots \in Nat /\ events \in Nat
      /\ MaxSnapshots \in Nat
  BY CountsTyped DEF PageInv
<1>3. m \in Messages /\ m.kind = "snapshot" /\ m.n = snapshots + 1 /\ Number[m] = snapshots + 1
  BY <1>2 DEF Snapshot, Messages, Number
<1>4. m \in Carried(snapshots + 1, events)
  BY <1>2, <1>3 DEF Carried, News
<1> HIDE DEF m
<1>5. /\ wire' \in [Sockets -> Seq(Carried(snapshots + 1, events))]
      /\ \A s \in Sockets : s # a => wire'[s] = <<>>
      /\ a # 0 => w \in Seq(Messages)
      /\ a # 0 /\ phase[a] = "open" => wire'[a] = Append(w, m)
      /\ a # 0 /\ phase[a] # "open" => wire'[a] = w
  <2>1. snapshots + 1 \in Nat /\ snapshots <= snapshots + 1 /\ events <= events
    BY <1>2
  <2> QED BY <1>1, <1>2, <1>4, <2>1, PublishFacts
<1>6. ServerTyped'
  <2>1. snapshots' \in 0..MaxSnapshots /\ 1..snapshots \subseteq 1..snapshots'
    BY <1>1, <1>2
  <2> QED BY <1>1, <1>2, <2>1 DEF ServerTyped
<1>7. view' \in Views(snapshots', events')
  <2>1. 0..snapshots \subseteq 0..(snapshots + 1)
    BY <1>2
  <2> QED BY <1>1, <1>2, <2>1 DEF Views
<1>8. WireTyped'
  BY <1>1, <1>5 DEF WireTyped, Sockets
<1>9. ASSUME a # 0 PROVE wire'[a] \in Following(view.feed)
  <2>1. w \in Following(view.feed)
    BY <1>9 DEF PageInv, WireFollows
  <2>2. m.kind \notin News
    BY <1>3 DEF News
  <2> HIDE DEF w, a
  <2>3. Append(w, m) \in Following(view.feed)
    BY <1>3, <2>1, <2>2, FollowingAppend
  <2> QED BY <1>5, <1>9, <2>1, <2>3
<1>10. ASSUME a # 0, phase[a] = "open"
       PROVE  /\ wire'[a] \in Bringing(AlertNews, AlertBit, Bit(view.active), toggles % 2)
              /\ wire'[a] \in Bringing({"snapshot"}, Number, view.snapshot, snapshots + 1)
              /\ wire'[a] \in Bringing(News, NewestEvent, Top(view.feed), events)
  <2>1. /\ w \in Bringing(AlertNews, AlertBit, Bit(view.active), toggles % 2)
        /\ w \in Bringing(News, NewestEvent, Top(view.feed), events)
        /\ w \in Seq(Messages) /\ wire'[a] = Append(w, m)
    BY <1>5, <1>10 DEF PageInv, WireBrings
  <2>2. m.kind \notin News /\ m.kind \notin AlertNews /\ m.kind \in {"snapshot"}
    BY <1>3 DEF News, AlertNews
  <2> HIDE DEF w, a
  <2>3. Append(w, m) \in Bringing(AlertNews, AlertBit, Bit(view.active), toggles % 2)
    BY <1>3, <2>1, <2>2, KeptBringing
  <2>4. Append(w, m) \in Bringing(News, NewestEvent, Top(view.feed), events)
    BY <1>3, <2>1, <2>2, KeptBringing
  <2>5. Append(w, m) \in Bringing({"snapshot"}, Number, view.snapshot, snapshots + 1)
    BY <1>3, <2>1, <2>2, BringingAppend
  <2> QED BY <2>1, <2>3, <2>4, <2>5
<1> QED BY <1>1, <1>6, <1>7, <1>8, <1>9, <1>10 DEF PageInv, WireFollows, WireBrings

LEMMA PublishAlertKeeps ==
    ASSUME ClientInv, PageInv, PublishAlert PROVE PageInv'
<1> DEFINE m == Alert(Firing')
           a == attached
           w == wire[a]
<1>1. /\ toggles' = toggles + 1 /\ Publish(m) /\ toggles < MaxToggles
      /\ UNCHANGED <<phase, attached, snapshots, events, answer, view>>
  BY DEF PublishAlert, clientVars
<1>2. /\ ServerTyped /\ view \in Views(snapshots, events) /\ snapshots \in Nat /\ events \in Nat
      /\ toggles \in Nat /\ MaxToggles \in Nat /\ toggles' \in Nat
  BY <1>1, CountsTyped DEF PageInv
<1>3. m \in Messages /\ m.kind = "alert" /\ AlertBit[m] = toggles' % 2
  <2>1. Firing' \in BOOLEAN
    BY DEF Firing
  <2>2. m = [kind |-> "alert", firing |-> Firing']
    BY DEF Alert
  <2>3. m \in Messages /\ m.kind = "alert" /\ m.firing = Firing'
    BY <2>1, <2>2 DEF Messages
  <2>4. toggles' % 2 \in {0, 1}
    <3>1. \A t \in Nat : t % 2 \in {0, 1}
      OBVIOUS
    <3>2. toggles' \in Nat
      BY <1>2
    <3> QED BY ONLY <3>1, <3>2
  <2>5. Bit(Firing') = toggles' % 2
    BY <2>4 DEF Bit, Firing
  <2> HIDE DEF m
  <2>6. AlertBit[m] = Bit(m.firing)
    BY <2>3 DEF AlertBit
  <2> QED BY <2>3, <2>5, <2>6
<1> HIDE DEF m
<1>4. m \in Carried(snapshots, events)
  BY <1>2, <1>3 DEF Carried, News
<1>5. /\ wire' \in [Sockets -> Seq(Carried(snapshots, events))]
      /\ \A s \in Sockets : s # a => wire'[s] = <<>>
      /\ a # 0 => w \in Seq(Messages)
      /\ a # 0 /\ phase[a] = "open" => wire'[a] = Append(w, m)
      /\ a # 0 /\ phase[a] # "open" => wire'[a] = w
  <2>1. snapshots <= snapshots /\ events <= events
    BY <1>2
  <2> QED BY <1>1, <1>2, <1>4, <2>1, PublishFacts
<1>6. ServerTyped'
  <2>1. toggles' \in 0..MaxToggles
    BY <1>1, <1>2
  <2> QED BY <1>1, <1>2, <2>1 DEF ServerTyped
<1>7. view' \in Views(snapshots', events')
  BY <1>1, <1>2
<1>8. WireTyped'
  BY <1>1, <1>5 DEF WireTyped, Sockets
<1>9. ASSUME a # 0 PROVE wire'[a] \in Following(view.feed)
  <2>1. w \in Following(view.feed)
    BY <1>9 DEF PageInv, WireFollows
  <2>2. m.kind \notin News
    BY <1>3 DEF News
  <2> HIDE DEF w, a
  <2>3. Append(w, m) \in Following(view.feed)
    BY <1>3, <2>1, <2>2, FollowingAppend
  <2> QED BY <1>5, <1>9, <2>1, <2>3
<1>10. ASSUME a # 0, phase[a] = "open"
       PROVE  /\ wire'[a] \in Bringing(AlertNews, AlertBit, Bit(view.active), toggles' % 2)
              /\ wire'[a] \in Bringing({"snapshot"}, Number, view.snapshot, snapshots)
              /\ wire'[a] \in Bringing(News, NewestEvent, Top(view.feed), events)
  <2>1. /\ w \in Bringing({"snapshot"}, Number, view.snapshot, snapshots)
        /\ w \in Bringing(News, NewestEvent, Top(view.feed), events)
        /\ w \in Seq(Messages) /\ wire'[a] = Append(w, m)
    BY <1>5, <1>10 DEF PageInv, WireBrings
  <2>2. m.kind \notin News /\ m.kind \in AlertNews /\ m.kind \notin {"snapshot"}
    BY <1>3 DEF News, AlertNews
  <2> HIDE DEF w, a
  <2>3. Append(w, m) \in Bringing({"snapshot"}, Number, view.snapshot, snapshots)
    BY <1>3, <2>1, <2>2, KeptBringing
  <2>4. Append(w, m) \in Bringing(News, NewestEvent, Top(view.feed), events)
    BY <1>3, <2>1, <2>2, KeptBringing
  <2>5. Append(w, m) \in Bringing(AlertNews, AlertBit, Bit(view.active), toggles' % 2)
    BY <1>3, <2>1, <2>2, BringingAppend
  <2> QED BY <2>1, <2>3, <2>4, <2>5
<1> QED BY <1>1, <1>6, <1>7, <1>8, <1>9, <1>10 DEF PageInv, WireFollows, WireBrings

LEMMA PublishEventsKeeps ==
    ASSUME ClientInv, PageInv, PublishEvents PROVE PageInv'
<1> DEFINE m == Published(events, events')
           a == attached
           w == wire[a]
<1>1. /\ events' \in (events + 1)..MaxEvents /\ Publish(m)
      /\ UNCHANGED <<phase, attached, snapshots, toggles, answer, view>>
  BY DEF PublishEvents, clientVars, Published
<1>2. /\ ServerTyped /\ view \in Views(snapshots, events) /\ snapshots \in Nat /\ events \in Nat
      /\ MaxEvents \in Nat
  BY CountsTyped DEF PageInv
<1>3. events' \in Nat /\ events < events' /\ events' \in 0..MaxEvents
  BY <1>1, <1>2
<1>4. m \in Carried(snapshots, events') /\ m.kind = "events" /\ Base(m) = events /\ Newest(m) = events'
  <2>1. snapshots \in Nat /\ events \in Nat /\ events' \in Nat /\ events < events'
    BY <1>2, <1>3
  <2> QED BY <2>1, EventsFacts
<1> HIDE DEF m
<1>5. m \in Messages /\ NewestEvent[m] = events'
  BY <1>4 DEF Carried, NewestEvent
<1>6. /\ wire' \in [Sockets -> Seq(Carried(snapshots, events'))]
      /\ \A s \in Sockets : s # a => wire'[s] = <<>>
      /\ a # 0 => a \in Sockets /\ w \in Seq(Messages)
      /\ a # 0 /\ phase[a] = "open" => wire'[a] = Append(w, m)
      /\ a # 0 /\ phase[a] # "open" => wire'[a] = w
  <2>1. snapshots <= snapshots /\ events <= events'
    BY <1>2, <1>3
  <2> QED BY <1>1, <1>2, <1>3, <1>4, <2>1, PublishFacts
<1>7. ServerTyped'
  BY <1>1, <1>2, <1>3 DEF ServerTyped
<1>8. view' \in Views(snapshots', events')
  <2>1. Feeds(events) \subseteq Feeds(events')
    BY <1>2, <1>3, FeedsGrow
  <2> QED BY <1>1, <1>2, <2>1 DEF Views
<1>9. WireTyped'
  BY <1>1, <1>6 DEF WireTyped, Sockets
<1>10. ASSUME a # 0 PROVE wire'[a] \in Following(view.feed)
  <2>1. w \in Following(view.feed)
    BY <1>10 DEF PageInv, WireFollows
  <2>2. ASSUME NEW i \in 1..Len(w), w[i].kind \in News PROVE Newest(w[i]) <= Base(m)
    <3>1. w \in Seq(Carried(snapshots, events))
      BY <1>6, <1>10 DEF PageInv, WireTyped
    <3>2. w[i] \in Carried(snapshots, events)
      BY <3>1, ElementOfSeq
    <3>3. Newest(w[i]) \in 0..events
      BY <2>2, <3>2 DEF Carried
    <3> QED BY <1>2, <1>4, <3>3
  <2>3. \A k \in 1..Len(view.feed) : view.feed[k] <= Base(m)
    <3>1. view.feed \in Seq(1..events)
      BY <1>2, ViewFacts DEF Feeds
    <3>2. \A k \in 1..Len(view.feed) : view.feed[k] \in 1..events
      BY <3>1, ElementOfSeq
    <3> QED BY <1>2, <1>4, <3>2
  <2> DEFINE feed == view.feed
  <2> HIDE DEF w, a, feed
  <2>4. Append(w, m) \in Following(feed)
    BY <1>4, <1>5, <2>1, <2>2, <2>3, FollowingAppend DEF feed
  <2> QED BY <1>6, <1>10, <2>1, <2>4 DEF feed
<1>11. ASSUME a # 0, phase[a] = "open"
       PROVE  /\ wire'[a] \in Bringing(AlertNews, AlertBit, Bit(view.active), toggles % 2)
              /\ wire'[a] \in Bringing({"snapshot"}, Number, view.snapshot, snapshots)
              /\ wire'[a] \in Bringing(News, NewestEvent, Top(view.feed), events')
  <2>1. /\ w \in Bringing({"snapshot"}, Number, view.snapshot, snapshots)
        /\ w \in Bringing(AlertNews, AlertBit, Bit(view.active), toggles % 2)
        /\ w \in Seq(Messages) /\ wire'[a] = Append(w, m)
    BY <1>6, <1>11 DEF PageInv, WireBrings
  <2>2. m.kind \in News /\ m.kind \notin AlertNews /\ m.kind \notin {"snapshot"}
    BY <1>4 DEF News, AlertNews
  <2> HIDE DEF w, a
  <2>3. Append(w, m) \in Bringing({"snapshot"}, Number, view.snapshot, snapshots)
    BY <1>5, <2>1, <2>2, KeptBringing
  <2>4. Append(w, m) \in Bringing(AlertNews, AlertBit, Bit(view.active), toggles % 2)
    BY <1>5, <2>1, <2>2, KeptBringing
  <2>5. Append(w, m) \in Bringing(News, NewestEvent, Top(view.feed), events')
    BY <1>5, <2>1, <2>2, BringingAppend
  <2> QED BY <2>1, <2>3, <2>4, <2>5
<1> QED BY <1>1, <1>7, <1>8, <1>9, <1>10, <1>11 DEF PageInv, WireFollows, WireBrings

LEMMA AskKeeps == ASSUME PageInv, Ask PROVE PageInv'
<1>1. /\ snapshots > 0 /\ answer' = snapshots
      /\ UNCHANGED <<phase, attached, snapshots, toggles, events, wire, view>>
  BY DEF Ask, clientVars, serverVars
<1>2. snapshots \in Nat
  BY CountsTyped DEF PageInv
<1>3. ServerTyped'
  BY <1>1, <1>2 DEF PageInv, ServerTyped
<1>4. WireTyped' /\ WireFollows' /\ WireBrings'
  BY <1>1 DEF PageInv, WireTyped, WireFollows, WireBrings, Sockets
<1> QED BY <1>1, <1>3, <1>4 DEF PageInv

\* The answer of REST does not replace a newer snapshot.
LEMMA AnswerKeeps == ASSUME PageInv, AnswerArrives PROVE PageInv'
<1>1. /\ answer \notin {New, Done} /\ answer' = Done
      /\ view' = [view EXCEPT !.snapshot = Loaded(answer)]
      /\ UNCHANGED <<phase, attached, snapshots, toggles, events, wire>>
  BY DEF AnswerArrives, clientVars, serverVars
<1>2. /\ snapshots \in Nat /\ ServerTyped /\ view \in Views(snapshots, events)
      /\ view.snapshot \in 0..snapshots /\ view.active \in BOOLEAN /\ view.feed \in Feeds(events)
  BY CountsTyped, ViewFacts DEF PageInv
<1>3. answer \in 1..snapshots
  BY <1>1, <1>2 DEF ServerTyped
<1>4. /\ Loaded(answer) \in 0..snapshots
      /\ view.snapshot = snapshots => Loaded(answer) = snapshots
  BY <1>2, <1>3 DEF Loaded
<1>5. view' = [snapshot |-> Loaded(answer), active |-> view.active, feed |-> view.feed]
  BY <1>1, <1>2 DEF Views
<1>6. view' \in Views(snapshots', events')
  BY <1>1, <1>2, <1>4, <1>5 DEF Views
<1>7. view'.snapshot = Loaded(answer) /\ view'.active = view.active /\ view'.feed = view.feed
  BY <1>5
<1>8. ServerTyped'
  BY <1>1, <1>2 DEF ServerTyped
<1>9. WireTyped' /\ WireFollows'
  BY <1>1, <1>7 DEF PageInv, WireTyped, WireFollows, Sockets
<1>10. WireBrings'
  <2>1. ASSUME NEW w \in Bringing({"snapshot"}, Number, view.snapshot, snapshots)
        PROVE  w \in Bringing({"snapshot"}, Number, Loaded(answer), snapshots)
    BY <1>4, <2>1 DEF Bringing
  <2> QED BY <1>1, <1>7, <2>1 DEF PageInv, WireBrings
<1> QED BY <1>6, <1>8, <1>9, <1>10 DEF PageInv

-----------------------------------------------------------------------------
(* The client's steps.                                                     *)

\* The page and the timers leave the socket in use, put none in its place or a new one.
LEMMA SocketMoves ==
    ASSUME ClientInv, start \/ stop \/ reconnectNow \/ RetryFires \/ HeartbeatFires
    PROVE  \/ UNCHANGED <<phase, attached>>
           \/ attached' = 0
           \/ attached' \notin Sockets /\ phase'[attached'] = "connecting"
<1>1. phase \in Seq(Phases) /\ Sockets = 1..Len(phase) /\ Len(phase) \in Nat
  BY DEF ClientInv, ClientTypeOK, Sockets
<1>2. Dropped \in Seq(Phases) /\ Len(Dropped) = Len(phase)
  BY DroppedShut DEF ClientInv
<1>3. ASSUME NEW sockets \in Seq(Phases), NEW beat, Len(sockets) = Len(phase), connect(sockets, beat)
      PROVE  attached' = 0 \/ (attached' \notin Sockets /\ phase'[attached'] = "connecting")
  <2>1. CASE phase' = Append(sockets, "connecting") /\ attached' = Len(sockets) + 1
    <3>1. phase'[attached'] = "connecting"
      BY <2>1, AppendProperties, "connecting" \in Phases DEF Phases
    <3> QED BY <1>1, <1>3, <2>1, <3>1
  <2> QED BY <1>3, <2>1 DEF connect
<1>4. CASE start
  BY <1>1, <1>3, <1>4 DEF start
<1>5. CASE stop
  BY <1>5 DEF stop
<1>6. CASE reconnectNow
  BY <1>2, <1>3, <1>6 DEF reconnectNow
<1>7. CASE RetryFires
  BY <1>1, <1>3, <1>7 DEF RetryFires
<1>8. CASE HeartbeatFires
  BY <1>8 DEF HeartbeatFires
<1> QED BY <1>4, <1>5, <1>6, <1>7, <1>8

LEMMA MoveKeeps == ASSUME ClientInv, ClientInv', PageInv, Page \/ Timer PROVE PageInv'
<1>1. /\ start \/ stop \/ reconnectNow \/ RetryFires \/ HeartbeatFires
      /\ Rewire /\ UNCHANGED <<snapshots, toggles, events, answer, view>>
  BY DEF Page, Timer, serverVars
<1>2. /\ wire \in [Sockets -> Seq(Carried(snapshots, events))]
      /\ wire' = [s \in Sockets' |-> IF s \in Sockets /\ s = attached' THEN wire[s] ELSE <<>>]
  BY <1>1 DEF Rewire, Sockets, PageInv, WireTyped
<1>3. /\ wire' \in [Sockets' -> Seq(Carried(snapshots, events))]
      /\ \A s \in Sockets' : wire'[s] = IF s \in Sockets /\ s = attached' THEN wire[s] ELSE <<>>
  BY <1>2
<1>4. attached' # 0 => attached' \in Sockets'
  BY DEF ClientInv, ClientTypeOK, Sockets
<1>5. WireTyped'
  BY <1>1, <1>3 DEF WireTyped
<1>6. ServerTyped' /\ view' \in Views(snapshots', events')
  BY <1>1 DEF PageInv, ServerTyped
<1>7. WireFollows' /\ WireBrings'
  <2>1. CASE UNCHANGED <<phase, attached>>
    <3>1. Sockets' = Sockets
      BY <2>1 DEF Sockets
    <3>2. attached # 0 => wire'[attached] = wire[attached]
      BY <1>3, <1>4, <2>1, <3>1
    <3> QED BY <1>1, <2>1, <3>2 DEF PageInv, WireFollows, WireBrings
  <2>2. CASE attached' = 0
    BY <2>2 DEF WireFollows, WireBrings
  <2>3. CASE attached' # 0 /\ attached' \notin Sockets /\ phase'[attached'] = "connecting"
    <3>1. wire'[attached'] = <<>>
      BY <1>3, <1>4, <2>3
    <3>2. <<>> \in Following(view'.feed)
      BY EmptyWire
    <3> QED BY <2>3, <3>1, <3>2 DEF WireFollows, WireBrings
  <2> QED BY <1>1, <2>1, <2>2, <2>3, SocketMoves
<1> QED BY <1>5, <1>6, <1>7 DEF PageInv

\* What a client is sent when it connects brings everything there is.
LEMMA GreetingFacts ==
    ASSUME PageInv
    PROVE  /\ Greeting \in Seq(Carried(snapshots, events)) /\ Greeting \in Following(view.feed)
           /\ Greeting \in Bringing(AlertNews, AlertBit, Bit(view.active), toggles % 2)
           /\ Greeting \in Bringing({"snapshot"}, Number, view.snapshot, snapshots)
           /\ Greeting \in Bringing(News, NewestEvent, Top(view.feed), events)
<1> DEFINE h == Hello
           m == Snapshot(snapshots)
           feed == view.feed
           shown == Bit(view.active)
           number == view.snapshot
           top == Top(view.feed)
           bit == toggles % 2
           one == Append(<<>>, h)
           two == Append(one, m)
<1>1. /\ snapshots \in Nat /\ events \in Nat /\ toggles \in Nat /\ number \in 0..snapshots
      /\ feed \in Feeds(events)
  BY CountsTyped, ViewFacts DEF PageInv
<1>2. /\ h \in Carried(snapshots, events) /\ h.kind = "hello" /\ h.active = Firing /\ Newest(h) = events
  BY <1>1, HelloFacts
<1>3. h \in Messages /\ NewestEvent[h] = events /\ AlertBit[h] = bit
  <2>1. h \in Messages
    BY <1>2 DEF Carried
  <2> HIDE DEF h
  <2>2. AlertBit[h] = Bit(h.active) /\ NewestEvent[h] = Newest(h)
    BY <1>2, <2>1 DEF AlertBit, NewestEvent
  <2>3. AlertBit[h] = Bit(Firing)
    BY <1>2, <2>2 DEF Bit
  <2> QED BY <1>1, <1>2, <2>1, <2>2, <2>3, FiringBit
<1>4. snapshots > 0 => /\ m \in Carried(snapshots, events) /\ m \in Messages
                       /\ m.kind = "snapshot" /\ Number[m] = snapshots
  BY <1>1 DEF Snapshot, Messages, Carried, Number, News
<1> HIDE DEF h, m
<1>5. Greeting = IF snapshots > 0 THEN two ELSE one
  <2>1. Greeting = <<h>> \o (IF snapshots > 0 THEN <<m>> ELSE <<>>)
    BY DEF Greeting, h, m
  <2>2. one = <<h>>
    OBVIOUS
  <2>3. <<h>> \o <<m>> = two /\ <<h>> \o <<>> = <<h>>
    BY <2>2
  <2> QED BY <2>1, <2>2, <2>3
<1>6. /\ one \in Seq(Messages) /\ Len(one) = 1 /\ one[1] = h
      /\ one \in Seq(Carried(snapshots, events))
  BY <1>2, <1>3
<1>7. /\ two \in Seq(Carried(snapshots, events)) \/ ~(snapshots > 0)
  BY <1>4, <1>6, AppendProperties
<1>8. <<>> \in Seq(Messages)
  OBVIOUS
<1>9. /\ one \in Bringing(AlertNews, AlertBit, shown, bit)
      /\ one \in Bringing(News, NewestEvent, top, events)
  <2>1. h.kind \in AlertNews /\ h.kind \in News
    BY <1>2 DEF AlertNews, News
  <2> HIDE DEF one, shown, bit, top
  <2>2. Append(<<>>, h) \in Bringing(AlertNews, AlertBit, shown, bit)
    BY <1>3, <1>8, <2>1, BringingAppend
  <2>3. Append(<<>>, h) \in Bringing(News, NewestEvent, top, events)
    BY <1>3, <1>8, <2>1, BringingAppend
  <2> QED BY <2>2, <2>3 DEF one
<1>10. snapshots = 0 => one \in Bringing({"snapshot"}, Number, number, snapshots)
  <2>1. snapshots = 0 => number = snapshots
    BY <1>1
  <2>2. h.kind \notin {"snapshot"}
    BY <1>2
  <2> HIDE DEF one, number
  <2>3. snapshots = 0 => <<>> \in Bringing({"snapshot"}, Number, number, snapshots)
    BY <2>1, EmptyWire
  <2>4. snapshots = 0 => Append(<<>>, h) \in Bringing({"snapshot"}, Number, number, snapshots)
    BY <1>3, <1>8, <2>2, <2>3, KeptBringing
  <2> QED BY <2>4 DEF one
<1>11. one \in Following(feed)
  <2>1. feed \in Seq(1..events)
    BY <1>1 DEF Feeds
  <2>2. \A k \in 1..Len(feed) : feed[k] \in 1..events
    BY <2>1, ElementOfSeq
  <2>3. \A k \in 1..Len(feed) : feed[k] <= SeenBefore(h)
    BY <1>1, <1>2, <2>2 DEF SeenBefore
  <2> HIDE DEF one, feed
  <2>4. \A i \in 1..Len(one) : one[i] = h
    BY <1>6
  <2>5. \A i, j \in 1..Len(one) : ~(i < j)
    BY <1>6
  <2> QED BY <1>6, <2>3, <2>4, <2>5 DEF Following
<1>12. snapshots > 0 =>
         /\ two \in Following(feed)
         /\ two \in Bringing(AlertNews, AlertBit, shown, bit)
         /\ two \in Bringing({"snapshot"}, Number, number, snapshots)
         /\ two \in Bringing(News, NewestEvent, top, events)
  <2> HAVE snapshots > 0
  <2>1. m \in Messages /\ m.kind \in {"snapshot"} /\ m.kind \notin News /\ m.kind \notin AlertNews
        /\ Number[m] = snapshots
    BY <1>4 DEF News, AlertNews
  <2> HIDE DEF one, two, shown, bit, top, number, feed
  <2>2. Append(one, m) \in Following(feed)
    BY <1>11, <2>1, FollowingAppend
  <2>3. Append(one, m) \in Bringing(AlertNews, AlertBit, shown, bit)
    BY <1>6, <1>9, <2>1, KeptBringing
  <2>4. Append(one, m) \in Bringing(News, NewestEvent, top, events)
    BY <1>6, <1>9, <2>1, KeptBringing
  <2>5. Append(one, m) \in Bringing({"snapshot"}, Number, number, snapshots)
    BY <1>6, <2>1, BringingAppend
  <2> QED BY <2>2, <2>3, <2>4, <2>5 DEF two
<1> HIDE DEF one, two
<1>13. ~(snapshots > 0) => snapshots = 0
  BY <1>1
<1> QED BY <1>5, <1>6, <1>7, <1>9, <1>10, <1>11, <1>12, <1>13

LEMMA OpensKeeps ==
    ASSUME ClientInv, PageInv, NEW s \in Sockets, SocketOpens(s) PROVE PageInv'
<1>1. /\ UNCHANGED <<attached, snapshots, toggles, events, answer, view>>
      /\ wire' = IF phase'[s] = "open" THEN [wire EXCEPT ![s] = Greeting] ELSE wire
  BY DEF SocketOpens, Opens, serverVars
<1>2. PICK p \in {"open", "closing"} :
         phase[s] \in {"connecting", "aborted"} /\ (p = "open" => phase[s] = "connecting")
         /\ phase' = [phase EXCEPT ![s] = p]
  BY DEF SocketOpens, Opens
<1>3. Sockets' = Sockets /\ \A t \in Sockets : phase'[t] = IF t = s THEN p ELSE phase[t]
  <2>1. p \in Phases
    BY DEF Phases
  <2> QED BY <1>2, <2>1, PhaseOfOne DEF ClientInv
<1>4. p = "open" => s = attached
  BY <1>2 DEF ClientInv, OneLiveSocket
<1>5. attached # 0 => attached \in Sockets
  BY DEF ClientInv, ClientTypeOK, Sockets
<1>6. /\ wire \in [Sockets -> Seq(Carried(snapshots, events))]
      /\ \A t \in Sockets : t # attached => wire[t] = <<>>
  BY DEF PageInv, WireTyped
<1>7. ServerTyped' /\ view' \in Views(snapshots', events')
  BY <1>1 DEF PageInv, ServerTyped
<1>8. CASE p = "open"
  <2>1. wire' = [wire EXCEPT ![s] = Greeting]
    BY <1>1, <1>3, <1>8
  <2>2. wire' \in [Sockets -> Seq(Carried(snapshots, events))]
    BY <1>6, <2>1, GreetingFacts
  <2>3. WireTyped'
    BY <1>1, <1>3, <1>4, <1>6, <1>8, <2>1, <2>2 DEF WireTyped
  <2>4. wire'[attached] = Greeting
    BY <1>4, <1>6, <1>8, <2>1
  <2>5. WireFollows' /\ WireBrings'
    BY <1>1, <2>4, GreetingFacts DEF WireFollows, WireBrings
  <2> QED BY <1>7, <2>3, <2>5 DEF PageInv
<1>9. CASE p = "closing"
  <2>1. wire' = wire
    BY <1>1, <1>3, <1>9
  <2>2. WireTyped' /\ WireFollows'
    BY <1>1, <1>3, <2>1 DEF PageInv, WireTyped, WireFollows
  <2>3. WireBrings'
    <3>1. attached # 0 /\ phase'[attached] = "open" => phase[attached] = "open"
      BY <1>3, <1>5, <1>9
    <3> QED BY <1>1, <2>1, <3>1 DEF PageInv, WireBrings
  <2> QED BY <1>7, <2>2, <2>3 DEF PageInv
<1> QED BY <1>8, <1>9

LEMMA ReceiveKeeps ==
    ASSUME ClientInv, PageInv, NEW s \in Sockets, Receive(s) PROVE PageInv'
<1> DEFINE w == wire[s]
           m == Head(w)
<1>1. /\ w # <<>> /\ wire' = [wire EXCEPT ![s] = Tail(w)] /\ view' = applyMessage(m)
      /\ UNCHANGED <<phase, attached, snapshots, toggles, events, answer>>
  BY DEF Receive, Hears, serverVars
<1>2. /\ wire \in [Sockets -> Seq(Carried(snapshots, events))]
      /\ \A t \in Sockets : t # attached => wire[t] = <<>>
  BY DEF PageInv, WireTyped
<1>3. s = attached /\ s # 0 /\ w \in Seq(Carried(snapshots, events))
  <2>1. s # 0
    BY DEF ClientInv, ClientTypeOK, Sockets
  <2> QED BY <1>1, <1>2, <2>1
<1>4. w \in Following(view.feed) /\ w \in Seq(Messages)
  BY <1>3 DEF PageInv, WireFollows, Following
<1>5. /\ m \in Carried(snapshots, events) /\ m = w[1] /\ 1 \in 1..Len(w)
      /\ Tail(w) \in Seq(Carried(snapshots, events))
  <2> HIDE DEF w
  <2>1. /\ Head(w) \in Carried(snapshots, events)
        /\ Tail(w) \in Seq(Carried(snapshots, events))
    BY <1>1, <1>3, HeadTailProperties
  <2>2. Head(w) = w[1] /\ Len(w) \in Nat \ {0}
    BY <1>1, <1>4, WireTail
  <2> QED BY <2>1, <2>2
<1>6. m.kind \in News => \A k \in 1..Len(view.feed) : view.feed[k] <= SeenBefore(m)
  <2> HIDE DEF w
  <2> QED BY <1>4, <1>5 DEF Following
<1>7. snapshots \in Nat /\ events \in Nat /\ view \in Views(snapshots, events)
  BY CountsTyped DEF PageInv
<1> HIDE DEF w, m
<1>8. /\ view' \in Views(snapshots, events)
      /\ view'.snapshot = IF m.kind = "snapshot" THEN Number[m] ELSE view.snapshot
      /\ Bit(view'.active) = IF m.kind \in AlertNews THEN AlertBit[m] ELSE Bit(view.active)
      /\ Top(view'.feed) = IF m.kind \in News THEN NewestEvent[m] ELSE Top(view.feed)
      /\ m.kind \notin News => view'.feed = view.feed
      /\ m.kind \in News => \A k \in 1..Len(view'.feed) : view'.feed[k] <= Newest(m)
  BY <1>1, <1>5, <1>6, <1>7, ApplyFacts
<1>9. ServerTyped'
  BY <1>1 DEF PageInv, ServerTyped
<1>10. WireTyped'
  <2>1. wire' \in [Sockets -> Seq(Carried(snapshots, events))]
    BY <1>1, <1>2, <1>5
  <2>2. \A t \in Sockets : t # attached => wire'[t] = <<>>
    BY <1>1, <1>2, <1>3
  <2> QED BY <1>1, <2>1, <2>2 DEF WireTyped, Sockets
<1>11. wire'[attached] = Tail(w)
  BY <1>1, <1>2, <1>3
<1>12. WireFollows'
  <2> DEFINE f == view.feed
             g == view'.feed
  <2>1. g \in Seq(Nat)
    <3>1. g \in Seq(1..events) /\ 1..events \subseteq Nat
      BY <1>7, <1>8, ViewFacts DEF Feeds
    <3> QED BY <3>1, SeqMonotonic
  <2>2. \/ m.kind \notin News /\ g = f
        \/ m.kind \in News /\ \A k \in 1..Len(g) : g[k] <= Newest(m)
    BY <1>8
  <2> HIDE DEF f, g
  <2>3. w \in Following(f)
    BY <1>4 DEF f
  <2>4. Tail(w) \in Following(g)
    BY <1>1, <1>3, <1>7, <2>1, <2>2, <2>3, FollowingTail DEF m
  <2> QED BY <1>1, <1>11, <2>4 DEF WireFollows, g
<1>13. WireBrings'
  <2> SUFFICES ASSUME phase[s] = "open"
               PROVE  /\ Tail(w) \in Bringing(AlertNews, AlertBit, Bit(view'.active), toggles % 2)
                      /\ Tail(w) \in Bringing({"snapshot"}, Number, view'.snapshot, snapshots)
                      /\ Tail(w) \in Bringing(News, NewestEvent, Top(view'.feed), events)
    BY <1>1, <1>3, <1>11 DEF WireBrings
  <2> DEFINE b1 == Bit(view.active)
             b2 == Bit(view'.active)
             n1 == view.snapshot
             n2 == view'.snapshot
             t1 == Top(view.feed)
             t2 == Top(view'.feed)
             bit == toggles % 2
  <2>1. /\ w \in Bringing(AlertNews, AlertBit, b1, bit)
        /\ w \in Bringing({"snapshot"}, Number, n1, snapshots)
        /\ w \in Bringing(News, NewestEvent, t1, events)
    BY <1>3 DEF PageInv, WireBrings, w
  <2>2. /\ b2 = IF m.kind \in AlertNews THEN AlertBit[m] ELSE b1
        /\ n2 = IF m.kind \in {"snapshot"} THEN Number[m] ELSE n1
        /\ t2 = IF m.kind \in News THEN NewestEvent[m] ELSE t1
    BY <1>8
  <2> HIDE DEF b1, b2, n1, n2, t1, t2, bit
  <2>3. Tail(w) \in Bringing(AlertNews, AlertBit, b2, bit)
    BY <1>1, <2>1, <2>2, BringingTail DEF m
  <2>4. Tail(w) \in Bringing({"snapshot"}, Number, n2, snapshots)
    BY <1>1, <2>1, <2>2, BringingTail DEF m
  <2>5. Tail(w) \in Bringing(News, NewestEvent, t2, events)
    BY <1>1, <2>1, <2>2, BringingTail DEF m
  <2> QED BY <2>3, <2>4, <2>5 DEF b2, n2, t2, bit
<1>14. view' \in Views(snapshots', events')
  BY <1>1, <1>8
<1> QED BY <1>9, <1>10, <1>12, <1>13, <1>14 DEF PageInv

LEMMA EndsKeeps ==
    ASSUME ClientInv, PageInv, NEW s \in Sockets, SocketEnds(s) PROVE PageInv'
<1>1. /\ UNCHANGED <<snapshots, toggles, events, answer, view>>
      /\ wire' = [wire EXCEPT ![s] = IF phase'[s] = "closing" THEN @ ELSE <<>>]
  BY DEF SocketEnds, serverVars
<1>2. PICK p \in {"closed", "closing", "silent"} :
         /\ phase' = [phase EXCEPT ![s] = p]
         /\ p = "closed" => attached' = IF s = attached THEN 0 ELSE attached
         /\ p # "closed" => attached' = attached /\ phase[s] = "open"
  <2>1. CASE Closes(s)
    BY <2>1 DEF Closes, Current, Lost, scheduleReconnect
  <2>2. CASE Cut(s)
    BY <2>2 DEF Cut
  <2> QED BY <2>1, <2>2 DEF SocketEnds
<1>3. Sockets' = Sockets /\ \A t \in Sockets : phase'[t] = IF t = s THEN p ELSE phase[t]
  <2>1. p \in Phases
    BY DEF Phases
  <2> QED BY <1>2, <2>1, PhaseOfOne DEF ClientInv
<1>4. /\ wire \in [Sockets -> Seq(Carried(snapshots, events))]
      /\ \A t \in Sockets : t # attached => wire[t] = <<>>
  BY DEF PageInv, WireTyped
<1>5. attached # 0 => attached \in Sockets
  BY DEF ClientInv, ClientTypeOK, Sockets
<1>6. <<>> \in Seq(Carried(snapshots, events)) /\ <<>> \in Following(view.feed)
  BY EmptyWire
<1>7. /\ wire' \in [Sockets -> Seq(Carried(snapshots, events))]
      /\ \A t \in Sockets : wire'[t] = wire[t] \/ wire'[t] = <<>>
      /\ p = "closed" => wire'[s] = <<>>
      /\ \A t \in Sockets : t # s => wire'[t] = wire[t]
  BY <1>1, <1>3, <1>4, <1>6
<1>8. ServerTyped' /\ view' \in Views(snapshots', events')
  BY <1>1 DEF PageInv, ServerTyped
<1>9. WireTyped'
  <2>1. ASSUME NEW t \in Sockets, t # attached' PROVE wire'[t] = <<>>
    <3>1. t # attached => wire'[t] = <<>>
      BY <1>4, <1>7
    <3>2. t = attached => t = s /\ p = "closed"
      BY <1>2, <2>1
    <3> QED BY <1>7, <3>1, <3>2
  <2> QED BY <1>1, <1>3, <1>7, <2>1 DEF WireTyped
<1>10. WireFollows'
  <2>1. ASSUME attached' # 0 PROVE wire'[attached'] \in Following(view.feed)
    <3>1. attached' = attached /\ attached \in Sockets
      BY <1>2, <1>5, <2>1
    <3> QED BY <1>6, <1>7, <2>1, <3>1 DEF PageInv, WireFollows
  <2> QED BY <1>1, <2>1 DEF WireFollows
<1>11. WireBrings'
  <2>1. ASSUME attached' # 0, phase'[attached'] = "open"
        PROVE  attached' = attached /\ phase[attached] = "open" /\ wire'[attached] = wire[attached]
    <3>1. attached' = attached /\ attached \in Sockets
      BY <1>2, <1>5, <2>1
    <3>2. attached # s
      BY <1>3, <2>1, <3>1
    <3> QED BY <1>3, <1>7, <2>1, <3>1, <3>2
  <2> QED BY <1>1, <2>1 DEF PageInv, WireBrings
<1> QED BY <1>8, <1>9, <1>10, <1>11 DEF PageInv

-----------------------------------------------------------------------------

LEMMA PageStart == Init => PageInv
<1> SUFFICES ASSUME Init PROVE PageInv
  OBVIOUS
<1>1. /\ snapshots = 0 /\ toggles = 0 /\ events = 0 /\ answer = New /\ wire = <<>>
      /\ view = [snapshot |-> 0, active |-> FALSE, feed |-> <<>>]
      /\ phase = <<>> /\ attached = 0
  BY DEF Init, ClientInit
<1>2. ServerTyped
  BY <1>1, DashboardAssumption DEF DashboardAssumption, ServerTyped
<1>3. <<>> \in Feeds(0)
  BY DashboardAssumption DEF DashboardAssumption, Feeds
<1>4. view \in Views(snapshots, events)
  BY <1>1, <1>3 DEF Views
<1>5. WireTyped
  <2>1. Sockets = {}
    BY <1>1 DEF Sockets
  <2>2. <<>> \in [{} -> Seq(Carried(snapshots, events))]
    OBVIOUS
  <2> QED BY <1>1, <2>1, <2>2 DEF WireTyped
<1> QED BY <1>1, <1>2, <1>4, <1>5 DEF PageInv, WireFollows, WireBrings

LEMMA PageStep ==
    ASSUME ClientInv, ClientInv', PageInv, [Next]_dashboardVars PROVE PageInv'
<1>1. CASE UNCHANGED dashboardVars
  <2>1. UNCHANGED <<phase, attached, snapshots, toggles, events, wire, answer, view>>
    BY <1>1 DEF dashboardVars, clientVars, serverVars
  <2>2. ServerTyped' /\ WireTyped' /\ WireFollows' /\ WireBrings'
    BY <2>1 DEF PageInv, ServerTyped, WireTyped, WireFollows, WireBrings, Sockets
  <2> QED BY <2>1, <2>2 DEF PageInv
<1>2. CASE Next
  BY <1>2, PublishSnapshotKeeps, PublishAlertKeeps, PublishEventsKeeps, AskKeeps, AnswerKeeps,
     MoveKeeps, OpensKeeps, ReceiveKeeps, EndsKeeps DEF Next
<1> QED BY <1>1, <1>2

LEMMA PageInvariant == Spec => [](ClientInv /\ PageInv)
<1>1. Init => ClientInv /\ PageInv
  BY ClientStart, PageStart DEF Init
<1>2. ClientInv /\ PageInv /\ [Next]_dashboardVars => ClientInv' /\ PageInv'
  <2> SUFFICES ASSUME ClientInv, PageInv, [Next]_dashboardVars PROVE ClientInv' /\ PageInv'
    OBVIOUS
  <2>1. ClientInv'
    BY DashboardStep, ClientStep, ClientStutter
  <2> QED BY <2>1, PageStep
<1> QED BY <1>1, <1>2, PTL DEF Spec

\* The cache holds nothing that was not published, and no more of it than it may
\* (liveStore.ts:25-53, format.ts:48-59).
THEOREM DashboardTypeCorrect == Spec => []TypeOK
<1>1. ASSUME ClientInv, PageInv PROVE TypeOK
  <2>1. view.snapshot \in 0..snapshots /\ view.active \in BOOLEAN /\ view.feed \in Feeds(events)
    BY <1>1, ViewFacts DEF PageInv
  <2>2. DOMAIN wire = Sockets
    BY <1>1 DEF PageInv, WireTyped
  <2> QED BY <1>1, <2>1, <2>2 DEF TypeOK, PageInv, ServerTyped, ClientInv, Feeds
<1> QED BY <1>1, PageInvariant, PTL

\* Whatever was missed while the socket was away, and in whatever order the REST
\* answer came: a page that says "open" and has nothing left to receive shows what
\* is so (liveStore.ts:25-53, hooks.ts:21-32, router.py:39-41).
THEOREM PageIsCurrent == Spec => []ViewCurrent
<1>1. ASSUME ClientInv, PageInv PROVE ViewCurrent
  <2> SUFFICES ASSUME Settled
               PROVE  /\ view.active = Firing
                      /\ view.snapshot = snapshots
                      /\ events > 0 => view.feed # <<>> /\ Head(view.feed) = events
                      /\ \A i, j \in DOMAIN view.feed : i < j => view.feed[i] > view.feed[j]
    BY DEF ViewCurrent
  <2>1. /\ snapshots \in Nat /\ events \in Nat /\ toggles \in Nat
        /\ view.active \in BOOLEAN /\ view.feed \in Feeds(events)
    BY <1>1, CountsTyped, ViewFacts DEF PageInv
  <2>2. /\ <<>> \in Bringing(AlertNews, AlertBit, Bit(view.active), toggles % 2)
        /\ <<>> \in Bringing({"snapshot"}, Number, view.snapshot, snapshots)
        /\ <<>> \in Bringing(News, NewestEvent, Top(view.feed), events)
    BY <1>1 DEF Settled, PageInv, WireBrings
  <2>3. Bit(view.active) = toggles % 2
    <3> DEFINE shown == Bit(view.active)
               present == toggles % 2
    <3> HIDE DEF shown, present
    <3>1. <<>> \in Bringing(AlertNews, AlertBit, shown, present)
      BY <2>2 DEF shown, present
    <3> QED BY <3>1, EmptyWire DEF shown, present
  <2>4. view.snapshot = snapshots
    BY <2>2, EmptyWire
  <2>5. Top(view.feed) = events
    <3> DEFINE shown == Top(view.feed)
    <3> HIDE DEF shown
    <3>1. <<>> \in Bringing(News, NewestEvent, shown, events)
      BY <2>2 DEF shown
    <3> QED BY <3>1, EmptyWire DEF shown
  <2>6. view.active = Firing
    BY <2>1, <2>3 DEF Bit, Firing
  <2>7. events > 0 => view.feed # <<>> /\ Head(view.feed) = events
    BY <2>1, <2>5 DEF Top
  <2>8. view.feed \in Seq(1..events) /\ DOMAIN view.feed = 1..Len(view.feed)
    BY <2>1 DEF Feeds
  <2> QED BY <2>1, <2>4, <2>6, <2>7, <2>8 DEF Feeds
<1> QED BY <1>1, PageInvariant, PTL

-----------------------------------------------------------------------------
(* The generator: no event is lost uncounted, and courses are kept.        *)

USE GeneratorAssumption DEF GeneratorAssumption

\* Of two events of one order the first comes earlier in its course.
Precedes == {p \in OrderEvents \X OrderEvents : p[1][1] = p[2][1] => p[1][2] < p[2][2]}

\* What is scheduled belongs to an order that takes its course, after everything the
\* order has done so far; one follow-up of an order at most.
HeapAhead ==
    /\ \A e \in heap \cup generated : course[e[1]] # "new"
    /\ \A e, f \in heap : e[1] = f[1] => e = f
    /\ \A e \in generated, f \in heap : <<e, f>> \in Precedes

\* What is on its way was generated.
OnTheWay == ToSet(stored) \cup ToSet(batch) \cup ToSet(buffer) \subseteq generated

\* Nothing was given up: neither at a stop nor for an answer that is not retried.
Calm == ~stopSet /\ refusals = 0

\* From the store over the batch to the buffer every course goes on; a batch is stored
\* as a whole or not at all, and a request that is still out is this batch or stored.
LineOrdered ==
    /\ Ordered(stored, Precedes) /\ Ordered(batch, Precedes) /\ Ordered(buffer, Precedes)
    /\ \A e \in ToSet(stored) \cup ToSet(batch), f \in ToSet(buffer) : <<e, f>> \in Precedes
    /\ \/ ToSet(batch) \subseteq ToSet(stored)
       \/ \A e \in ToSet(stored), f \in ToSet(batch) : <<e, f>> \in Precedes
    /\ \A b \in requests : b = batch \/ ToSet(b) \subseteq ToSet(stored)

\* What the API may still store was generated.
RequestsGenerated == \A b \in requests : ToSet(b) \subseteq generated

\* The sender starts when the API was seen.
SenderWaits == (main = "starting") = (sender = "new")

\* CoursesKept needs LineOrdered, and that needs what the simulator hands over to be
\* ahead of everything on its way: HeapAhead and OnTheWay.
GeneratorInv ==
    /\ GeneratorTypeOK /\ SenderWaits /\ HeapAhead /\ OnTheWay /\ RequestsGenerated
    /\ LossesCounted /\ (Calm => LineOrdered)

-----------------------------------------------------------------------------

\* The event after e in its course.
Follow(e) == <<e[1], e[2] + 1>>

\* There are finitely many events.
LEMMA EventsFinite == IsFiniteSet(OrderEvents) /\ OrderEvents = Orders \X (1..3)
<1>1. IsFiniteSet(1..3)
  <2>1. 1 \in Int /\ 3 \in Int
    OBVIOUS
  <2> QED BY ONLY <2>1, FS_Interval
<1>2. IsFiniteSet(Orders \X (1..3))
  BY <1>1, FS_Product
<1> QED BY <1>2 DEF OrderEvents

\* An event that is not the last of its course is followed by another.
LEMMA NextInCourse ==
    ASSUME NEW e \in OrderEvents, course[e[1]] \in Kinds, e[2] < Len(Course(course[e[1]]))
    PROVE  <<e[1], e[2] + 1>> \in OrderEvents
<1>1. Len(Course(course[e[1]])) \in 2..3
  <2> DEFINE kind == course[e[1]]
  <2>1. kind = "prepaid" \/ kind = "cod" \/ kind = "cancelled"
    OBVIOUS
  <2> HIDE DEF kind
  <2>2. Len(Course(kind)) \in 2..3
    BY <2>1 DEF Course
  <2> QED BY <2>2 DEF kind
<1> DEFINE n == Len(Course(course[e[1]]))
<1>2. n \in 2..3 /\ e[2] < n /\ e[1] \in Orders /\ e[2] \in 1..3
  BY <1>1 DEF OrderEvents
<1> HIDE DEF n
<1> QED BY <1>2 DEF OrderEvents

\* A heap within max_pending stays so.
LEMMA ScheduleFacts ==
    ASSUME NEW H \in SUBSET OrderEvents, Cardinality(H) <= MaxPending, NEW e \in OrderEvents
    PROVE  /\ Schedule(H, e) \in SUBSET OrderEvents /\ Cardinality(Schedule(H, e)) <= MaxPending
           /\ Schedule(H, e) \subseteq H \cup {e}
<1>1. IsFiniteSet(H)
  BY EventsFinite, FS_Subset
<1>2. Cardinality(H) \in Nat
  BY <1>1, FS_CardinalityType
<1>3. Cardinality(H \cup {e}) = IF e \in H THEN Cardinality(H) ELSE Cardinality(H) + 1
  BY <1>1, FS_AddElement
<1> QED BY <1>2, <1>3 DEF Schedule

\* Popping one event leaves the others, and schedules the one after it at most.
LEMMA PoppedFacts ==
    ASSUME NEW H \in SUBSET OrderEvents, Cardinality(H) <= MaxPending,
           NEW e \in OrderEvents, course[e[1]] \in Kinds
    PROVE  /\ Popped(H, e) \in SUBSET OrderEvents /\ Cardinality(Popped(H, e)) <= MaxPending
           /\ Popped(H, e) \subseteq (H \ {e}) \cup {<<e[1], e[2] + 1>>}
<1> DEFINE R == H \ {e}
<1>1. R \in SUBSET OrderEvents /\ Cardinality(R) <= MaxPending
  <2>1. IsFiniteSet(H)
    BY EventsFinite, FS_Subset
  <2>2. R \in SUBSET H
    OBVIOUS
  <2>3. IsFiniteSet(R) /\ Cardinality(R) <= Cardinality(H)
    BY <2>1, <2>2, FS_Subset
  <2>4. Cardinality(R) \in Nat /\ Cardinality(H) \in Nat
    BY <2>1, <2>3, FS_CardinalityType
  <2> QED BY <2>2, <2>3, <2>4
<1>2. Popped(H, e) = IF e[2] < Len(Course(course[e[1]])) THEN Schedule(R, <<e[1], e[2] + 1>>) ELSE R
  BY DEF Popped
<1> HIDE DEF R
<1>3. CASE e[2] < Len(Course(course[e[1]]))
  <2>1. <<e[1], e[2] + 1>> \in OrderEvents
    BY <1>3, NextInCourse
  <2>2. /\ Schedule(R, <<e[1], e[2] + 1>>) \in SUBSET OrderEvents
        /\ Cardinality(Schedule(R, <<e[1], e[2] + 1>>)) <= MaxPending
        /\ Schedule(R, <<e[1], e[2] + 1>>) \subseteq R \cup {<<e[1], e[2] + 1>>}
    BY <1>1, <2>1, ScheduleFacts
  <2> QED BY <1>2, <1>3, <2>2 DEF R
<1>4. CASE ~(e[2] < Len(Course(course[e[1]])))
  BY <1>1, <1>2, <1>4 DEF R
<1> QED BY <1>3, <1>4

\* What due_events() leaves: what was not due, and follow-ups of what was.
LEMMA PopFacts ==
    ASSUME NEW H \in SUBSET OrderEvents, Cardinality(H) <= MaxPending,
           NEW D \in SUBSET OrderEvents, \A e \in D : course[e[1]] \in Kinds,
           NEW due \in Seq(D)
    PROVE  /\ Pop(H, due) \in SUBSET OrderEvents /\ Cardinality(Pop(H, due)) <= MaxPending
           /\ Pop(H, due) \subseteq (H \ ToSet(due)) \cup {Follow(e) : e \in ToSet(due)}
<1> DEFINE n == Len(due)
           V == {X \in SUBSET OrderEvents : Cardinality(X) <= MaxPending}
           g == [p \in (1..n) \X V |-> Popped(p[2], due[p[1]])]
           Eq(F) == F = [i \in 0..n |-> IF i = 0 THEN H ELSE Popped(F[i - 1], due[i])]
           C == CHOOSE F : Eq(F)
<1>1. n \in Nat /\ \A i \in 1..n : due[i] \in D /\ due[i] \in OrderEvents /\ course[due[i][1]] \in Kinds
  OBVIOUS
<1>2. \A i \in 1..n, X \in V : Popped(X, due[i]) \in V /\ g[<<i, X>>] = Popped(X, due[i])
  <2> TAKE i \in 1..n, X \in V
  <2>1. due[i] \in OrderEvents /\ course[due[i][1]] \in Kinds
    BY <1>1
  <2> QED BY <2>1, PoppedFacts
<1>3. g \in [(1..n) \X V -> V]
  <2>1. \A p \in (1..n) \X V : p[1] \in 1..n /\ p[2] \in V /\ p = <<p[1], p[2]>>
    OBVIOUS
  <2> HIDE DEF V, n
  <2> QED BY <1>2, <2>1
<1>4. H \in V
  OBVIOUS
<1>5. Pop(H, due) = C[n]
  BY DEF Pop
<1> HIDE DEF V, n, g
<1>6. PICK F \in [0..n -> V] : F[0] = H /\ \A i \in 1..n : F[i] = g[<<i, F[i - 1]>>]
  <2>1. n \in Nat
    BY <1>1
  <2>2. Iterations(V, H, n, g) # {}
    BY <2>1, <1>3, <1>4, Recursion
  <2> HIDE DEF Eq, C
  <2> QED BY <2>2 DEF Iterations
<1>7. Eq(F)
  <2>1. ASSUME NEW i \in 0..n PROVE F[i] = IF i = 0 THEN H ELSE Popped(F[i - 1], due[i])
    <3>1. CASE i = 0
      BY <3>1, <1>6
    <3>2. CASE i # 0
      <4>1. i \in 1..n /\ i - 1 \in 0..n
        BY <3>2, <1>1
      <4> QED BY <4>1, <3>2, <1>2, <1>6
    <3> QED BY <3>1, <3>2
  <2> QED BY <2>1
<1>8. Eq(C)
  BY <1>7
<1> DEFINE Gone(i) == {due[k] : k \in 1..i}
           S == {i \in 0..n : C[i] \in V /\ C[i] \subseteq (H \ Gone(i)) \cup {Follow(e) : e \in Gone(i)}}
<1>9. C[0] = H /\ \A i \in 1..n : C[i] = Popped(C[i - 1], due[i])
  <2>1. 0 \in 0..n /\ \A i \in 1..n : i \in 0..n /\ i # 0
    BY <1>1
  <2> HIDE DEF C
  <2> QED BY <2>1, <1>8
<1> HIDE DEF C, Eq
<1>10. 0 \in S
  <2>1. Gone(0) = {} /\ 0 \in 0..n
    BY <1>1
  <2> QED BY <2>1, <1>4, <1>9
<1>11. ASSUME NEW i \in 1..n, i - 1 \in S PROVE i \in S
  <2>1. /\ C[i - 1] \in V /\ C[i - 1] \subseteq (H \ Gone(i - 1)) \cup {Follow(e) : e \in Gone(i - 1)}
        /\ due[i] \in OrderEvents /\ course[due[i][1]] \in Kinds
    BY <1>1, <1>11
  <2>2. C[i - 1] \in SUBSET OrderEvents /\ Cardinality(C[i - 1]) <= MaxPending
    BY <2>1 DEF V
  <2>3. /\ Popped(C[i - 1], due[i]) \in SUBSET OrderEvents
        /\ Cardinality(Popped(C[i - 1], due[i])) <= MaxPending
        /\ Popped(C[i - 1], due[i]) \subseteq (C[i - 1] \ {due[i]}) \cup {Follow(due[i])}
    <3> DEFINE T == C[i - 1]
               e == due[i]
    <3>1. T \in SUBSET OrderEvents /\ Cardinality(T) <= MaxPending
      BY <2>2
    <3>2. e \in OrderEvents /\ course[e[1]] \in Kinds
      BY <2>1
    <3> HIDE DEF T, e
    <3>3. /\ Popped(T, e) \in SUBSET OrderEvents /\ Cardinality(Popped(T, e)) <= MaxPending
          /\ Popped(T, e) \subseteq (T \ {e}) \cup {<<e[1], e[2] + 1>>}
      BY ONLY <3>1, <3>2, PoppedFacts
    <3> QED BY <3>3 DEF Follow, T, e
  <2>4. Gone(i) = Gone(i - 1) \cup {due[i]}
    <3>1. 1..i = (1..(i - 1)) \cup {i}
      BY <1>1
    <3> QED BY <3>1
  <2>5. C[i] = Popped(C[i - 1], due[i]) /\ i \in 0..n
    BY <1>1, <1>9
  <2>6. C[i] \in V
    BY <2>3, <2>5 DEF V
  <2>7. C[i] \subseteq (H \ Gone(i)) \cup {Follow(e) : e \in Gone(i)}
    <3> HIDE DEF Gone
    <3> QED BY <2>1, <2>3, <2>4, <2>5
  <2> QED BY <2>5, <2>6, <2>7
<1>12. n \in S
  <2>1. \A i \in 0..n : i \in S
    <3> HIDE DEF S
    <3> QED BY <1>1, <1>10, <1>11, CountingUp
  <2> QED BY <2>1, <1>1
<1>13. Gone(n) = ToSet(due)
  BY ToSetRange DEF n
<1> HIDE DEF Gone
<1> QED BY <1>5, <1>12, <1>13 DEF V

\* What a batch adds to the table: its rows, each once; in order, if they are.
LEMMA InsertFacts ==
    ASSUME NEW S, NEW R, NEW table \in Seq(S), NEW b \in Seq(S)
    PROVE  /\ Inserted(table, b) \in Seq(S)
           /\ ToSet(Inserted(table, b)) = ToSet(table) \cup ToSet(b)
           /\ ToSet(b) \subseteq ToSet(table) => Inserted(table, b) = table
           /\ /\ Ordered(table, R) /\ Ordered(b, R)
              /\ \A e \in ToSet(table), f \in ToSet(b) : <<e, f>> \in R
              => Ordered(Inserted(table, b), R)
<1> DEFINE n == Len(b)
           V == Seq(S)
           Row(rows, e) == IF Contains(rows, e) THEN rows ELSE Append(rows, e)
           g == [p \in (1..n) \X V |-> Row(p[2], b[p[1]])]
           Eq(F) == F = [i \in 0..n |-> IF i = 0 THEN table
                                        ELSE IF Contains(F[i - 1], b[i]) THEN F[i - 1]
                                             ELSE Append(F[i - 1], b[i])]
           C == CHOOSE F : Eq(F)
           Added(i) == {b[k] : k \in 1..i}
<1>1. n \in Nat /\ DOMAIN b = 1..n /\ \A i \in 1..n : b[i] \in S
  OBVIOUS
<1>2. \A i \in 1..n, X \in V : Row(X, b[i]) \in V /\ g[<<i, X>>] = Row(X, b[i])
  <2> TAKE i \in 1..n, X \in V
  <2>1. X \in Seq(S) /\ b[i] \in S /\ <<i, X>> \in (1..n) \X V
    BY <1>1
  <2> HIDE DEF n
  <2> QED BY <2>1
<1>3. g \in [(1..n) \X V -> V]
  <2>1. \A p \in (1..n) \X V : p[1] \in 1..n /\ p[2] \in V /\ p = <<p[1], p[2]>>
    OBVIOUS
  <2> HIDE DEF V, n, Row
  <2> QED BY <1>2, <2>1
<1>4. table \in V
  OBVIOUS
<1>5. Inserted(table, b) = C[n]
  BY DEF Inserted
<1> HIDE DEF V, n, g
<1>6. PICK F \in [0..n -> V] : F[0] = table /\ \A i \in 1..n : F[i] = g[<<i, F[i - 1]>>]
  <2>1. n \in Nat
    BY <1>1
  <2>2. Iterations(V, table, n, g) # {}
    BY <2>1, <1>3, <1>4, Recursion
  <2> HIDE DEF Eq, C
  <2> QED BY <2>2 DEF Iterations
<1>7. Eq(F)
  <2>1. ASSUME NEW i \in 0..n PROVE F[i] = IF i = 0 THEN table ELSE Row(F[i - 1], b[i])
    <3>1. CASE i = 0
      BY <3>1, <1>6
    <3>2. CASE i # 0
      <4>1. i \in 1..n /\ i - 1 \in 0..n
        BY <3>2, <1>1
      <4> HIDE DEF Row
      <4> QED BY <4>1, <3>2, <1>2, <1>6, Zenon
    <3> QED BY <3>1, <3>2
  <2> QED BY <2>1
<1>8. Eq(C)
  BY <1>7, Zenon
<1>9. C[0] = table /\ \A i \in 1..n : C[i] = Row(C[i - 1], b[i])
  <2>1. 0 \in 0..n /\ \A i \in 1..n : i \in 0..n /\ i # 0
    BY <1>1
  <2> HIDE DEF C
  <2> QED BY <2>1, <1>8
<1> HIDE DEF C, Eq
<1>10. Added(0) = {} /\ \A i \in 1..n : Added(i) = Added(i - 1) \cup {b[i]}
  <2>1. \A i \in 1..n : 1..i = (1..(i - 1)) \cup {i}
    BY <1>1
  <2> QED BY <2>1
<1>11. Added(n) = ToSet(b) /\ \A i \in 1..n : b[i] \in ToSet(b)
  BY ToSetRange DEF n
<1>12. \A i \in 1..n : i - 1 \in 0..n /\ i \in 0..n
  BY <1>1
<1> HIDE DEF Added
<1>13. \A i \in 0..n : C[i] \in Seq(S) /\ ToSet(C[i]) = ToSet(table) \cup Added(i)
  <2> DEFINE T == {i \in 0..n : C[i] \in Seq(S) /\ ToSet(C[i]) = ToSet(table) \cup Added(i)}
  <2>1. 0 \in T
    BY <1>1, <1>9, <1>10
  <2>2. ASSUME NEW i \in 1..n, i - 1 \in T PROVE i \in T
    <3> DEFINE X == C[i - 1]
               e == b[i]
    <3>1. /\ X \in Seq(S) /\ ToSet(X) = ToSet(table) \cup Added(i - 1)
          /\ e \in S /\ C[i] = Row(X, e) /\ i \in 0..n /\ Added(i) = Added(i - 1) \cup {e}
      BY <2>2, <1>1, <1>9, <1>10, <1>12
    <3> HIDE DEF X, e
    <3>2. CASE Contains(X, e)
      <4>1. e \in ToSet(X)
        BY <3>1, <3>2, ToSetRange DEF Contains
      <4> QED BY <4>1, <3>1, <3>2
    <3>3. CASE ~Contains(X, e)
      <4>1. Append(X, e) \in Seq(S) /\ ToSet(Append(X, e)) = ToSet(X) \cup {e}
        BY <3>1, ToSetAppend
      <4> QED BY <4>1, <3>1, <3>3
    <3> QED BY <3>2, <3>3
  <2>3. \A i \in 0..n : i \in T
    <3> HIDE DEF T
    <3> QED BY <2>1, <2>2, <1>1, CountingUp
  <2> QED BY <2>3
<1>14. ASSUME ToSet(b) \subseteq ToSet(table) PROVE C[n] = table
  <2> DEFINE T == {i \in 0..n : C[i] = table}
  <2>1. 0 \in T
    BY <1>1, <1>9
  <2>2. ASSUME NEW i \in 1..n, i - 1 \in T PROVE i \in T
    <3>1. b[i] \in ToSet(table)
      BY <1>11, <1>14
    <3>2. Contains(table, b[i])
      BY <3>1, ToSetRange DEF Contains
    <3> QED BY <2>2, <3>2, <1>9, <1>12
  <2>3. \A i \in 0..n : i \in T
    <3> HIDE DEF T
    <3> QED BY <2>1, <2>2, <1>1, CountingUp
  <2> QED BY <2>3, <1>1
<1>15. ASSUME Ordered(table, R), Ordered(b, R),
              \A e \in ToSet(table), f \in ToSet(b) : <<e, f>> \in R
       PROVE  Ordered(C[n], R)
  <2> DEFINE T == {i \in 0..n : Ordered(C[i], R)}
  <2>1. 0 \in T
    BY <1>1, <1>9, <1>15
  <2>2. ASSUME NEW i \in 1..n, i - 1 \in T PROVE i \in T
    <3> DEFINE X == C[i - 1]
               e == b[i]
    <3>1. /\ X \in Seq(S) /\ ToSet(X) = ToSet(table) \cup Added(i - 1) /\ Ordered(X, R)
          /\ e \in S /\ e \in ToSet(b) /\ C[i] = Row(X, e) /\ i \in 0..n
      BY <2>2, <1>1, <1>9, <1>11, <1>12, <1>13
    <3>2. \A d \in Added(i - 1) : <<d, e>> \in R
      <4>1. \A k \in 1..(i - 1) : k \in DOMAIN b /\ i \in DOMAIN b /\ k < i
        BY <1>1
      <4> QED BY <4>1, <1>15 DEF Ordered, Added
    <3> HIDE DEF X, e
    <3>3. CASE Contains(X, e)
      BY <3>1, <3>3
    <3>4. CASE ~Contains(X, e)
      <4>1. \A d \in ToSet(X) : <<d, e>> \in R
        BY <3>1, <3>2, <1>15
      <4>2. Ordered(Append(X, e), R)
        BY <3>1, <4>1, OrderedAppend
      <4> QED BY <4>2, <3>1, <3>4
    <3> QED BY <3>3, <3>4
  <2>3. \A i \in 0..n : i \in T
    <3> HIDE DEF T
    <3> QED BY <2>1, <2>2, <1>1, CountingUp
  <2> QED BY <2>3, <1>1
<1>16. n \in 0..n
  BY <1>1
<1> QED BY <1>5, <1>11, <1>13, <1>14, <1>15, <1>16

-----------------------------------------------------------------------------
(* One turn of the main loop.                                              *)

\* enqueue() counts what it drops.
LEMMA EnqueueFacts ==
    ASSUME GeneratorTypeOK, NEW items \in Seq(OrderEvents), Enqueue(items)
    PROVE  /\ buffer' \in Seq(OrderEvents) /\ Len(buffer') <= MaxBuffer /\ dropped' \in Nat
           /\ \E gone : /\ IsFiniteSet(gone) /\ Cardinality(gone) <= dropped' - dropped
                        /\ ToSet(buffer) \cup ToSet(items) = gone \cup ToSet(buffer')
           /\ Ordered(buffer \o items, Precedes) => Ordered(buffer', Precedes)
<1> DEFINE all == buffer \o items
           over == IF Len(all) > MaxBuffer THEN Len(all) - MaxBuffer ELSE 0
           gone == ToSet(SubSeq(all, 1, over))
<1>1. /\ buffer \in Seq(OrderEvents) /\ dropped \in Nat
      /\ buffer' = SubSeq(all, over + 1, Len(all)) /\ dropped' = dropped + over
  BY DEF GeneratorTypeOK, Enqueue
<1>2. all \in Seq(OrderEvents) /\ ToSet(all) = ToSet(buffer) \cup ToSet(items)
  BY <1>1, ToSetConcat
<1>3. Len(all) \in Nat /\ MaxBuffer \in Nat
  BY <1>2, LenProperties
<1> HIDE DEF all
<1>4. over \in 0..Len(all) /\ over \in Nat /\ Len(all) - over <= MaxBuffer
  BY <1>3
<1> HIDE DEF over
<1>5. /\ buffer' \in Seq(OrderEvents) /\ Len(buffer') = Len(all) - over
      /\ gone = {all[i] : i \in 1..over} /\ ToSet(all) = gone \cup ToSet(buffer')
  BY <1>1, <1>2, <1>4, CutInTwo
<1>6. IsFiniteSet(gone) /\ Cardinality(gone) <= over
  <2> DEFINE image == {all[i] : i \in (0 + 1)..over}
  <2>1. 0 \in Nat /\ over \in Nat /\ 0 <= over /\ over - 0 = over /\ 0 + 1 = 1
    BY <1>4
  <2>2. IsFiniteSet(image) /\ Cardinality(image) <= over - 0
    BY ONLY <2>1, ImageCardinality
  <2>3. image = gone
    BY <1>5, <2>1
  <2> HIDE DEF image, gone
  <2> QED BY <2>1, <2>2, <2>3
<1>7. Ordered(all, Precedes) => Ordered(buffer', Precedes)
  BY <1>1, <1>2, <1>4, OrderedCut
<1>8. dropped' \in Nat /\ dropped' - dropped = over
  BY <1>1, <1>4
<1> HIDE DEF gone
<1> QED BY <1>2, <1>3, <1>4, <1>5, <1>6, <1>7, <1>8 DEF all

\* What is due is in the heap, each event once.
LEMMA DueFacts ==
    ASSUME heap \in SUBSET OrderEvents, NEW due \in DueNow
    PROVE  /\ due \in Seq(heap)
           /\ \A i, j \in 1..Len(due) : i # j => due[i] # due[j]
<1>1. PICK s \in SUBSET heap : due \in SetToSeqs(s)
  BY DEF DueNow, SetToAllKPermutations
<1> DEFINE n == Cardinality(s)
<1>2. due \in [1..n -> s] /\ \A i, j \in 1..n : i # j => due[i] # due[j]
  BY <1>1 DEF SetToSeqs
<1>3. CASE n \in Nat
  <2> HIDE DEF n
  <2>1. due \in [1..n -> heap]
    BY <1>2
  <2>2. due \in Seq(heap) /\ Len(due) = n
    BY <1>3, <2>1
  <2> QED BY <1>2, <2>2
<1>4. n \in Nat
  <2>1. s \in SUBSET OrderEvents
    OBVIOUS
  <2>2. IsFiniteSet(s)
    BY <2>1, EventsFinite, FS_Subset
  <2> QED BY <2>2, FS_CardinalityType
<1> QED BY <1>3, <1>4

\* One turn hands over what is due, led by a new order's first event, in the order of
\* each course; and what it schedules is ahead of all that.
LEMMA TickFacts ==
    ASSUME GeneratorTypeOK, HeapAhead, Tick
    PROVE  /\ \E items \in Seq(OrderEvents) :
                /\ generated' = generated \cup ToSet(items) /\ Enqueue(items)
                /\ Ordered(items, Precedes)
                /\ \A e \in generated, f \in ToSet(items) : <<e, f>> \in Precedes
           /\ course' \in [Orders -> Kinds \cup {"new"}]
           /\ heap' \in SUBSET OrderEvents /\ Cardinality(heap') <= MaxPending
           /\ HeapAhead'
<1>1. /\ course \in [Orders -> Kinds \cup {"new"}] /\ heap \in SUBSET OrderEvents
      /\ Cardinality(heap) <= MaxPending /\ generated \in SUBSET OrderEvents
  BY DEF GeneratorTypeOK
<1>2. /\ \A e \in heap \cup generated : e[1] \in Orders /\ course[e[1]] # "new"
      /\ \A e \in heap : course[e[1]] \in Kinds
      /\ \A e, f \in heap : e[1] = f[1] => e = f
      /\ \A e \in generated, f \in heap : e[1] = f[1] => e[2] < f[2]
      /\ \A e \in heap \cup generated : e[2] \in Nat
  <2>1. \A e \in heap \cup generated : e[1] \in Orders /\ e[2] \in Nat /\ e \in OrderEvents
    BY <1>1 DEF OrderEvents
  <2>2. \A e \in heap \cup generated : course[e[1]] # "new"
    BY DEF HeapAhead
  <2>3. \A e \in generated, f \in heap : e[1] = f[1] => e[2] < f[2]
    BY DEF HeapAhead, Precedes
  <2>4. \A e, f \in heap : e[1] = f[1] => e = f
    BY DEF HeapAhead
  <2> QED BY <2>1, <2>2, <2>3, <2>4, <1>1
<1>3. PICK due \in DueNow :
        \/ /\ heap' = Pop(heap, due) /\ UNCHANGED course
           /\ generated' = generated \cup ToSet(due) /\ Enqueue(due)
        \/ \E o \in Orders, kind \in Kinds :
             /\ course[o] = "new" /\ course' = [course EXCEPT ![o] = kind]
             /\ heap' = Pop(Schedule(heap, <<o, 2>>), due)
             /\ generated' = generated \cup {<<o, 1>>} \cup ToSet(due)
             /\ Enqueue(<<<<o, 1>>>> \o due)
  BY DEF Tick
<1>4. /\ due \in Seq(heap) /\ due \in Seq(OrderEvents)
      /\ \A i, j \in 1..Len(due) : i # j => due[i] # due[j]
      /\ ToSet(due) \subseteq heap
  BY <1>1, DueFacts, ToSetRange
<1>5. Ordered(due, Precedes)
  <2> SUFFICES ASSUME NEW i \in 1..Len(due), NEW j \in 1..Len(due), i < j
               PROVE  <<due[i], due[j]>> \in Precedes
    BY <1>4 DEF Ordered
  <2>1. due[i] \in heap /\ due[j] \in heap /\ due[i] # due[j]
    BY <1>4, i \in Nat, j \in Nat
  <2> QED BY <2>1, <1>1, <1>2 DEF Precedes
<1>6. ASSUME NEW H \in SUBSET OrderEvents, Cardinality(H) <= MaxPending
      PROVE  /\ Pop(H, due) \in SUBSET OrderEvents /\ Cardinality(Pop(H, due)) <= MaxPending
             /\ Pop(H, due) \subseteq (H \ ToSet(due)) \cup {Follow(e) : e \in ToSet(due)}
  BY <1>1, <1>2, <1>4, <1>6, PopFacts
<1>7. CASE /\ heap' = Pop(heap, due) /\ UNCHANGED course
           /\ generated' = generated \cup ToSet(due) /\ Enqueue(due)
  <2>1. /\ heap' \in SUBSET OrderEvents /\ Cardinality(heap') <= MaxPending
        /\ heap' \subseteq (heap \ ToSet(due)) \cup {Follow(e) : e \in ToSet(due)}
    BY <1>1, <1>6, <1>7
  <2>2. \A f \in heap' : \E d \in heap : f[1] = d[1] /\ (IF d \in ToSet(due) THEN f[2] = d[2] + 1 ELSE f = d)
                                      /\ (d \in ToSet(due) => f = <<d[1], d[2] + 1>>)
    BY <2>1, <1>4 DEF Follow
  <2>3. ASSUME NEW e \in heap' \cup generated' PROVE course'[e[1]] # "new"
    BY <2>2, <1>2, <1>4, <1>7
  <2>4. ASSUME NEW e \in heap', NEW f \in heap', e[1] = f[1] PROVE e = f
    BY <2>2, <2>4, <1>2
  <2>5. ASSUME NEW e \in generated', NEW f \in heap' PROVE <<e, f>> \in Precedes
    <3>1. e \in OrderEvents /\ f \in OrderEvents /\ e \in generated \cup ToSet(due)
      BY <1>1, <1>4, <1>7, <2>1
    <3>2. ASSUME e[1] = f[1] PROVE e[2] < f[2]
      <4>1. PICK d \in heap : f[1] = d[1] /\ (IF d \in ToSet(due) THEN f[2] = d[2] + 1 ELSE f = d)
        BY <2>2
      <4>2. d[2] \in Nat /\ d[2] < d[2] + 1 /\ e[2] \in Nat
        BY <1>2, <3>1, <1>4
      <4>3. CASE e \in generated
        <5>1. e[2] < d[2]
          BY <4>1, <4>3, <3>2, <1>2
        <5> QED BY <4>1, <4>2, <5>1
      <4>4. CASE e \in ToSet(due)
        <5>1. e = d
          BY <4>1, <4>4, <3>2, <1>2, <1>4
        <5> QED BY <4>1, <4>2, <4>4, <5>1
      <4> QED BY <3>1, <4>3, <4>4
    <3> QED BY <3>1, <3>2 DEF Precedes
  <2>6. HeapAhead'
    BY <2>3, <2>4, <2>5 DEF HeapAhead
  <2>7. \A e \in generated, f \in ToSet(due) : <<e, f>> \in Precedes
    BY <1>1, <1>2, <1>4 DEF Precedes
  <2> QED BY <1>1, <1>4, <1>5, <1>7, <2>1, <2>6, <2>7
<1>8. CASE \E o \in Orders, kind \in Kinds :
             /\ course[o] = "new" /\ course' = [course EXCEPT ![o] = kind]
             /\ heap' = Pop(Schedule(heap, <<o, 2>>), due)
             /\ generated' = generated \cup {<<o, 1>>} \cup ToSet(due)
             /\ Enqueue(<<<<o, 1>>>> \o due)
  <2>1. PICK o \in Orders, kind \in Kinds :
             /\ course[o] = "new" /\ course' = [course EXCEPT ![o] = kind]
             /\ heap' = Pop(Schedule(heap, <<o, 2>>), due)
             /\ generated' = generated \cup {<<o, 1>>} \cup ToSet(due)
             /\ Enqueue(<<<<o, 1>>>> \o due)
    BY <1>8
  <2> DEFINE first == <<o, 1>>
             second == <<o, 2>>
             H == Schedule(heap, second)
             one == <<first>>
             items == one \o due
  <2>2. first \in OrderEvents /\ second \in OrderEvents /\ first[1] = o /\ second[1] = o
        /\ first[2] = 1 /\ second[2] = 2
    BY DEF OrderEvents
  <2> HIDE DEF first, second
  <2>3. /\ H \in SUBSET OrderEvents /\ Cardinality(H) <= MaxPending /\ H \subseteq heap \cup {second}
    BY <1>1, <2>2, ScheduleFacts
  <2>4. /\ heap' = Pop(H, due) /\ generated' = generated \cup {first} \cup ToSet(due) /\ Enqueue(items)
    BY <2>1 DEF first, second
  <2> HIDE DEF H
  <2>5. /\ heap' \in SUBSET OrderEvents /\ Cardinality(heap') <= MaxPending
        /\ heap' \subseteq (H \ ToSet(due)) \cup {Follow(e) : e \in ToSet(due)}
    BY <2>3, <2>4, <1>6
  <2>6. course' \in [Orders -> Kinds \cup {"new"}] /\ course'[o] # "new"
        /\ \A p \in Orders : p # o => course'[p] = course[p]
    <3>1. "new" \notin Kinds
      OBVIOUS
    <3> QED BY <1>1, <2>1, <3>1
  <2>7. \A e \in heap \cup generated : e[1] # o
    BY <1>2, <2>1
  <2>8. \A f \in heap' : \/ f = second
                         \/ \E d \in heap : f[1] = d[1] /\ (d \notin ToSet(due) => f = d)
                                            /\ (d \in ToSet(due) => f = <<d[1], d[2] + 1>> /\ f[2] = d[2] + 1)
    BY <2>3, <2>5, <1>4 DEF Follow
  <2>9. ASSUME NEW e \in heap' \cup generated' PROVE course'[e[1]] # "new"
    <3>1. e[1] = o \/ \E d \in heap \cup generated : e[1] = d[1]
      BY <2>2, <2>4, <2>8, <1>4
    <3> QED BY <3>1, <2>6, <1>2
  <2>10. ASSUME NEW e \in heap', NEW f \in heap', e[1] = f[1] PROVE e = f
    BY <2>2, <2>7, <2>8, <2>10, <1>2
  <2>11. ASSUME NEW e \in generated', NEW f \in heap' PROVE <<e, f>> \in Precedes
    <3>1. e \in OrderEvents /\ f \in OrderEvents /\ e \in generated \cup {first} \cup ToSet(due)
      BY <1>1, <1>4, <2>2, <2>4, <2>5
    <3>2. ASSUME e[1] = f[1] PROVE e[2] < f[2]
      <4>1. CASE f = second
        <5>1. e = first
          BY <3>1, <3>2, <4>1, <2>2, <2>7, <1>4
        <5> QED BY <5>1, <4>1, <2>2
      <4>2. CASE f # second
        <5>1. PICK d \in heap : f[1] = d[1] /\ (d \notin ToSet(due) => f = d)
                                /\ (d \in ToSet(due) => f[2] = d[2] + 1)
          BY <2>8, <4>2
        <5>2. d[2] \in Nat /\ d[2] < d[2] + 1 /\ e # first
          BY <1>2, <2>2, <2>7, <3>2, <5>1
        <5>3. CASE e \in generated
          <6>1. e[2] < d[2] /\ e[2] \in Nat
            BY <5>1, <5>3, <3>2, <1>2
          <6> QED BY <5>1, <5>2, <6>1
        <5>4. CASE e \in ToSet(due)
          <6>1. e = d
            BY <5>1, <5>4, <3>2, <1>2, <1>4
          <6> QED BY <5>1, <5>2, <5>4, <6>1
        <5> QED BY <3>1, <5>2, <5>3, <5>4
      <4> QED BY <4>1, <4>2
    <3> QED BY <3>1, <3>2 DEF Precedes
  <2>12. HeapAhead'
    BY <2>9, <2>10, <2>11 DEF HeapAhead
  <2>13. /\ one \in Seq(OrderEvents) /\ ToSet(one) = {first} /\ Ordered(one, Precedes)
    <3>1. <<first>> \in Seq(OrderEvents) /\ DOMAIN <<first>> = 1..1
      BY <2>2
    <3>2. Ordered(<<first>>, Precedes)
      BY <3>1 DEF Ordered
    <3> QED BY <3>1, <3>2, ToSetSingleton
  <2> HIDE DEF one
  <2>14. items \in Seq(OrderEvents) /\ ToSet(items) = {first} \cup ToSet(due)
    BY <2>13, <1>4, ToSetConcat
  <2>15. Ordered(items, Precedes)
    <3>1. \A e \in ToSet(one), f \in ToSet(due) : <<e, f>> \in Precedes
      BY <1>1, <1>4, <2>2, <2>7, <2>13 DEF Precedes
    <3> QED BY <3>1, <1>4, <1>5, <2>13, OrderedConcat
  <2>16. \A e \in generated, f \in ToSet(items) : <<e, f>> \in Precedes
    BY <1>1, <1>2, <1>4, <2>2, <2>7, <2>14 DEF Precedes
  <2>17. generated' = generated \cup ToSet(items)
    BY <2>4, <2>14
  <2> HIDE DEF items
  <2> QED BY <2>4, <2>5, <2>6, <2>12, <2>14, <2>15, <2>16, <2>17
<1> QED BY <1>3, <1>7, <1>8

-----------------------------------------------------------------------------
(* One step of each actor.                                                 *)

\* At most as many more go missing as X has elements.
LEMMA MissingGrows ==
    ASSUME GeneratorTypeOK, NEW X, IsFiniteSet(X), Missing' \subseteq Missing \cup X
    PROVE  /\ Cardinality(Missing) \in Nat /\ Cardinality(X) \in Nat /\ Cardinality(Missing') \in Nat
           /\ Cardinality(Missing') <= Cardinality(Missing) + Cardinality(X)
<1>1. Missing \in SUBSET OrderEvents
  BY DEF Missing, GeneratorTypeOK
<1> HIDE DEF Missing
<1>2. IsFiniteSet(Missing)
  BY <1>1, EventsFinite, FS_Subset
<1>3. /\ IsFiniteSet(Missing \cup X)
      /\ Cardinality(Missing \cup X) = Cardinality(Missing) + Cardinality(X) - Cardinality(Missing \cap X)
  BY <1>2, FS_Union
<1>4. IsFiniteSet(Missing \cap X)
  <2>1. Missing \cap X \in SUBSET Missing
    OBVIOUS
  <2> QED BY <1>2, <2>1, FS_Subset
<1>5. IsFiniteSet(Missing') /\ Cardinality(Missing') <= Cardinality(Missing \cup X)
  <2>1. Missing' \in SUBSET (Missing \cup X)
    OBVIOUS
  <2> QED BY <1>3, <2>1, FS_Subset
<1>6. /\ Cardinality(Missing) \in Nat /\ Cardinality(X) \in Nat
      /\ Cardinality(Missing \cap X) \in Nat /\ Cardinality(Missing') \in Nat
      /\ Cardinality(Missing \cup X) \in Nat
  BY <1>2, <1>3, <1>4, <1>5, FS_CardinalityType
<1> QED BY <1>3, <1>5, <1>6

\* Nothing new goes missing.
LEMMA LossesStay ==
    ASSUME GeneratorTypeOK, ~stopSet => LossesCounted, Missing' \subseteq Missing,
           dropped' = dropped, ~stopSet' => ~stopSet
    PROVE  LossesCounted'
<1>1. IsFiniteSet({}) /\ Cardinality({}) = 0 /\ Missing' \subseteq Missing \cup {}
  BY FS_EmptySet
<1>2. /\ Cardinality(Missing) \in Nat /\ Cardinality(Missing') \in Nat
      /\ Cardinality(Missing') <= Cardinality(Missing) + 0
  BY <1>1, MissingGrows
<1> QED BY <1>2 DEF LossesCounted, GeneratorTypeOK

\* A turn of the main loop loses only what enqueue() counts, and hands over what is
\* ahead of everything on its way.
LEMMA TickStep ==
    ASSUME GeneratorInv, Tick PROVE GeneratorInv'
<1>1. /\ GeneratorTypeOK /\ SenderWaits /\ HeapAhead /\ OnTheWay /\ RequestsGenerated /\ LossesCounted
      /\ Calm => LineOrdered
  BY DEF GeneratorInv
<1>2. PICK items \in Seq(OrderEvents) :
        /\ generated' = generated \cup ToSet(items) /\ Enqueue(items)
        /\ Ordered(items, Precedes)
        /\ \A e \in generated, f \in ToSet(items) : <<e, f>> \in Precedes
  BY <1>1, TickFacts
<1>3. /\ course' \in [Orders -> Kinds \cup {"new"}]
      /\ heap' \in SUBSET OrderEvents /\ Cardinality(heap') <= MaxPending
      /\ HeapAhead'
  BY <1>1, TickFacts
<1>4. /\ buffer' \in Seq(OrderEvents) /\ Len(buffer') <= MaxBuffer /\ dropped' \in Nat
      /\ \E gone : /\ IsFiniteSet(gone) /\ Cardinality(gone) <= dropped' - dropped
                   /\ ToSet(buffer) \cup ToSet(items) = gone \cup ToSet(buffer')
      /\ Ordered(buffer \o items, Precedes) => Ordered(buffer', Precedes)
  BY <1>1, <1>2, EnqueueFacts
<1>5. /\ main = "running" /\ main' \in {"running", "joining"}
      /\ UNCHANGED <<stopSet, sender, batch, refusals, requests, stored>>
  BY DEF Tick, apiVars
<1>6. ToSet(items) \subseteq OrderEvents /\ ToSet(buffer') \subseteq generated'
  <2>1. ToSet(items) \subseteq OrderEvents
    BY ToSetRange
  <2>2. ToSet(buffer) \subseteq generated
    BY <1>1 DEF OnTheWay
  <2> QED BY <1>2, <1>4, <2>1, <2>2
<1>7. GeneratorTypeOK'
  BY <1>1, <1>2, <1>3, <1>4, <1>5, <1>6 DEF GeneratorTypeOK
<1>8. OnTheWay' /\ RequestsGenerated' /\ SenderWaits'
  BY <1>1, <1>2, <1>5, <1>6 DEF OnTheWay, RequestsGenerated, SenderWaits
<1>9. LossesCounted'
  <2> SUFFICES ASSUME ~stopSet PROVE Cardinality(Missing') <= dropped'
    BY <1>5 DEF LossesCounted
  <2>1. PICK gone : /\ IsFiniteSet(gone) /\ Cardinality(gone) <= dropped' - dropped
                    /\ ToSet(buffer) \cup ToSet(items) = gone \cup ToSet(buffer')
    BY <1>4
  <2>2. Missing' \subseteq Missing \cup gone
    BY <2>1, <1>2, <1>5 DEF Missing
  <2>3. /\ Cardinality(Missing) \in Nat /\ Cardinality(gone) \in Nat /\ Cardinality(Missing') \in Nat
        /\ Cardinality(Missing') <= Cardinality(Missing) + Cardinality(gone)
    BY <1>1, <2>1, <2>2, MissingGrows
  <2>4. Cardinality(Missing) <= dropped /\ dropped \in Nat
    BY <1>1 DEF LossesCounted, GeneratorTypeOK
  <2> QED BY <1>4, <2>1, <2>3, <2>4
<1>10. ASSUME Calm' PROVE LineOrdered'
  <2>1. LineOrdered
    BY <1>1, <1>5, <1>10 DEF Calm
  <2>2. buffer \in Seq(OrderEvents) /\ ToSet(stored) \cup ToSet(batch) \cup ToSet(buffer) \subseteq generated
    BY <1>1 DEF GeneratorTypeOK, OnTheWay
  <2>3. Ordered(buffer \o items, Precedes)
    BY <1>2, <2>1, <2>2, OrderedConcat DEF LineOrdered
  <2>4. ToSet(buffer') \subseteq ToSet(buffer) \cup ToSet(items)
    BY <1>4
  <2> QED BY <1>2, <1>4, <1>5, <2>1, <2>2, <2>3, <2>4 DEF LineOrdered
<1> QED BY <1>3, <1>7, <1>8, <1>9, <1>10 DEF GeneratorInv

\* What none of the simulator's variables change leaves the heap ahead.
LEMMA SimUnchanged ==
    ASSUME HeapAhead, UNCHANGED simVars PROVE HeapAhead'
BY DEF HeapAhead, simVars

\* The steps that move no event.
LEMMA MainStep ==
    ASSUME GeneratorInv, ApiAnswers \/ Signal \/ Join \/ SleepOver PROVE GeneratorInv'
<1>1. /\ GeneratorTypeOK /\ SenderWaits /\ HeapAhead /\ OnTheWay /\ RequestsGenerated /\ LossesCounted
      /\ Calm => LineOrdered
  BY DEF GeneratorInv
<1>2. /\ UNCHANGED <<simVars, buffer, batch, dropped, refusals, requests, stored>>
      /\ main' \in {"starting", "running", "joining", "exited"} /\ stopSet' \in BOOLEAN
      /\ sender' \in {"new", "ready", "sleeping", "posting", "backoff", "ended"}
      /\ sender' \in {"posting", "backoff"} <=> sender \in {"posting", "backoff"}
      /\ ~stopSet' => ~stopSet
      /\ SenderWaits'
  <2>1. CASE ApiAnswers
    BY <2>1, <1>1 DEF ApiAnswers, GeneratorTypeOK, SenderWaits, apiVars
  <2>2. CASE Signal
    BY <2>2, <1>1 DEF Signal, GeneratorTypeOK, SenderWaits, sendVars, apiVars
  <2>3. CASE Join
    BY <2>3, <1>1 DEF Join, GeneratorTypeOK, SenderWaits, sendVars, apiVars
  <2>4. CASE SleepOver
    BY <2>4, <1>1 DEF SleepOver, GeneratorTypeOK, SenderWaits, apiVars
  <2> QED BY <2>1, <2>2, <2>3, <2>4
<1>3. GeneratorTypeOK'
  BY <1>1, <1>2 DEF GeneratorTypeOK, simVars
<1>4. OnTheWay' /\ RequestsGenerated' /\ (Calm' => LineOrdered') /\ HeapAhead'
  BY <1>1, <1>2, SimUnchanged DEF OnTheWay, RequestsGenerated, LineOrdered, Calm, simVars
<1>5. Missing' = Missing
  BY <1>2 DEF Missing, simVars
<1>6. LossesCounted'
  BY <1>1, <1>2, <1>5, LossesStay
<1> QED BY <1>2, <1>3, <1>4, <1>6 DEF GeneratorInv

\* The top of the sender's loop: what is taken from the buffer goes before what stays.
LEMMA TurnStep ==
    ASSUME GeneratorInv, Turn PROVE GeneratorInv'
<1>1. /\ GeneratorTypeOK /\ SenderWaits /\ HeapAhead /\ OnTheWay /\ RequestsGenerated /\ LossesCounted
      /\ Calm => LineOrdered
  BY DEF GeneratorInv
<1>2. /\ sender = "ready" /\ batch = <<>> /\ ToSet(batch) = {}
      /\ UNCHANGED <<dropped, refusals, stored, simVars, main, stopSet>>
  BY <1>1, ToSetEmpty DEF Turn, GeneratorTypeOK
<1>3. CASE /\ buffer = <<>> /\ sender' = (IF stopSet THEN "ended" ELSE "sleeping")
           /\ UNCHANGED <<buffer, batch, requests>>
  <2>1. GeneratorTypeOK' /\ SenderWaits'
    BY <1>1, <1>2, <1>3 DEF GeneratorTypeOK, simVars, SenderWaits
  <2>2. OnTheWay' /\ RequestsGenerated' /\ (Calm' => LineOrdered') /\ HeapAhead'
    BY <1>1, <1>2, <1>3, SimUnchanged DEF OnTheWay, RequestsGenerated, LineOrdered, Calm, simVars
  <2>3. Missing' = Missing
    BY <1>2, <1>3 DEF Missing, simVars
  <2>4. LossesCounted'
    BY <1>1, <1>2, <2>3, LossesStay
  <2> QED BY <2>1, <2>2, <2>4 DEF GeneratorInv
<1>4. CASE buffer # <<>>
  <2> DEFINE n == IF Len(buffer) < MaxBatch THEN Len(buffer) ELSE MaxBatch
  <2>1. /\ sender' = "posting" /\ batch' = SubSeq(buffer, 1, n)
        /\ buffer' = SubSeq(buffer, n + 1, Len(buffer)) /\ requests' = requests \cup {batch'}
    BY <1>4 DEF Turn
  <2>2. buffer \in Seq(OrderEvents) /\ n \in 0..Len(buffer) /\ n <= MaxBatch /\ n # 0
    <3>1. buffer \in Seq(OrderEvents) /\ Len(buffer) \in Nat /\ Len(buffer) # 0
      BY <1>1, <1>4 DEF GeneratorTypeOK
    <3> QED BY <3>1
  <2> HIDE DEF n
  <2>3. /\ batch' \in Seq(OrderEvents) /\ Len(batch') = n
        /\ buffer' \in Seq(OrderEvents) /\ Len(buffer') = Len(buffer) - n
        /\ ToSet(buffer) = ToSet(batch') \cup ToSet(buffer')
    BY <2>1, <2>2, CutInTwo
  <2>4. batch' # <<>> /\ Len(buffer') <= MaxBuffer
    <3>1. Len(buffer) <= MaxBuffer /\ Len(buffer) \in Nat
      BY <1>1, <2>2 DEF GeneratorTypeOK
    <3> QED BY <2>2, <2>3, <3>1
  <2>5. GeneratorTypeOK' /\ SenderWaits'
    BY <1>1, <1>2, <2>1, <2>2, <2>3, <2>4 DEF GeneratorTypeOK, simVars, SenderWaits
  <2>6. OnTheWay' /\ RequestsGenerated' /\ HeapAhead'
    BY <1>1, <1>2, <2>1, <2>3, SimUnchanged DEF OnTheWay, RequestsGenerated, simVars
  <2>7. Missing' = Missing
    BY <1>2, <2>3 DEF Missing, simVars
  <2>8. LossesCounted'
    BY <1>1, <1>2, <2>7, LossesStay
  <2>9. ASSUME Calm' PROVE LineOrdered'
    <3>1. LineOrdered
      BY <1>1, <1>2, <2>9 DEF Calm
    <3>2. /\ Ordered(batch', Precedes) /\ Ordered(buffer', Precedes)
          /\ \A e \in ToSet(batch'), f \in ToSet(buffer') : <<e, f>> \in Precedes
      BY <2>1, <2>2, <3>1, OrderedCut DEF LineOrdered
    <3>3. \A e \in ToSet(stored), f \in ToSet(buffer) : <<e, f>> \in Precedes
      BY <3>1 DEF LineOrdered
    <3>4. Ordered(stored', Precedes) /\ ToSet(stored') = ToSet(stored)
      BY <3>1, <1>2 DEF LineOrdered
    <3>5. \A b \in requests : ToSet(b) \subseteq ToSet(stored)
      BY <3>1, <1>2 DEF LineOrdered
    <3> QED BY <2>1, <2>3, <3>2, <3>3, <3>4, <3>5 DEF LineOrdered
  <2> QED BY <2>5, <2>6, <2>8, <2>9 DEF GeneratorInv
<1> QED BY <1>3, <1>4 DEF Turn

\* 202, another status, or none: the batch stays with the sender unless it is stored,
\* counted, or given up because stop is set.
LEMMA AnswerStep ==
    ASSUME GeneratorInv, Accepted \/ Retryable \/ Refused PROVE GeneratorInv'
<1>1. /\ GeneratorTypeOK /\ SenderWaits /\ HeapAhead /\ OnTheWay /\ RequestsGenerated /\ LossesCounted
      /\ Calm => LineOrdered
  BY DEF GeneratorInv
<1>2. /\ sender = "posting" /\ UNCHANGED <<simVars, main, stopSet, buffer, stored>>
      /\ requests' \subseteq requests
      /\ \/ batch' = <<>> /\ sender' \in {"sleeping", "ready"}
         \/ UNCHANGED batch /\ sender' = "backoff"
      /\ refusals' \in Nat /\ refusals <= refusals' /\ refusals' <= MaxRefusals /\ dropped' \in Nat
  <2>1. CASE Accepted
    BY <2>1, <1>1 DEF Accepted, BatchDone, GeneratorTypeOK, apiVars
  <2>2. CASE Retryable
    BY <2>2, <1>1 DEF Retryable, Retry, BatchDone, GeneratorTypeOK
  <2>3. CASE Refused
    BY <2>3, <1>1, LenProperties DEF Refused, BatchDone, GeneratorTypeOK
  <2> QED BY <2>1, <2>2, <2>3
<1>3. batch \in Seq(OrderEvents) /\ ToSet(<<>>) = {} /\ <<>> \in Seq(OrderEvents) /\ Len(<<>>) <= MaxBatch
  BY <1>1, ToSetEmpty DEF GeneratorTypeOK
<1>4. GeneratorTypeOK' /\ SenderWaits'
  <2>1. /\ batch' \in Seq(OrderEvents) /\ Len(batch') <= MaxBatch
        /\ (batch' # <<>>) = (sender' \in {"posting", "backoff"})
    <3>1. CASE batch' = <<>> /\ sender' \in {"sleeping", "ready"}
      BY <3>1, <1>3
    <3>2. CASE UNCHANGED batch /\ sender' = "backoff"
      <4>1. batch # <<>> /\ Len(batch) <= MaxBatch
        BY <1>1, <1>2 DEF GeneratorTypeOK
      <4> QED BY <3>2, <4>1, <1>3
    <3> QED BY <1>2, <3>1, <3>2
  <2>2. refusals' \in 0..MaxRefusals
    BY <1>2
  <2>3. sender' \in {"new", "ready", "sleeping", "posting", "backoff", "ended"}
    BY <1>2
  <2>4. GeneratorTypeOK'
    BY <1>1, <1>2, <2>1, <2>2, <2>3 DEF GeneratorTypeOK, simVars
  <2> QED BY <1>1, <1>2, <2>4 DEF SenderWaits
<1>5. OnTheWay' /\ RequestsGenerated' /\ HeapAhead'
  BY <1>1, <1>2, <1>3, SimUnchanged DEF OnTheWay, RequestsGenerated, simVars
<1>6. LossesCounted'
  <2>1. CASE Accepted
    <3>1. Missing' \subseteq Missing /\ dropped' = dropped
      BY <2>1, <1>2, <1>3 DEF Accepted, Missing, simVars
    <3> QED BY <1>1, <1>2, <3>1, LossesStay
  <2>2. CASE Retryable
    <3>1. CASE stopSet
      BY <3>1, <1>2 DEF LossesCounted
    <3>2. CASE ~stopSet
      <4>1. Missing' \subseteq Missing /\ dropped' = dropped
        BY <2>2, <3>2, <1>2 DEF Retryable, Retry, Missing, simVars
      <4> QED BY <1>1, <1>2, <4>1, LossesStay
    <3> QED BY <3>1, <3>2
  <2>3. CASE Refused
    <3> SUFFICES ASSUME ~stopSet PROVE Cardinality(Missing') <= dropped'
      BY <1>2 DEF LossesCounted
    <3> DEFINE gone == ToSet(batch)
    <3>1. IsFiniteSet(gone) /\ Cardinality(gone) <= Len(batch) /\ Len(batch) \in Nat
      <4> DEFINE image == {batch[i] : i \in (0 + 1)..Len(batch)}
      <4>1. 0 \in Nat /\ Len(batch) \in Nat /\ 0 <= Len(batch) /\ Len(batch) - 0 = Len(batch) /\ 0 + 1 = 1
        BY <1>3
      <4>2. IsFiniteSet(image) /\ Cardinality(image) <= Len(batch) - 0
        BY ONLY <4>1, ImageCardinality
      <4>3. image = gone
        BY <1>3, <4>1, ToSetRange
      <4> HIDE DEF image, gone
      <4> QED BY <4>1, <4>2, <4>3
    <3>2. Missing' \subseteq Missing \cup gone
      BY <2>3, <1>2 DEF Refused, Missing, simVars
    <3> HIDE DEF gone
    <3>3. /\ Cardinality(Missing) \in Nat /\ Cardinality(gone) \in Nat /\ Cardinality(Missing') \in Nat
          /\ Cardinality(Missing') <= Cardinality(Missing) + Cardinality(gone)
      BY <1>1, <3>1, <3>2, MissingGrows
    <3>4. Cardinality(Missing) <= dropped /\ dropped \in Nat
      BY <1>1 DEF LossesCounted, GeneratorTypeOK
    <3>5. dropped' = dropped + Len(batch)
      BY <2>3 DEF Refused
    <3> QED BY <3>1, <3>3, <3>4, <3>5
  <2> QED BY <2>1, <2>2, <2>3
<1>7. ASSUME Calm' PROVE LineOrdered'
  <2>1. Calm /\ LineOrdered
    BY <1>1, <1>2, <1>7 DEF Calm, GeneratorTypeOK
  <2>2. CASE UNCHANGED batch
    BY <2>1, <2>2, <1>2 DEF LineOrdered
  <2>3. CASE batch' = <<>>
    <3>1. ToSet(batch) \subseteq ToSet(stored)
      <4>1. Accepted
        <5>1. ~Refused
          BY <1>7, <1>1 DEF Refused, Calm, GeneratorTypeOK
        <5>2. ~Retryable
          BY <2>1, <2>3, <1>1, <1>2 DEF Retryable, Retry, Calm, GeneratorTypeOK
        <5> QED BY <5>1, <5>2
      <4> QED BY <4>1 DEF Accepted
    <3>2. Ordered(<<>>, Precedes)
      BY DEF Ordered
    <3> QED BY <2>1, <2>3, <3>1, <3>2, <1>2, <1>3 DEF LineOrdered
  <2> QED BY <1>2, <2>2, <2>3
<1> QED BY <1>4, <1>5, <1>6, <1>7 DEF GeneratorInv

\* The same batch goes out again.
LEMMA BackoffStep ==
    ASSUME GeneratorInv, BackoffOver PROVE GeneratorInv'
<1>1. /\ GeneratorTypeOK /\ SenderWaits /\ HeapAhead /\ OnTheWay /\ RequestsGenerated /\ LossesCounted
      /\ Calm => LineOrdered
  BY DEF GeneratorInv
<1>2. /\ sender = "backoff" /\ sender' = "posting" /\ requests' = requests \cup {batch}
      /\ UNCHANGED <<simVars, main, stopSet, buffer, batch, dropped, refusals, stored>>
  BY DEF BackoffOver
<1>3. GeneratorTypeOK' /\ SenderWaits'
  BY <1>1, <1>2 DEF GeneratorTypeOK, simVars, SenderWaits
<1>4. OnTheWay' /\ RequestsGenerated' /\ HeapAhead' /\ (Calm' => LineOrdered')
  BY <1>1, <1>2, SimUnchanged DEF OnTheWay, RequestsGenerated, LineOrdered, Calm, simVars
<1>5. Missing' = Missing
  BY <1>2 DEF Missing, simVars
<1>6. LossesCounted'
  BY <1>1, <1>2, <1>5, LossesStay
<1> QED BY <1>3, <1>4, <1>6 DEF GeneratorInv

\* A late copy of a batch that is stored adds nothing; the batch being sent comes after
\* what is stored and before what is buffered.
LEMMA StoreStep ==
    ASSUME GeneratorInv, Store PROVE GeneratorInv'
<1>1. /\ GeneratorTypeOK /\ SenderWaits /\ HeapAhead /\ OnTheWay /\ RequestsGenerated /\ LossesCounted
      /\ Calm => LineOrdered
  BY DEF GeneratorInv
<1>2. PICK b \in requests : stored' = Inserted(stored, b) /\ requests' = requests \ {b}
  BY DEF Store
<1>3. UNCHANGED <<simVars, main, stopSet, sender, buffer, batch, dropped, refusals>>
  BY DEF Store, sendVars
<1>4. stored \in Seq(OrderEvents) /\ b \in Seq(OrderEvents)
  BY <1>1, <1>2 DEF GeneratorTypeOK
<1>5. /\ stored' \in Seq(OrderEvents) /\ ToSet(stored') = ToSet(stored) \cup ToSet(b)
      /\ ToSet(b) \subseteq ToSet(stored) => stored' = stored
      /\ /\ Ordered(stored, Precedes) /\ Ordered(b, Precedes)
         /\ \A e \in ToSet(stored), f \in ToSet(b) : <<e, f>> \in Precedes
         => Ordered(stored', Precedes)
  <2> DEFINE after == Inserted(stored, b)
  <2>1. /\ after \in Seq(OrderEvents) /\ ToSet(after) = ToSet(stored) \cup ToSet(b)
        /\ ToSet(b) \subseteq ToSet(stored) => after = stored
        /\ /\ Ordered(stored, Precedes) /\ Ordered(b, Precedes)
           /\ \A e \in ToSet(stored), f \in ToSet(b) : <<e, f>> \in Precedes
           => Ordered(after, Precedes)
    BY ONLY <1>4, InsertFacts
  <2>2. stored' = after
    BY <1>2
  <2> HIDE DEF after
  <2> QED BY ONLY <2>1, <2>2
<1>6. GeneratorTypeOK' /\ SenderWaits'
  BY <1>1, <1>2, <1>3, <1>5 DEF GeneratorTypeOK, simVars, SenderWaits
<1>7. OnTheWay' /\ RequestsGenerated' /\ HeapAhead'
  BY <1>1, <1>2, <1>3, <1>5, SimUnchanged DEF OnTheWay, RequestsGenerated, simVars
<1>8. Missing' \subseteq Missing
  BY <1>3, <1>5 DEF Missing, simVars
<1>9. LossesCounted'
  BY <1>1, <1>3, <1>8, LossesStay
<1>10. ASSUME Calm' PROVE LineOrdered'
  <2>1. LineOrdered
    BY <1>1, <1>3, <1>10 DEF Calm
  <2>2. CASE ToSet(b) \subseteq ToSet(stored)
    BY <2>1, <2>2, <1>2, <1>3, <1>5 DEF LineOrdered
  <2>3. CASE ~(ToSet(b) \subseteq ToSet(stored))
    <3>1. /\ b = batch
          /\ \A e \in ToSet(stored), f \in ToSet(batch) : <<e, f>> \in Precedes
      BY <2>1, <2>3, <1>2 DEF LineOrdered
    <3>2. Ordered(stored', Precedes)
      BY <2>1, <3>1, <1>5 DEF LineOrdered
    <3> QED BY <2>1, <3>1, <3>2, <1>2, <1>3, <1>5 DEF LineOrdered
  <2> QED BY <2>2, <2>3
<1> QED BY <1>6, <1>7, <1>9, <1>10 DEF GeneratorInv

-----------------------------------------------------------------------------

\* What the three properties of the generator rest on holds all the time, for any
\* number of orders, any limits and any number of refused batches.
THEOREM GeneratorInvariant == GeneratorSpec => []GeneratorInv
<1>1. GeneratorInit => GeneratorInv
  <2> SUFFICES ASSUME GeneratorInit PROVE GeneratorInv
    OBVIOUS
  <2>1. ToSet(<<>>) = {} /\ Cardinality({}) = 0 /\ Ordered(<<>>, Precedes)
    BY ToSetEmpty, FS_EmptySet DEF Ordered
  <2>2. GeneratorTypeOK /\ SenderWaits
    <3>1. <<>> \in Seq(OrderEvents) /\ Len(<<>>) = 0
      OBVIOUS
    <3>2. [o \in Orders |-> "new"] \in [Orders -> Kinds \cup {"new"}]
      OBVIOUS
    <3>3. batch = <<>> /\ sender = "new" /\ main = "starting"
      BY DEF GeneratorInit
    <3>4. (batch # <<>>) = (sender \in {"posting", "backoff"})
      BY <3>3
    <3>5. GeneratorTypeOK
      <4>1. course \in [Orders -> Kinds \cup {"new"}]
        BY <3>2 DEF GeneratorInit
      <4>2. heap = {} /\ Cardinality(heap) <= MaxPending
        BY <2>1 DEF GeneratorInit
      <4>3. /\ buffer \in Seq(OrderEvents) /\ Len(buffer) <= MaxBuffer
            /\ batch \in Seq(OrderEvents) /\ Len(batch) <= MaxBatch /\ stored \in Seq(OrderEvents)
        BY <3>1 DEF GeneratorInit
      <4>4. /\ generated \subseteq OrderEvents /\ stopSet \in BOOLEAN
            /\ dropped \in Nat /\ refusals \in 0..MaxRefusals /\ requests \subseteq Seq(OrderEvents)
        <5>1. generated = {} /\ stopSet = FALSE /\ dropped = 0 /\ refusals = 0 /\ requests = {}
          BY DEF GeneratorInit
        <5>2. 0 \in 0..MaxRefusals
          OBVIOUS
        <5> QED BY <5>1, <5>2
      <4> QED BY <4>1, <4>2, <4>3, <4>4, <3>3, <3>4 DEF GeneratorTypeOK
    <3> QED BY <3>3, <3>5 DEF SenderWaits
  <2>3. HeapAhead /\ OnTheWay /\ RequestsGenerated /\ LineOrdered
    BY <2>1 DEF GeneratorInit, HeapAhead, OnTheWay, RequestsGenerated, LineOrdered
  <2>4. LossesCounted
    <3>1. Missing = {} /\ dropped = 0
      BY DEF GeneratorInit, Missing
    <3> QED BY <3>1, <2>1 DEF LossesCounted
  <2> QED BY <2>2, <2>3, <2>4 DEF GeneratorInv
<1>2. GeneratorInv /\ [GeneratorNext]_generatorVars => GeneratorInv'
  <2> SUFFICES ASSUME GeneratorInv, [GeneratorNext]_generatorVars PROVE GeneratorInv'
    OBVIOUS
  <2>1. CASE Tick
    BY <2>1, TickStep
  <2>2. CASE ApiAnswers \/ Signal \/ Join \/ SleepOver
    BY <2>2, MainStep
  <2>3. CASE Turn
    BY <2>3, TurnStep
  <2>4. CASE Accepted \/ Retryable \/ Refused
    BY <2>4, AnswerStep
  <2>5. CASE BackoffOver
    BY <2>5, BackoffStep
  <2>6. CASE Store
    BY <2>6, StoreStep
  <2>7. CASE UNCHANGED generatorVars
    BY <2>7 DEF generatorVars, simVars, sendVars, apiVars, GeneratorInv, GeneratorTypeOK, SenderWaits,
             HeapAhead, OnTheWay, RequestsGenerated, LossesCounted, Missing, Calm, LineOrdered
  <2> QED BY <2>1, <2>2, <2>3, <2>4, <2>5, <2>6, <2>7 DEF GeneratorNext
<1> QED BY <1>1, <1>2, PTL DEF GeneratorSpec

\* The simulator's heap and the sender's buffer stay within max_pending and max_buffer.
THEOREM GeneratorTypes == GeneratorSpec => []GeneratorTypeOK
<1>1. GeneratorInv => GeneratorTypeOK
  BY DEF GeneratorInv
<1> QED BY <1>1, GeneratorInvariant, PTL

\* Until stop is set no event disappears without being counted.
THEOREM LossesAreCounted == GeneratorSpec => []LossesCounted
<1>1. GeneratorInv => LossesCounted
  BY DEF GeneratorInv
<1> QED BY <1>1, GeneratorInvariant, PTL

\* Retries do not reorder: the events of an order reach the store in the order of its
\* course, each once, unless a batch was refused or given up.
THEOREM CoursesAreKept == GeneratorSpec => []CoursesKept
<1>1. GeneratorInv => CoursesKept
  BY DEF GeneratorInv, GeneratorTypeOK, LineOrdered, Calm, CoursesKept, Ordered, Precedes
<1> QED BY <1>1, GeneratorInvariant, PTL
=============================================================================
