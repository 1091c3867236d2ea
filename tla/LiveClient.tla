----------------------------- MODULE LiveClient -----------------------------
(***************************************************************************)
(* The reconnecting WebSocket client of the three dashboards               *)
(* (frontends/shared/src/liveClient.ts): one socket at a time, a retry     *)
(* timer, a heartbeat timer and the state the page shows.  Every callback  *)
(* of the browser runs to its end, so each is an action.                   *)
(*                                                                         *)
(* Sockets are numbered as they are created.  Their phase is what the      *)
(* network and the browser made of them: "silent" is a socket that looks   *)
(* open and will never deliver, "aborted" one closed by the client before  *)
(* it opened, whose open event may already be queued, "closing" one whose  *)
(* close event is still to come.                                           *)
(***************************************************************************)
EXTENDS Integers, Sequences

CONSTANTS
    MaxFaults,  \* bound: lost connections, refusals, failed constructors, slow answers
    MaxCalls    \* bound: calls of start(), stop() and reconnectNow()

ASSUME LiveClientAssumption == MaxFaults \in Nat /\ MaxCalls \in Nat

VARIABLES
    phase,       \* the sockets created so far
    attached,    \* socket: the number of the one in use, 0 for null
    running,     \* running
    retryTimer,  \* retryTimer # null
    heartbeat,   \* heartbeatTimer # null
    status,      \* state.status
    attempt,     \* state.attempt
    retryShown,  \* state.nextRetryAt # null
    faults, calls

timerVars == <<retryTimer, heartbeat>>
stateVars == <<status, attempt, retryShown>>
clientVars == <<phase, attached, running, timerVars, stateVars, faults, calls>>

Sockets == DOMAIN phase

ClientInit ==
    /\ phase = <<>> /\ attached = 0 /\ running = FALSE
    /\ retryTimer = FALSE /\ heartbeat = FALSE
    /\ status = "idle" /\ attempt = 0 /\ retryShown = FALSE
    /\ faults = 0 /\ calls = 0

Fault == faults < MaxFaults /\ faults' = faults + 1
Call == calls < MaxCalls /\ calls' = calls + 1

-----------------------------------------------------------------------------
(* The private methods the callbacks share.                                *)

\* The sockets after dropSocket(), which also sets socket to null.
NothingDropped == phase                                              \* mutant
Dropped ==
    IF attached = 0 THEN phase
    ELSE [phase EXCEPT ![attached] = IF @ = "connecting" THEN "aborted" ELSE "closing"]

scheduleUnseen ==                                                    \* mutant
    /\ retryTimer' = TRUE /\ heartbeat' = FALSE
    /\ status' = "reconnecting" /\ attempt' = attempt + 1 /\ UNCHANGED retryShown
scheduleReconnect ==
    /\ retryTimer' = TRUE /\ heartbeat' = FALSE
    /\ status' = "reconnecting" /\ attempt' = attempt + 1 /\ retryShown' = TRUE

\* connect() after the caller left these sockets and this heartbeat behind; the
\* constructor may throw.
connect(sockets, beat) ==
    \/ /\ phase' = Append(sockets, "connecting") /\ attached' = Len(sockets) + 1
       /\ status' = (IF attempt = 0 THEN "connecting" ELSE "reconnecting")
       /\ retryTimer' = FALSE /\ heartbeat' = beat /\ retryShown' = FALSE
       /\ UNCHANGED <<attempt, faults>>
    \/ Fault /\ phase' = sockets /\ attached' = 0 /\ scheduleReconnect

-----------------------------------------------------------------------------
(* What the page calls.                                                    *)

\* start() of a running client returns at once.
start == ~running /\ Call /\ running' = TRUE /\ connect(phase, heartbeat)

stop ==
    /\ Call /\ running' = FALSE
    /\ phase' = Dropped /\ attached' = 0
    /\ retryTimer' = FALSE /\ heartbeat' = FALSE
    /\ status' = "stopped" /\ retryShown' = FALSE
    /\ UNCHANGED <<attempt, faults>>

\* The page is visible, in the foreground or online again.
reconnectNow ==
    /\ Call /\ UNCHANGED running
    /\ IF running /\ status # "open"
       THEN connect(Dropped, FALSE)
       ELSE UNCHANGED <<phase, attached, timerVars, stateVars, faults>>

-----------------------------------------------------------------------------
(* Timers.                                                                 *)

RetryFires ==
    /\ retryTimer /\ UNCHANGED <<running, calls>>
    /\ IF running THEN connect(phase, heartbeat)
       ELSE retryTimer' = FALSE
            /\ UNCHANGED <<phase, attached, heartbeat, stateVars, faults>>

\* 35 s without a message: certain on a silent socket, and a server or network
\* too slow for one that still works.
HeartbeatFires ==
    /\ heartbeat /\ UNCHANGED <<running, calls>>
    /\ IF running /\ (attached = 0 \/ phase[attached] # "silent") THEN Fault ELSE UNCHANGED faults
    /\ phase' = Dropped /\ attached' = 0
    /\ IF running THEN scheduleReconnect
       ELSE heartbeat' = FALSE /\ UNCHANGED <<retryTimer, stateVars>>

-----------------------------------------------------------------------------
(* Events of a socket.                                                     *)

Current(s) == s = attached

\* onopen arms the heartbeat, and does not look whether its socket was replaced.
\* A server at its capacity accepts too, and closes without a hello.
Opens(s) ==
    /\ \/ phase[s] = "connecting" /\ phase' = [phase EXCEPT ![s] = "open"] /\ UNCHANGED faults
       \/ phase[s] = "connecting" /\ phase' = [phase EXCEPT ![s] = "closing"] /\ Fault
       \/ phase[s] = "aborted" /\ phase' = [phase EXCEPT ![s] = "closing"] /\ UNCHANGED faults
    /\ heartbeat' = TRUE
    /\ UNCHANGED <<attached, running, retryTimer, stateVars, calls>>

\* onmessage, handleMessage: a message of a socket that was replaced is ignored,
\* a hello ends the row of failures.
Hears(s, kind) ==
    /\ phase[s] \in {"open", "closing"}
    /\ IF Current(s)
       THEN /\ heartbeat' = TRUE
            /\ status' = (IF kind = "hello" THEN "open" ELSE status)
            /\ attempt' = (IF kind = "hello" THEN 0 ELSE attempt)
            /\ UNCHANGED retryShown
       ELSE UNCHANGED <<heartbeat, stateVars>>
    /\ UNCHANGED <<phase, attached, running, retryTimer, faults, calls>>

LostForGood == UNCHANGED <<timerVars, stateVars>>                    \* mutant
Lost == IF running THEN scheduleReconnect ELSE UNCHANGED <<timerVars, stateVars>>

\* onclose.  A connection that is still being made fails by a fault.
Closes(s) ==
    /\ phase[s] \in {"connecting", "aborted", "closing"}
    /\ phase' = [phase EXCEPT ![s] = "closed"]
    /\ IF phase[s] = "connecting" THEN Fault ELSE UNCHANGED faults
    /\ IF Current(s)
       THEN /\ attached' = 0 /\ Lost
       ELSE UNCHANGED <<attached, timerVars, stateVars>>
    /\ UNCHANGED <<running, calls>>

\* The server restarts, closes the socket or the network cuts it; or the socket
\* goes on looking open and is dead.
Cut(s) ==
    /\ phase[s] = "open" /\ Fault
    /\ \E p \in {"closing", "silent"} : phase' = [phase EXCEPT ![s] = p]
    /\ UNCHANGED <<attached, running, timerVars, stateVars, calls>>

ClientNext ==
    \/ start \/ stop \/ reconnectNow \/ RetryFires \/ HeartbeatFires
    \/ \E s \in Sockets :
         Opens(s) \/ (\E k \in {"hello", "other"} : Hears(s, k)) \/ Closes(s) \/ Cut(s)

ClientSpec == ClientInit /\ [][ClientNext]_clientVars

-----------------------------------------------------------------------------
(* What the client promises.                                               *)

Phases == {"connecting", "open", "silent", "aborted", "closing", "closed"}

\* Every variable stays in its type.
ClientTypeOK ==
    /\ phase \in Seq(Phases) /\ attached \in 0..Len(phase)
    /\ running \in BOOLEAN /\ retryTimer \in BOOLEAN /\ heartbeat \in BOOLEAN
    /\ status \in {"idle", "connecting", "open", "reconnecting", "stopped"}
    /\ attempt \in Nat /\ retryShown \in BOOLEAN
    /\ faults \in 0..MaxFaults /\ calls \in 0..MaxCalls

\* There is one connection: a socket that is no longer in use has been closed,
\* and a stopped client uses none, whatever timers, late events and calls came
\* in between (liveClient.ts:83-96, 108-118, 169-179).
OneLiveSocket ==
    /\ \A s \in Sockets : s # attached => phase[s] \in {"aborted", "closing", "closed"}
    /\ ~running => attached = 0

\* A running client always has a way back, and only one: either a socket in use,
\* whose death a close event or an armed heartbeat will tell, or a retry timer.
\* A stopped one has neither (liveClient.ts:114-118, 142-167).
WayBack ==
    /\ running => (attached # 0) # retryTimer
    /\ ~running => ~retryTimer
    /\ attached # 0 =>
         /\ phase[attached] # "closed"
         /\ phase[attached] \in {"open", "silent"} => heartbeat

\* The page is told the truth: it counts down to a retry exactly while one is
\* scheduled, and says "open" only of a socket in use (liveClient.ts:87, 99, 135,
\* 149-153).
StateTruthful ==
    /\ retryShown = retryTimer
    /\ status = "open" => attached # 0
    /\ ~running <=> status \in {"idle", "stopped"}
=============================================================================
