----------------------------- MODULE Dashboard ------------------------------
(***************************************************************************)
(* A dashboard and the server it watches: the live client, the messages on *)
(* its sockets, the REST call that fills the page first, and the cache the *)
(* views read (web-react/src/live/liveStore.ts and hooks.ts; the mobile    *)
(* app and the Angular service do the same).                               *)
(*                                                                         *)
(* Snapshots and feed events are numbered in the order of their            *)
(* generated_at and of their publication.  There is one alert rule; it is  *)
(* firing after an odd number of toggles.  Each socket is a FIFO: that the *)
(* server keeps a socket's messages in order is shown in Hub.              *)
(***************************************************************************)
EXTENDS LiveClient, SequencesExt

CONSTANTS
    FeedLimit,     \* limit of mergeFeed
    RecentLimit,   \* maxlen of the server's _recent
    MaxSnapshots, MaxToggles, MaxEvents  \* bounds: what the server publishes

ASSUME DashboardAssumption ==
    /\ FeedLimit \in Nat \ {0} /\ RecentLimit \in Nat \ {0}
    /\ MaxSnapshots \in Nat /\ MaxToggles \in Nat /\ MaxEvents \in Nat

VARIABLES
    snapshots, toggles, events,  \* published so far
    wire,                        \* wire[s]: the messages on their way on socket s
    answer,                      \* the REST call: New, the snapshot in its answer, Done
    view                         \* the cache: snapshot, active, feed

serverVars == <<snapshots, toggles, events>>
dashboardVars == <<clientVars, serverVars, wire, answer, view>>

New == 0
Done == MaxSnapshots + 1

Firing == toggles % 2 = 1

Init ==
    /\ ClientInit
    /\ snapshots = 0 /\ toggles = 0 /\ events = 0
    /\ wire = <<>> /\ answer = New
    /\ view = [snapshot |-> 0, active |-> FALSE, feed |-> <<>>]

-----------------------------------------------------------------------------
(* Messages.                                                               *)

FirstOf(seq, n) == SubSeq(seq, 1, IF Len(seq) > n THEN n ELSE Len(seq))
LastOf(seq, n) == SubSeq(seq, IF Len(seq) > n THEN Len(seq) - n + 1 ELSE 1, Len(seq))

Recent == LastOf([i \in 1..events |-> i], RecentLimit)

Hello == [kind |-> "hello", active |-> Firing, items |-> Recent]
Snapshot(n) == [kind |-> "snapshot", n |-> n]
Events(items) == [kind |-> "events", items |-> items]
Alert(firing) == [kind |-> "alert", firing |-> firing]

\* Mutant: latest_snapshot is offered although it is still None.
GreetingUnchecked == <<Hello, Snapshot(IF snapshots > 0 THEN snapshots ELSE 0 - 1)>>
\* What a client is sent when it connects.
Greeting == <<Hello>> \o (IF snapshots > 0 THEN <<Snapshot(snapshots)>> ELSE <<>>)

\* The server knows the sockets that are open; what it sends on a dead one is lost.
Publish(message) ==
    wire' = [s \in Sockets |-> IF phase[s] = "open" /\ s = attached THEN Append(wire[s], message) ELSE wire[s]]

-----------------------------------------------------------------------------
(* The cache.                                                              *)

\* Newest first; of an event that is there twice the first place counts.
mergeFeed(current, incoming) ==
    LET all == Reverse(incoming) \o current
        places == {i \in DOMAIN all : \A j \in 1..(i - 1) : all[j] # all[i]}
        Place(k) == CHOOSE i \in places : Cardinality({j \in places : j <= i}) = k
    IN  FirstOf([k \in 1..Cardinality(places) |-> all[Place(k)]], FeedLimit)

applyMessage(m) ==
    CASE m.kind = "hello" ->
           [view EXCEPT !.active = m.active, !.feed = mergeFeed(@, m.items)]
      [] m.kind = "snapshot" -> [view EXCEPT !.snapshot = m.n]
      [] m.kind = "events" -> [view EXCEPT !.feed = mergeFeed(@, m.items)]
      [] m.kind = "alert" -> [view EXCEPT !.active = m.firing]

\* Mutant: whatever arrives last is kept.
LoadedLast(fetched) == fetched
Loaded(fetched) == IF view.snapshot > fetched THEN view.snapshot ELSE fetched

-----------------------------------------------------------------------------
(* The server.                                                             *)

PublishSnapshot ==
    /\ snapshots < MaxSnapshots /\ snapshots' = snapshots + 1
    /\ Publish(Snapshot(snapshots'))
    /\ UNCHANGED <<clientVars, toggles, events, answer, view>>

PublishAlert ==
    /\ toggles < MaxToggles /\ toggles' = toggles + 1
    /\ Publish(Alert(Firing'))
    /\ UNCHANGED <<clientVars, snapshots, events, answer, view>>

\* One tick's sample of the feed, of one event or more.
PublishEvents ==
    /\ \E n \in (events + 1)..MaxEvents :
         events' = n /\ Publish(Events([i \in 1..(n - events) |-> events + i]))
    /\ UNCHANGED <<clientVars, snapshots, toggles, answer, view>>

\* The server answers with its latest snapshot; the answer may travel for long.
Ask ==
    /\ answer = New /\ snapshots > 0 /\ answer' = snapshots
    /\ UNCHANGED <<clientVars, serverVars, wire, view>>

AnswerArrives ==
    /\ answer \notin {New, Done} /\ answer' = Done
    /\ view' = [view EXCEPT !.snapshot = Loaded(answer)]
    /\ UNCHANGED <<clientVars, serverVars, wire>>

-----------------------------------------------------------------------------
(* The client, with the messages on its sockets.                           *)

\* The messages of a socket that was replaced are ignored when they arrive
\* (Hears): they are forgotten when it is replaced.
Rewire == wire' = [s \in DOMAIN phase' |-> IF s \in Sockets /\ s = attached' THEN wire[s] ELSE <<>>]

Page == (start \/ stop \/ reconnectNow) /\ Rewire /\ UNCHANGED <<serverVars, answer, view>>

Timer == (RetryFires \/ HeartbeatFires) /\ Rewire /\ UNCHANGED <<serverVars, answer, view>>

SocketOpens(s) ==
    /\ Opens(s)
    /\ wire' = IF phase'[s] = "open" THEN [wire EXCEPT ![s] = Greeting] ELSE wire
    /\ UNCHANGED <<serverVars, answer, view>>

Receive(s) ==
    /\ wire[s] # <<>>
    /\ Hears(s, Head(wire[s]).kind)
    /\ wire' = [wire EXCEPT ![s] = Tail(@)]
    /\ view' = applyMessage(Head(wire[s]))
    /\ UNCHANGED <<serverVars, answer>>

SocketEnds(s) ==
    /\ Closes(s) \/ Cut(s)
    /\ wire' = [wire EXCEPT ![s] = IF phase'[s] = "closing" THEN @ ELSE <<>>]
    /\ UNCHANGED <<serverVars, answer, view>>

Next ==
    \/ PublishSnapshot \/ PublishAlert \/ PublishEvents \/ Ask \/ AnswerArrives
    \/ Page \/ Timer
    \/ \E s \in Sockets : SocketOpens(s) \/ Receive(s) \/ SocketEnds(s)

Spec == Init /\ [][Next]_dashboardVars

\* Timers fire; the browser ends what it began on the socket in use and delivers
\* what reached it.  Nothing is assumed of the server, the page or a replaced socket.
InUse(A(_)) == attached # 0 /\ A(attached)
CloseEvent(s) == phase[s] = "closing" /\ SocketEnds(s)
FairSpec ==
    /\ Spec
    /\ WF_dashboardVars(RetryFires /\ Timer) /\ WF_dashboardVars(HeartbeatFires /\ Timer)
    /\ WF_dashboardVars(InUse(SocketOpens)) /\ WF_dashboardVars(InUse(Receive))
    /\ WF_dashboardVars(InUse(CloseEvent))

-----------------------------------------------------------------------------

\* Every variable stays in its type; the cache holds nothing that was not published.
TypeOK ==
    /\ ClientTypeOK
    /\ snapshots \in 0..MaxSnapshots /\ toggles \in 0..MaxToggles /\ events \in 0..MaxEvents
    /\ DOMAIN wire = Sockets /\ answer \in {New, Done} \cup 1..snapshots
    /\ view.snapshot \in 0..snapshots /\ view.active \in BOOLEAN
    /\ view.feed \in Seq(1..events) /\ Len(view.feed) <= FeedLimit

\* The page says so, and nothing is left to be received.
Settled ==
    /\ status = "open" /\ attached # 0
    /\ phase[attached] = "open" /\ wire[attached] = <<>>

\* Whatever was missed while the socket was away: once the page says "open" and
\* nothing is left on the socket in use, the alerts shown are those firing, the
\* snapshot is the latest, and the feed begins with the latest event and repeats
\* nothing (liveStore.ts:25-53, hooks.ts:21-32, format.ts:48-59, router.py:39-41).
ViewCurrent ==
    Settled =>
        /\ view.active = Firing
        /\ view.snapshot = snapshots
        /\ events > 0 => view.feed # <<>> /\ Head(view.feed) = events
        /\ \A i, j \in DOMAIN view.feed : i < j => view.feed[i] > view.feed[j]

\* Any close schedules a reconnect, and silence is noticed: once the network
\* stops failing, a client that runs ends up with the truth on its page for good
\* (liveClient.ts:40-52).
Converges ==
    <>[](running => Settled)
=============================================================================
