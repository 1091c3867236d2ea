-------------------------------- MODULE Hub --------------------------------
(***************************************************************************)
(* The WebSocket fan-out: Hub and ClientConnection (realtime/hub.py) with  *)
(* the /ws/live handler that registers a client, runs its sender and       *)
(* removes it (realtime/router.py).                                        *)
(*                                                                         *)
(* A message is its kind and a number: alerts and pings share one sequence *)
(* of reliable messages, each conflated kind has its own.  A hello carries *)
(* the number of the last reliable message its server had published.       *)
(*                                                                         *)
(* Between two awaits the code runs alone; a sender's turn is split at     *)
(* "draining", where its state is already consistent.                      *)
(***************************************************************************)
EXTENDS Integers, Sequences, SequencesExt, FiniteSets

CONSTANTS
    Clients,      \* connections, each made once; a reconnect is another one
    Responsive,   \* the clients whose sends end, by success or timeout, in the runs
                  \* with fairness; nothing is assumed of the others
    MaxClients,   \* settings.ws_max_clients
    MaxPending,   \* settings.ws_max_pending_messages
    MaxReliable,  \* bound: alerts and pings published
    Conflated,    \* the conflated kinds: "snapshot" and "events"
    MaxVersions   \* bound: messages published of each conflated kind

ASSUME HubAssumption ==
    /\ IsFiniteSet(Clients) /\ Responsive \subseteq Clients
    /\ MaxClients \in Nat /\ MaxPending \in Nat \ {0}
    /\ MaxReliable \in Nat
    /\ "snapshot" \in Conflated /\ Conflated \subseteq {"snapshot", "events"}
    /\ MaxVersions \in [Conflated -> Nat]

VARIABLES
    handler,     \* the /ws/live handler of each client
    left,        \* the receiver task saw the client go
    queue,       \* _queue
    latest,      \* _latest, oldest pending kind first
    wake,        \* _wake
    overflowed,  \* _overflowed
    sender,      \* where each sender task is
    wire,        \* the message being sent, if any
    sent,        \* what reached each client
    published,   \* alerts and pings published so far
    version      \* messages published so far of each conflated kind

mailVars == <<queue, latest, wake, overflowed>>
sendVars == <<sender, wire, sent>>
newsVars == <<published, version>>
vars == <<handler, left, mailVars, sendVars, newsVars>>

Message(kind, n) == [kind |-> kind, n |-> n]

Registered == {c \in Clients : handler[c] = "open"}

Init ==
    /\ handler = [c \in Clients |-> "new"] /\ left = [c \in Clients |-> FALSE]
    /\ queue = [c \in Clients |-> <<>>] /\ latest = [c \in Clients |-> <<>>]
    /\ wake = [c \in Clients |-> FALSE] /\ overflowed = [c \in Clients |-> FALSE]
    /\ sender = [c \in Clients |-> "waiting"] /\ wire = [c \in Clients |-> <<>>]
    /\ sent = [c \in Clients |-> <<>>]
    /\ published = 0 /\ version = [k \in Conflated |-> 0]

-----------------------------------------------------------------------------
(* Connecting and leaving.                                                 *)

AtCapacity == Cardinality(Registered) >= MaxClients

Refuse(c) ==
    /\ handler[c] = "new" /\ AtCapacity
    /\ handler' = [handler EXCEPT ![c] = "refused"]
    /\ UNCHANGED <<left, mailVars, sendVars, newsVars>>

\* hello, and the snapshot that every new client starts from, if there is one.
FirstMailWithoutSnapshot == <<>>                                     \* mutant
FirstMail ==
    IF version["snapshot"] > 0 THEN <<Message("snapshot", version["snapshot"])>> ELSE <<>>

Connect(c) ==
    /\ handler[c] = "new" /\ ~AtCapacity
    /\ handler' = [handler EXCEPT ![c] = "open"]
    /\ queue' = [queue EXCEPT ![c] = <<Message("hello", published)>>]
    /\ latest' = [latest EXCEPT ![c] = FirstMail]
    /\ wake' = [wake EXCEPT ![c] = TRUE]
    /\ UNCHANGED <<left, overflowed, sendVars, newsVars>>

Leave(c) ==
    /\ handler[c] = "open" /\ ~left[c]
    /\ left' = [left EXCEPT ![c] = TRUE]
    /\ UNCHANGED <<handler, mailVars, sendVars, newsVars>>

\* Whichever task ends first ends the other; the mailbox goes with the client.
SenderEnded(c) == sender[c] \in {"overflow", "failed"}               \* mutant
EitherEnded(c) == left[c] \/ sender[c] \in {"overflow", "failed"}

Unregister(c) ==
    /\ handler[c] = "open" /\ EitherEnded(c)
    /\ handler' = [handler EXCEPT ![c] = "gone"]
    /\ queue' = [queue EXCEPT ![c] = <<>>] /\ latest' = [latest EXCEPT ![c] = <<>>]
    /\ wake' = [wake EXCEPT ![c] = FALSE] /\ overflowed' = [overflowed EXCEPT ![c] = FALSE]
    /\ sender' = [sender EXCEPT ![c] = "waiting"] /\ wire' = [wire EXCEPT ![c] = <<>>]
    /\ UNCHANGED <<left, sent, newsVars>>

-----------------------------------------------------------------------------
(* Publishing: every registered client's mailbox, without waiting.         *)

IsFullPlusOne(c) == Len(queue[c]) > MaxPending                       \* mutant
IsFull(c) == Len(queue[c]) >= MaxPending

Publish ==
    /\ published < MaxReliable
    /\ published' = published + 1
    /\ queue' = [c \in Clients |->
          IF c \in Registered /\ ~IsFull(c)
          THEN Append(queue[c], Message("reliable", published + 1)) ELSE queue[c]]
    /\ overflowed' = [c \in Clients |-> overflowed[c] \/ (c \in Registered /\ IsFull(c))]
    /\ wake' = [c \in Clients |-> wake[c] \/ c \in Registered]
    /\ UNCHANGED <<handler, left, latest, sendVars, version>>

\* A pending message of the same kind is replaced in its place.
KeepPending(slots, message) ==                                       \* mutant
    IF \E i \in DOMAIN slots : slots[i].kind = message.kind
    THEN slots ELSE Append(slots, message)
Replace(slots, message) ==
    IF \E i \in DOMAIN slots : slots[i].kind = message.kind
    THEN [i \in DOMAIN slots |-> IF slots[i].kind = message.kind THEN message ELSE slots[i]]
    ELSE Append(slots, message)

PublishLatest(kind) ==
    /\ version[kind] < MaxVersions[kind]
    /\ version' = [version EXCEPT ![kind] = @ + 1]
    /\ latest' = [c \in Clients |->
          IF c \in Registered THEN Replace(latest[c], Message(kind, version[kind] + 1))
          ELSE latest[c]]
    /\ wake' = [c \in Clients |-> wake[c] \/ c \in Registered]
    /\ UNCHANGED <<handler, left, queue, overflowed, sendVars, published>>

-----------------------------------------------------------------------------
(* The sender task of one client.                                          *)

WakeUp(c) ==
    /\ handler[c] = "open" /\ sender[c] = "waiting" /\ wake[c]
    /\ wake' = [wake EXCEPT ![c] = FALSE]
    /\ sender' = [sender EXCEPT ![c] = "draining"]
    /\ UNCHANGED <<handler, left, queue, latest, overflowed, wire, sent, newsVars>>

NoticesOverflowLate(c) == overflowed[c] /\ queue[c] = <<>>           \* mutant
NoticesOverflow(c) == overflowed[c]

GiveUp(c) ==
    /\ sender[c] = "draining" /\ NoticesOverflow(c)
    /\ sender' = [sender EXCEPT ![c] = "overflow"]
    /\ UNCHANGED <<handler, left, mailVars, wire, sent, newsVars>>

StartSend(c) ==
    /\ sender[c] = "draining" /\ ~NoticesOverflow(c)
    /\ \/ /\ queue[c] # <<>>
          /\ wire' = [wire EXCEPT ![c] = <<Head(queue[c])>>]
          /\ queue' = [queue EXCEPT ![c] = Tail(@)]
          /\ UNCHANGED latest
       \/ /\ queue[c] = <<>> /\ latest[c] # <<>>
          /\ wire' = [wire EXCEPT ![c] = <<Head(latest[c])>>]
          /\ latest' = [latest EXCEPT ![c] = Tail(@)]
          /\ UNCHANGED queue
    /\ sender' = [sender EXCEPT ![c] = "sending"]
    /\ UNCHANGED <<handler, left, wake, overflowed, sent, newsVars>>

GoIdle(c) ==
    /\ sender[c] = "draining" /\ ~NoticesOverflow(c)
    /\ queue[c] = <<>> /\ latest[c] = <<>>
    /\ sender' = [sender EXCEPT ![c] = "waiting"]
    /\ UNCHANGED <<handler, left, mailVars, wire, sent, newsVars>>

SendCompletes(c) ==
    /\ sender[c] = "sending"
    /\ sent' = [sent EXCEPT ![c] = @ \o wire[c]]
    /\ wire' = [wire EXCEPT ![c] = <<>>]
    /\ sender' = [sender EXCEPT ![c] = "draining"]
    /\ UNCHANGED <<handler, left, mailVars, newsVars>>

\* The timeout, or a transport error.  The text may have got through.
SendFails(c) ==
    /\ sender[c] = "sending"
    /\ \/ sent' = [sent EXCEPT ![c] = @ \o wire[c]]
       \/ UNCHANGED sent
    /\ wire' = [wire EXCEPT ![c] = <<>>]
    /\ sender' = [sender EXCEPT ![c] = "failed"]
    /\ UNCHANGED <<handler, left, mailVars, newsVars>>

-----------------------------------------------------------------------------

SenderStep(c) == \/ WakeUp(c) \/ GiveUp(c) \/ StartSend(c) \/ GoIdle(c)
                 \/ SendCompletes(c) \/ SendFails(c)

Next ==
    \/ Publish \/ \E k \in Conflated : PublishLatest(k)
    \/ \E c \in Clients :
          Refuse(c) \/ Connect(c) \/ Leave(c) \/ Unregister(c) \/ SenderStep(c)

Spec == Init /\ [][Next]_vars

\* The event loop runs the tasks of a responsive client and its sends end, at
\* the latest with their timeout.  Of the other clients nothing is assumed.
Fairness == \A c \in Responsive : WF_vars(SenderStep(c)) /\ WF_vars(Unregister(c))
FairSpec == Spec /\ Fairness
=============================================================================
