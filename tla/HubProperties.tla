--------------------------- MODULE HubProperties ---------------------------
(***************************************************************************)
(* What the fan-out promises to its clients and to the server's memory.    *)
(***************************************************************************)
EXTENDS Hub

Messages == [kind : {"hello", "reliable"} \cup Conflated, n : Nat]

\* Every variable stays in its type, and memory in its bounds: "one message per
\* conflated kind plus the queue" for each client (hub.py:16), however slow it is,
\* and so many clients with a mailbox (hub.py:94).
TypeOK ==
    /\ handler \in [Clients -> {"new", "refused", "open", "gone"}]
    /\ left \in [Clients -> BOOLEAN]
    /\ queue \in [Clients -> Seq(Messages)] /\ latest \in [Clients -> Seq(Messages)]
    /\ wake \in [Clients -> BOOLEAN] /\ overflowed \in [Clients -> BOOLEAN]
    /\ sender \in [Clients -> {"waiting", "draining", "sending", "overflow", "failed"}]
    /\ wire \in [Clients -> Seq(Messages)] /\ sent \in [Clients -> Seq(Messages)]
    /\ published \in 0..MaxReliable /\ version \in [Conflated -> Nat]
    /\ Cardinality(Registered) <= MaxClients
    /\ \A c \in Clients :
          /\ Len(queue[c]) <= MaxPending
          /\ \A i, j \in DOMAIN latest[c] : latest[c][i].kind = latest[c][j].kind => i = j

-----------------------------------------------------------------------------

\* Where the reliable messages are in a log; all kinds of them in one sequence, which
\* the hello begins and no gap interrupts; and the number it got to.
Places(log) == {i \in DOMAIN log : log[i].kind \in {"hello", "reliable"}}
Gapless(log) ==
    /\ \A i \in Places(log) : log[i].kind = "hello" <=> \A j \in Places(log) : i <= j
    /\ \A i, j \in Places(log) :
          i < j /\ (\A k \in Places(log) : k <= i \/ j <= k) => log[j].n = log[i].n + 1
UpTo(log, n) == \E i \in Places(log) : log[i].n = n /\ \A j \in Places(log) : j <= i

\* The messages of a conflated kind are newer and newer.
Rising(log) ==
    \A i, j \in DOMAIN log :
        i < j /\ log[i].kind = log[j].kind /\ log[i].kind \in Conflated => log[i].n < log[j].n
EndsWith(log, message) ==
    \E i \in DOMAIN log : log[i] = message /\ \A j \in DOMAIN log : i < j => log[j].kind # message.kind

\* A sender that failed sends nothing more.
Upcoming(c, box) == IF sender[c] = "failed" THEN <<>> ELSE wire[c] \o box[c]

\* What a client was sent or will be sent next is hello and then every alert
\* and ping published since, none missing, repeated or out of order, and the
\* mailbox of a client that did not overflow is up to date: an overflow ends
\* the connection before the gap it made can be seen (hub.py:10-12, 45-51,
\* 66-69, router.py:39).
ReliableGapless ==
    \A c \in Clients : handler[c] \in {"open", "gone"} =>
        LET log == sent[c] \o Upcoming(c, queue)
        IN  /\ Gapless(log)
            /\ handler[c] = "open" /\ ~overflowed[c] /\ sender[c] # "failed" =>
                  UpTo(log, published)

\* A client may skip snapshots but never sees them go backwards, and the newest
\* one is never lost: it was sent, is on the wire or waits in the slot
\* (hub.py:7-9, 53-58, 70-73, router.py:40-41).
SnapshotsConverge ==
    \A c \in Clients :
        LET log == sent[c] \o Upcoming(c, latest)
        IN  /\ Rising(log)
            /\ handler[c] = "open" /\ sender[c] # "failed" /\ version["snapshot"] > 0 =>
                  EndsWith(log, Message("snapshot", version["snapshot"]))

-----------------------------------------------------------------------------

Seen(c) == {sent[c][i].n : i \in {j \in DOMAIN sent[c] : sent[c][j].kind = "snapshot"}}

\* Each snapshot, or a newer one, reaches every responsive client or ends its
\* connection, whatever the other clients do with theirs: a client that stalls
\* for ever holds up nobody else (hub.py:3-4, router.py:40-49).
SnapshotArrives ==
    \A c \in Responsive : \A v \in 1..MaxVersions["snapshot"] :
        (handler[c] = "open" /\ version["snapshot"] = v)
            ~> (handler[c] = "gone" \/ \E n \in Seen(c) : n >= v)

\* A client that overflowed, or is gone, is noticed and leaves the hub, also
\* while its sender waits or sends (hub.py:10-12, 66-67, router.py:43-48, 60-61).
DoomedClientsLeave ==
    \A c \in Responsive : (overflowed[c] \/ left[c]) ~> handler[c] = "gone"
=============================================================================
