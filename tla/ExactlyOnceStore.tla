-------------------------- MODULE ExactlyOnceStore --------------------------
(***************************************************************************)
(* What the ingestion API promises to a producer, whatever happens to      *)
(* batches, statements, retries and processes underneath: an event enters  *)
(* the store at most once, enters the aggregates in the same instant, and  *)
(* a request is acknowledged only when everything it needs is stored.      *)
(***************************************************************************)
EXTENDS Naturals

CONSTANTS
    Requests,  \* HTTP requests
    Events,    \* event identities
    Needs      \* Needs[r], a subset of Events: what r must find stored to be acknowledged

VARIABLES
    stored,    \* events in the store
    counted,   \* counted[e]: how many times the aggregates include e
    acked      \* requests answered 202

storeVars == <<stored, counted, acked>>

Init ==
    /\ stored = {}
    /\ counted = [e \in Events |-> 0]
    /\ acked = {}

Store(fresh) ==
    /\ fresh # {}
    /\ stored \cap fresh = {}
    /\ stored' = stored \cup fresh
    /\ counted' = [e \in Events |-> counted[e] + IF e \in fresh THEN 1 ELSE 0]
    /\ UNCHANGED acked

Acknowledge(r) ==
    /\ Needs[r] \subseteq stored
    /\ acked' = acked \cup {r}
    /\ UNCHANGED <<stored, counted>>

Next ==
    \/ \E fresh \in SUBSET Events : Store(fresh)
    \/ \E r \in Requests : Acknowledge(r)

Spec == Init /\ [][Next]_storeVars
=============================================================================
