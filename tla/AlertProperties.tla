-------------------------- MODULE AlertProperties --------------------------
(***************************************************************************)
(* What operators may rely on: alerts do not flap, they follow the         *)
(* verdicts, and memory, database and clients agree about them.            *)
(***************************************************************************)
EXTENDS AlertEvaluator

\* Every variable stays in its type.
TypeOK ==
    /\ tracker \in [Instances -> [Rules -> [firing : BOOLEAN, streak : 0..(History - 1)]]]
    /\ active \in [Instances -> SUBSET Rules] /\ told \in [Instances -> SUBSET Rules]
    /\ stage \in [Instances -> {"idle", "rule", "fire", "select", "resolve", "down"}]
    /\ turn \in [Instances -> 1..(Len(RuleList) + 1)]
    /\ changed \in [Instances -> Seq(Rules \X {"firing", "resolved"})]
    /\ db \in [Rules -> {"none", "firing", "resolved"}]
    /\ recent \in [Instances -> [Rules -> Seq(Verdicts)]]
    /\ faults \in 0..MaxFaults /\ crashed \subseteq Instances /\ Cardinality(crashed) <= MaxCrashes

-----------------------------------------------------------------------------

\* The last n verdicts were all the same.
Lasted(verdicts, n, verdict) ==
    Len(verdicts) >= n /\ \A k \in (Len(verdicts) - n + 1)..Len(verdicts) : verdicts[k] = verdict

\* "Firing/resolved state of one rule, changed only after N consecutive
\* evaluations" (rules.py:162): a living process changes its mind only after as
\* many breaches, or recoveries, in a row, none of them separated by a verdict
\* without data (rules.py:169-181).
NoFlapping ==
    [][\A i \in Instances : \A r \in Rules :
          tracker'[i][r].firing # tracker[i][r].firing =>
              \/ stage[i] = "down" \/ stage'[i] = "down"
              \/ /\ tracker'[i][r].firing
                 /\ Lasted(recent'[i][r], FireAfter, "breached")
              \/ /\ ~tracker'[i][r].firing
                 /\ Lasted(recent'[i][r], ResolveAfter, "recovered")]_vars

\* Nobody else has ever evaluated.
Alone(i) == \A j \in Instances \ {i} : stage[j] = "down" /\ j \notin crashed

\* While no statement fails, memory, table and clients agree between evaluations,
\* also when the process ended in the middle of one.  Alone on the table, the
\* tracker, the alerts in memory and what clients were told are what is firing in it;
\* with others, an alert is open when all consider it firing and closed, and in
\* nobody's memory, when none does (evaluator.py:82-92, 134-166).
AlertsAgree ==
    faults = 0 =>
        /\ \A i \in Instances : stage[i] = "idle" /\ Alone(i) =>
              /\ {r \in Rules : tracker[i][r].firing} = FiringInDb
              /\ active[i] = FiringInDb /\ told[i] = FiringInDb
        /\ (\A i \in Instances : stage[i] = "idle") =>
              \A r \in Rules :
                  /\ (\A i \in Instances : tracker[i][r].firing) => r \in FiringInDb
                  /\ (\A i \in Instances : ~tracker[i][r].firing) =>
                        r \notin FiringInDb /\ \A i \in Instances : r \notin active[i]

-----------------------------------------------------------------------------

Always(r, verdict) ==
    \A i \in Instances : Len(recent[i][r]) > 0 /\ Last(recent[i][r]) = verdict

Opened(r) == db[r] = "firing"
Closed(r) == db[r] # "firing" /\ \A i \in Instances : r \notin active[i]

\* A rule that stays breached has its alert opened, and it stays open, whichever
\* instance opens it and whoever ends; "will retry" (evaluator.py:105) when a
\* statement fails.
BreachOpens == \A r \in Rules : <>[]Always(r, "breached") => <>[]Opened(r)

\* As long as no statement fails the table follows the verdicts of all instances: a
\* breach that lasts opens the alert for good, a recovery that lasts closes it, and no
\* instance keeps it for the hello of new clients (evaluator.py:134-162).
AlertsFollow ==
    \A r \in Rules :
        /\ <>[](Always(r, "breached") /\ faults = 0) => <>[]Opened(r)
        /\ <>[](Always(r, "recovered") /\ faults = 0) => <>[]Closed(r)
=============================================================================
