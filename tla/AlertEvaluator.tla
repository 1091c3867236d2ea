--------------------------- MODULE AlertEvaluator ---------------------------
(***************************************************************************)
(* The AlertEvaluator (alerts/evaluator.py) and its RuleTrackers           *)
(* (alerts/rules.py), in one or several API processes that share the       *)
(* alerts table.                                                           *)
(*                                                                         *)
(* What a rule says of the numbers it read is a verdict; the arithmetic    *)
(* behind it is left open.  A read of the inputs that fails changes        *)
(* nothing and is left out.  Of the alerts table only the state of the     *)
(* last row of each rule is kept: the partial unique index allows one      *)
(* firing row per rule, and only that row is ever updated.                 *)
(***************************************************************************)
EXTENDS Integers, Sequences, SequencesExt, FiniteSets

CONSTANTS
    Instances,     \* API processes
    RuleList,      \* the rules, in the order they are evaluated
    Verdicts,      \* what the rules can say in this instance of the model
    FireAfter,     \* settings.alert_fire_after_evaluations
    ResolveAfter,  \* settings.alert_resolve_after_evaluations
    MaxFaults,     \* bound: statements that fail
    MaxCrashes     \* bound: processes that end

\* recovered: under the resolve threshold; breached: at or over the firing
\* threshold; between: neither; no_data: value is None.
ASSUME AlertAssumption ==
    /\ IsFiniteSet(Instances) /\ Instances # {}
    /\ RuleList \in Seq(ToSet(RuleList)) /\ IsInjective(RuleList)
    /\ Verdicts \subseteq {"no_data", "breached", "between", "recovered"}
    /\ FireAfter \in Nat \ {0} /\ ResolveAfter \in Nat \ {0}
    /\ MaxFaults \in Nat /\ MaxCrashes \in Nat

Rules == ToSet(RuleList)

VARIABLES
    tracker,  \* _trackers: firing and streak of each rule
    active,   \* _active: the rules with an alert in memory
    stage,    \* what each evaluator awaits; "down" when its process is
    turn,     \* position in RuleList
    changed,  \* alerts whose state changed in this evaluation
    told,     \* what a client connected since the start was told is firing
    db,       \* state of the last alert of each rule
    recent,   \* the last verdicts of each rule, newest last
    faults,   \* failed statements so far
    crashed   \* the processes that have ended once

memVars == <<tracker, active, stage, turn, changed>>
vars == <<memVars, told, db, recent, faults, crashed>>

Fresh == [firing |-> FALSE, streak |-> 0]

\* On an empty table; an instance that is down is started later.
Init ==
    /\ tracker = [i \in Instances |-> [r \in Rules |-> Fresh]]
    /\ active = [i \in Instances |-> {}]
    /\ stage \in [Instances -> {"idle", "down"}] /\ turn = [i \in Instances |-> 1]
    /\ changed = [i \in Instances |-> <<>>]
    /\ told = [i \in Instances |-> {}]
    /\ db = [r \in Rules |-> "none"]
    /\ recent = [i \in Instances |-> [r \in Rules |-> <<>>]]
    /\ faults = 0 /\ crashed = {}

-----------------------------------------------------------------------------
(* RuleTracker.step().                                                     *)

Wanted(t) == IF t.firing THEN "recovered" ELSE "breached"
Needed(t) == IF t.firing THEN ResolveAfter ELSE FireAfter

StreakThroughGaps(t, verdict) ==                                     \* mutant
    IF verdict = Wanted(t) THEN t.streak + 1 ELSE IF verdict = "no_data" THEN t.streak ELSE 0
Streak(t, verdict) == IF verdict = Wanted(t) THEN t.streak + 1 ELSE 0

Flips(t, verdict) == Streak(t, verdict) >= Needed(t)

StepKeepingStreak(t, verdict) ==                                     \* mutant
    IF Flips(t, verdict) THEN [firing |-> ~t.firing, streak |-> Streak(t, verdict)]
    ELSE [firing |-> t.firing, streak |-> Streak(t, verdict)]
Step(t, verdict) ==
    IF Flips(t, verdict) THEN [firing |-> ~t.firing, streak |-> 0]
    ELSE [firing |-> t.firing, streak |-> Streak(t, verdict)]

-----------------------------------------------------------------------------
(* evaluate_once().                                                        *)

Begin(i) ==
    /\ stage[i] = "idle"
    /\ stage' = [stage EXCEPT ![i] = "rule"]
    /\ turn' = [turn EXCEPT ![i] = 1]
    /\ changed' = [changed EXCEPT ![i] = <<>>]
    /\ UNCHANGED <<tracker, active, told, db, recent, faults, crashed>>

InTurn(i) == RuleList[turn[i]]

History == IF FireAfter > ResolveAfter THEN FireAfter ELSE ResolveAfter
Remember(verdicts, verdict) ==
    LET all == Append(verdicts, verdict)
    IN  IF Len(all) > History THEN Tail(all) ELSE all

\* The tracker takes its new state before the statement that records it.
Judge(i) ==
    /\ stage[i] = "rule" /\ turn[i] <= Len(RuleList)
    /\ \E verdict \in Verdicts :
          LET r == InTurn(i)
              t == tracker[i][r]
          IN  /\ tracker' = [tracker EXCEPT ![i][r] = Step(t, verdict)]
              /\ recent' = [recent EXCEPT ![i][r] = Remember(@, verdict)]
              /\ \/ /\ ~Flips(t, verdict)
                    /\ turn' = [turn EXCEPT ![i] = @ + 1]
                    /\ UNCHANGED stage
                 \/ /\ Flips(t, verdict)
                    /\ stage' = [stage EXCEPT ![i] = IF t.firing THEN "resolve" ELSE "fire"]
                    /\ UNCHANGED turn
    /\ UNCHANGED <<active, changed, told, db, faults, crashed>>

NextRule(i) ==
    /\ stage' = [stage EXCEPT ![i] = "rule"]
    /\ turn' = [turn EXCEPT ![i] = @ + 1]

Report(i, r, state) == changed' = [changed EXCEPT ![i] = Append(@, <<r, state>>)]

\* INSERT ... ON CONFLICT DO NOTHING.
Fire(i) ==
    /\ stage[i] = "fire"
    /\ LET r == InTurn(i)
       IN  \/ /\ db[r] # "firing"
              /\ db' = [db EXCEPT ![r] = "firing"]
              /\ active' = [active EXCEPT ![i] = @ \cup {r}]
              /\ Report(i, r, "firing")
              /\ NextRule(i)
           \/ /\ db[r] = "firing"
              /\ stage' = [stage EXCEPT ![i] = "select"]
              /\ UNCHANGED <<db, active, changed, turn>>
    /\ UNCHANGED <<tracker, told, recent, faults, crashed>>

\* Another instance has opened it, and may have resolved it since.
Select(i) ==
    /\ stage[i] = "select"
    /\ LET r == InTurn(i)
       IN  \/ /\ db[r] = "firing"
              /\ active' = [active EXCEPT ![i] = @ \cup {r}]
              /\ Report(i, r, "firing")
           \/ /\ db[r] # "firing"
              /\ UNCHANGED <<active, changed>>
    /\ NextRule(i)
    /\ UNCHANGED <<tracker, told, db, recent, faults, crashed>>

ForgetIfUpdated(i, r) == active[i] \ {x \in {r} : db[x] = "firing"}  \* mutant
Forget(i, r) == active[i] \ {r}

Resolve(i) ==
    /\ stage[i] = "resolve"
    /\ LET r == InTurn(i)
       IN  /\ active' = [active EXCEPT ![i] = Forget(i, r)]
           /\ \/ /\ db[r] = "firing"
                 /\ db' = [db EXCEPT ![r] = "resolved"]
                 /\ Report(i, r, "resolved")
              \/ /\ db[r] # "firing"
                 /\ UNCHANGED <<db, changed>>
    /\ NextRule(i)
    /\ UNCHANGED <<tracker, told, recent, faults, crashed>>

Pushed(i) == ToSet(changed[i])

Finish(i) ==
    /\ stage[i] = "rule" /\ turn[i] > Len(RuleList)
    /\ told' = [told EXCEPT ![i] =
          (@ \cup {r \in Rules : <<r, "firing">> \in Pushed(i)})
              \ {r \in Rules : <<r, "resolved">> \in Pushed(i)}]
    /\ stage' = [stage EXCEPT ![i] = "idle"]
    /\ UNCHANGED <<tracker, active, turn, changed, db, recent, faults, crashed>>

\* A statement that was sent may be carried out although its answer is lost.
Settle(i) ==
    \/ UNCHANGED db
    \/ stage[i] = "fire" /\ db' = [db EXCEPT ![InTurn(i)] = "firing"]
    \/ /\ stage[i] = "resolve" /\ db[InTurn(i)] = "firing"
       /\ db' = [db EXCEPT ![InTurn(i)] = "resolved"]

\* The exception ends the evaluation: the rules that follow are not judged and
\* nothing is pushed.
StatementFails(i) ==
    /\ stage[i] \in {"fire", "select", "resolve"}
    /\ faults < MaxFaults
    /\ faults' = faults + 1
    /\ Settle(i)
    /\ stage' = [stage EXCEPT ![i] = "idle"]
    /\ UNCHANGED <<tracker, active, turn, changed, told, recent, crashed>>

-----------------------------------------------------------------------------
(* The process ends at any await, stop() included, and starts again.       *)

End(i) ==
    /\ stage[i] # "down"
    /\ i \notin crashed /\ Cardinality(crashed) < MaxCrashes
    /\ crashed' = crashed \cup {i}
    /\ Settle(i)
    /\ tracker' = [tracker EXCEPT ![i] = [r \in Rules |-> Fresh]]
    /\ active' = [active EXCEPT ![i] = {}] /\ told' = [told EXCEPT ![i] = {}]
    /\ changed' = [changed EXCEPT ![i] = <<>>] /\ turn' = [turn EXCEPT ![i] = 1]
    /\ recent' = [recent EXCEPT ![i] = [r \in Rules |-> <<>>]]
    /\ stage' = [stage EXCEPT ![i] = "down"]
    /\ UNCHANGED faults

FiringInDb == {r \in Rules : db[r] = "firing"}

\* Mutant: load_active() is forgotten.
StartEmpty(i) ==
    /\ stage[i] = "down"
    /\ stage' = [stage EXCEPT ![i] = "idle"]
    /\ UNCHANGED <<tracker, active, turn, changed, told, db, recent, faults, crashed>>

\* load_active(): clients reconnect and hear of the open alerts in hello.
Start(i) ==
    /\ stage[i] = "down"
    /\ tracker' = [tracker EXCEPT ![i] =
          [r \in Rules |-> [Fresh EXCEPT !.firing = (r \in FiringInDb)]]]
    /\ active' = [active EXCEPT ![i] = FiringInDb] /\ told' = [told EXCEPT ![i] = FiringInDb]
    /\ stage' = [stage EXCEPT ![i] = "idle"]
    /\ UNCHANGED <<turn, changed, db, recent, faults, crashed>>

-----------------------------------------------------------------------------

EvaluatorStep(i) == \/ Begin(i) \/ Judge(i) \/ Fire(i) \/ Select(i) \/ Resolve(i)
                    \/ Finish(i) \/ Start(i)

Next == \E i \in Instances : EvaluatorStep(i) \/ StatementFails(i) \/ End(i)

Spec == Init /\ [][Next]_vars

\* The timer fires, the database answers and a dead process is started again.
Fairness == \A i \in Instances : WF_vars(EvaluatorStep(i))
FairSpec == Spec /\ Fairness
=============================================================================
