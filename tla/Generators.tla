------------------------------- MODULE Generators -------------------------------
(***************************************************************************)
(* scenario/generators.py: the value of a signal as a pure function of the *)
(* elapsed time.  Times are whole seconds, values the whole part of what    *)
(* the generator computes.  The sine is left out: the profiles drive with  *)
(* it only what nobody compares.                                            *)
(***************************************************************************)
EXTENDS Integers, Sequences, SequencesExt

Constant(value) == [type |-> "constant", value |-> value]
Ramp(from, to, over) == [type |-> "ramp", from |-> from, to |-> to, over |-> over]
Stepped(values, interval) == [type |-> "stepped", values |-> values, interval |-> interval]
Sequence(steps) == [type |-> "sequence", steps |-> steps]        \* of <<value, duration>>
Timeline(points) == [type |-> "timeline", points |-> points]     \* of <<at, value>>

(* The fields' constraints, and TimelineSignal.points_ascend. *)
GeneratorOK(g) ==
    CASE g.type = "constant" -> TRUE
      [] g.type = "ramp"     -> g.over > 0
      [] g.type = "stepped"  -> g.values # << >> /\ g.interval > 0
      [] g.type = "sequence" -> g.steps # << >> /\ \A s \in Range(g.steps) : s[2] > 0
      [] g.type = "timeline" -> /\ g.points # << >>
                                /\ \A i, j \in DOMAIN g.points : i < j => g.points[i][1] <= g.points[j][1]
                                /\ \A p \in Range(g.points) : p[1] >= 0

RampAt(g, t) ==
    IF t <= 0 THEN g.from
    ELSE IF t >= g.over THEN g.to ELSE (g.from * g.over + (g.to - g.from) * t) \div g.over

SteppedAt(g, t) ==
    LET step == IF t > 0 THEN t \div g.interval ELSE 0 IN g.values[(step % Len(g.values)) + 1]

(* When step i of a sequence is over. *)
EndOf(g, i) == FoldSeq(LAMBDA s, sum : sum + s[2], 0, SubSeq(g.steps, 1, i))

SequenceAt(g, t) ==
    LET running == {i \in DOMAIN g.steps : t < EndOf(g, i)}
    IN  IF running = {} THEN Last(g.steps)[1]
        ELSE g.steps[CHOOSE i \in running : \A j \in running : i <= j][1]

(* Mutant of TimelineAt: on the way to the next point, the value is between the two. *)
TimelineInterpolates(g, t) ==
    LET arrived == Len(SelectSeq(g.points, LAMBDA p : p[1] <= t))
        p == g.points[arrived]
        q == g.points[arrived + 1]
    IN  IF arrived \in 1..Len(g.points) - 1
        THEN p[2] + ((q[2] - p[2]) * (t - p[1])) \div (q[1] - p[1])
        ELSE g.points[IF arrived = 0 THEN 1 ELSE arrived][2]

(* The points ascend, so those that have arrived come first. *)
TimelineAt(g, t) ==
    LET arrived == Len(SelectSeq(g.points, LAMBDA p : p[1] <= t))
    IN  g.points[IF arrived = 0 THEN 1 ELSE arrived][2]

(* value_at. *)
ValueAt(g, t) ==
    CASE g.type = "constant" -> g.value
      [] g.type = "ramp"     -> RampAt(g, t)
      [] g.type = "stepped"  -> SteppedAt(g, t)
      [] g.type = "sequence" -> SequenceAt(g, t)
      [] g.type = "timeline" -> TimelineAt(g, t)
=============================================================================
