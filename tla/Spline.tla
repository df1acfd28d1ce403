------------------------------- MODULE Spline -------------------------------
(***************************************************************************)
(* The cubic splines that response lists are interpolated with:            *)
(* spline_interpolate of evalresp/spline.c, and spline_cubic_set, penta    *)
(* and spline_cubic_val of spline/spline.c.                                *)
(*                                                                         *)
(* Arrays begin with 1.  Knots are integers, as they are compared.          *)
(***************************************************************************)
EXTENDS Question, Field

LOCAL INSTANCE SequencesExt
LOCAL INSTANCE FiniteSetsExt

CONSTANTS KnotLists,   \* where values are given
          ValueLists,  \* the values given
          EndKinds,    \* conditions at the two ends
          EndValues    \* values of derivatives there

Slope(t, y, i) == Over(y[i + 1] - y[i], t[i + 1] - t[i])

Equation(a1, a2, a3, a4, a5, b) == [a1 |-> a1, a2 |-> a2, a3 |-> a3, a4 |-> a4, a5 |-> a5, b |-> b]

-----------------------------------------------------------------------------
(* The equations of spline_cubic_set: at the two ends as they are asked for,*)
(* and one between them for every knot.                                     *)
FirstEquation(t, y, condition, value) ==
  CASE condition = 0 -> Equation(0, 0, 1, -1, 0, 0)
    [] condition = 1 -> Equation(0, 0, Over(t[2] - t[1], 3), Over(t[2] - t[1], 6), 0,
                                 Minus(Slope(t, y, 1), value))
    [] condition = 2 -> Equation(0, 0, 1, 0, 0, value)
    [] condition = 3 -> Equation(0, 0, t[2] - t[3], t[3] - t[1], t[1] - t[2], 0)

(* Mutant of Between: the middle coefficient is that of one interval.       *)
BetweenOneInterval(t, y, i) ==
  Equation(0, Over(t[i + 1] - t[i], 6), Over(t[i + 1] - t[i], 3), Over(t[i] - t[i - 1], 6), 0,
           Minus(Slope(t, y, i), Slope(t, y, i - 1)))

Between(t, y, i) ==
  Equation(0, Over(t[i + 1] - t[i], 6), Over(t[i + 1] - t[i - 1], 3), Over(t[i] - t[i - 1], 6), 0,
           Minus(Slope(t, y, i), Slope(t, y, i - 1)))

(* Condition 3 at the end is looked for in that of the beginning.           *)
LastEquation(t, y, condition, value) ==
  LET n == Len(t)
      h == t[n] - t[n - 1]
  IN  CASE condition = 0 -> Equation(0, -1, 1, 0, 0, 0)
        [] condition = 1 -> Equation(0, Over(h, 6), Over(h, 3), 0, 0, Minus(value, Slope(t, y, n - 1)))
        [] condition = 2 -> Equation(0, 0, 1, 0, 0, value)
        [] condition = 3 -> Equation(-h, t[n] - t[n - 2], t[n - 2] - t[n - 1], 0, 0, 0)

Equations(t, y, ends, values) ==
  LET n == Len(t)
      between == [i \in 1..(n - 2) |-> Between(t, y, i + 1)]
  IN  <<FirstEquation(t, y, ends[1], values[1])>> \o between \o <<LastEquation(t, y, ends[2], values[2])>>

(* An equation less what the one above it, or the one above that, takes out *)
(* of it.                                                                   *)
LessAbove(row, above) ==
  LET x == Over(row.a2, above.a3)
  IN  [row EXCEPT !.a3 = Minus(@, x * above.a4), !.a4 = Minus(@, x * above.a5), !.b = Minus(@, x * above.b)]

LessSecondAbove(row, above) ==
  LET x == Over(row.a1, above.a3)
  IN  [row EXCEPT !.a2 = Minus(@, x * above.a4), !.a3 = Minus(@, x * above.a5), !.b = Minus(@, x * above.b)]

Eliminate(rows, i) ==
  LET once == ReplaceAt(rows, i, LessAbove(rows[i], rows[i - 1]))
  IN  IF i = Len(rows) THEN once ELSE ReplaceAt(once, i + 1, LessSecondAbove(rows[i + 1], rows[i - 1]))

Eliminated(rows) == FoldLeft(Eliminate, rows, [k \in 1..(Len(rows) - 1) |-> k + 1])

Solved(rows) ==
  LET solve(row, x) ==
        LET next == IF x # <<>> THEN row.a4 * x[1] ELSE 0
            second == IF Len(x) > 1 THEN row.a5 * x[2] ELSE 0
        IN  <<Over(row.b - next - second, row.a3)>> \o x
  IN  FoldRight(solve, rows, <<>>)

penta(rows) == Solved(Eliminated(rows))

Increasing(t) == \A i \in 2..Len(t) : t[i - 1] < t[i]

(* Condition 3 asks for knots that must be there, at both ends for four.    *)
Enough(t, ends) ==
  /\ 3 \in {ends[1], ends[2]} => Len(t) > 2
  /\ ends = <<3, 3>> => Len(t) > 3

(* spline_cubic_set ends the program unless it is Settable.                 *)
Settable(t, ends) ==
  Len(t) > 1 /\ Increasing(t) /\ (ends[2] = 3 => ends[1] = 3)

SplineCubicSet(t, y, ends, values) ==
  IF Len(t) = 2 /\ ends = <<0, 0>> THEN <<0, 0>>
  ELSE penta(Equations(t, y, ends, values))

-----------------------------------------------------------------------------
(* spline_cubic_val: the interval of a place, and the curve there.          *)
Interval(t, tval) == Min({i \in 1..(Len(t) - 1) : tval < t[i + 1]} \cup {Len(t) - 1})

Curve(t, y, ypp, i, tval) ==
  LET h == t[i + 1] - t[i]
      dt == tval - t[i]
      bend == Minus(ypp[i + 1], ypp[i])
      b == Minus(Slope(t, y, i), h * Plus(Over(ypp[i + 1], 6), Over(ypp[i], 3)))
  IN  [val |-> Plus(y[i], dt * Plus(b, dt * Plus(Over(ypp[i], 2), dt * Over(bend, 6 * h)))),
       pval |-> Plus(b, dt * Plus(ypp[i], dt * Over(bend, 2 * h))),
       ppval |-> Plus(ypp[i], dt * Over(bend, h))]

SplineCubicVal(t, y, ypp, tval) == Curve(t, y, ypp, Interval(t, tval), tval)

(* spline_interpolate: the curvature is zero at the ends.                   *)
SplineInterpolate(t, y, xvals) ==
  LET ypp == SplineCubicSet(t, y, <<2, 2>>, <<0, 0>>)
  IN  [i \in DOMAIN xvals |-> SplineCubicVal(t, y, ypp, xvals[i]).val]

-----------------------------------------------------------------------------
SplineInit ==
  /\ question \in [of : {"spline"}, t : KnotLists, y : ValueLists, ends : EndKinds, values : EndValues]
  /\ Len(question.t) = Len(question.y) /\ Enough(question.t, question.ends)
  /\ answer = Unanswered

(* The curve of every interval at its ends, and at the knots what           *)
(* spline_interpolate makes of it.                                          *)
SetAndEvaluate ==
  /\ Asked("spline")
  /\ LET t == question.t
         y == question.y
         ypp == SplineCubicSet(t, y, question.ends, question.values)
         pieces == 1..(Len(t) - 1)
     IN  Answer(IF ~Settable(t, question.ends) THEN [of |-> "exit"]
                ELSE [of |-> "spline",
                      left |-> [i \in pieces |-> Curve(t, y, ypp, i, t[i])],
                      right |-> [i \in pieces |-> Curve(t, y, ypp, i, t[i + 1])],
                      third |-> [i \in pieces |-> Over(ypp[i + 1] - ypp[i], t[i + 1] - t[i])],
                      at |-> SplineInterpolate(t, y, t)])

SplineNext == SetAndEvaluate

-----------------------------------------------------------------------------
(* The curve passes through its points and bends as it is asked to at its   *)
(* ends.                                                                    *)
Fitting(y, ends, values, curve) ==
  LET last == Len(y) - 1
      met(condition, value, at, here, inwards) ==
        CASE condition = 0 -> curve.left[here].ppval = curve.right[here].ppval
          [] condition = 1 -> at.pval = value % Prime
          [] condition = 2 -> at.ppval = value % Prime
          [] condition = 3 -> curve.third[here] = curve.third[inwards]
  IN  /\ \A i \in 1..last : curve.left[i].val = y[i] % Prime /\ curve.right[i].val = y[i + 1] % Prime
      /\ curve.at = [i \in DOMAIN y |-> y[i] % Prime]
      /\ met(ends[1], values[1], curve.left[1], 1, 2)
      /\ met(ends[2], values[2], curve.right[last], last, last - 1)

Smooth(curve) == \A i \in 2..Len(curve.left) : curve.right[i - 1] = curve.left[i]

EvenlySpaced(list) == \A i \in 1..(Len(list) - 1) : list[i + 1] - list[i] = list[2] - list[1]

(* Every spline passes through its points with the curvature that is asked  *)
(* for at its ends, and the pieces of one with evenly spaced knots agree in *)
(* value, slope and curvature where they meet, whatever the values: the     *)
(* equations are the right ones and the elimination solves them.            *)
SplineSmoothIfEven ==
  answer.of = "spline" =>
    /\ Fitting(question.y, question.ends, question.values, answer)
    /\ EvenlySpaced(question.t) => Smooth(answer)

(* What spline_cubic_set says of itself, for all knots: the coefficients of *)
(* the neighbours in the equations between are each other's.                *)
SplineSmooth == answer.of = "spline" => Smooth(answer)
=============================================================================
