----------------------------- MODULE Durations ------------------------------
(***************************************************************************)
(* Cells of a time grid and the durations in them (durations.py). A text   *)
(* is what the code can tell about it; amounts of time are counted in      *)
(* quarter hours, so that the half-hour step has something to round.       *)
(*   numeral  digits only: a day number, and a duration of that many hours *)
(*   hours    hours with a unit or a fraction: n quarter hours             *)
(*   tally    strokes and dashes: n half hours                             *)
(*   month    a period header naming month n, with a four-digit year or    *)
(*            with none (year = 0)                                         *)
(*   word     any other text                                               *)
(***************************************************************************)
EXTENDS Integers

Kinds == {"blank", "numeral", "hours", "tally", "month", "word"}
Text == [kind : Kinds, n : Int, year : Nat]

Blank == [kind |-> "blank", n |-> 0, year |-> 0]
Numeral(n) == [kind |-> "numeral", n |-> n, year |-> 0]
Hours(q) == [kind |-> "hours", n |-> q, year |-> 0]
Tally(halves) == [kind |-> "tally", n |-> halves, year |-> 0]
Word(n) == [kind |-> "word", n |-> n, year |-> 0]
MonthHeader(m, y) == [kind |-> "month", n |-> m, year |-> y]

Unreadable == -1

\* Quarter hours held in a cell; a blank cell holds none.
Parse(text) ==
  CASE text.kind = "blank"   -> 0
    [] text.kind = "numeral" -> 4 * text.n
    [] text.kind = "hours"   -> text.n
    [] text.kind = "tally"   -> 2 * text.n
    [] OTHER                 -> Unreadable

\* Full hours, then at most one half: what is below the half is not written.
RenderTally(q) ==
  LET halves == 2 * (q \div 4) + (IF q % 4 >= 2 THEN 1 ELSE 0)
  IN IF halves <= 0 THEN Blank ELSE Tally(halves)

\* Zero, and less, renders empty in both notations.
Render(q, style) ==
  IF q <= 0 THEN Blank
  ELSE IF style = "duration-tally" THEN RenderTally(q) ELSE Hours(q)

\* round(q / step) * step: to the nearest step, a tie to the even one.
RoundToStep(q, step) ==
  LET below == q \div step
      rest == 2 * (q % step)
      up == rest > step \/ (rest = step /\ below % 2 = 1)
  IN (IF up THEN below + 1 ELSE below) * step
=============================================================================
