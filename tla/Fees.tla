-------------------------------- MODULE Fees --------------------------------
(***************************************************************************)
(* fees.py: the row of an effective-dated schedule that is in force on a   *)
(* day, and the fees of a fill by the rates of its day.  An amount is its  *)
(* rate times the fill, capped and rounded to the cent: rates stand for    *)
(* amounts here.                                                           *)
(***************************************************************************)
EXTENDS Integers

Kinds == {"sec", "taf", "cat"}

\* No row, no rate; and a row without effective_to.
None == 0
OpenEnded == 0

NoRow == [from |-> 0, to |-> OpenEnded, rate |-> None]

\* Mutant: a row that has lapsed is still charged.
RowOnNeverLapses(schedule, on) ==
    LET started == { r \in schedule : r.from <= on }
    IN  IF started = {} THEN NoRow ELSE CHOOSE r \in started : \A q \in started : q.from <= r.from

\* row_on: the row that started last, unless it has lapsed.
RowOn(schedule, on) ==
    LET started == { r \in schedule : r.from <= on }
        current == CHOOSE r \in started : \A q \in started : q.from <= r.from
    IN  IF started = {} THEN NoRow
        ELSE IF current.to # OpenEnded /\ on > current.to THEN NoRow
        ELSE current

\* for_sell raises without an SEC or a TAF rate.
Chargeable(fees, on, side) ==
    side = "sell" => RowOn(fees.sec, on) # NoRow /\ RowOn(fees.taf, on) # NoRow

\* for_sell and for_buy: the rate of each line, None where there is no line.
Lines(fees, on, side) ==
    [k \in Kinds |-> IF k = "cat" \/ side = "sell" THEN RowOn(fees[k], on).rate ELSE None]
=============================================================================
