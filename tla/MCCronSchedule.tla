--------------------------- MODULE MCCronSchedule ---------------------------
(* A small calendar and tasks for TLC; the bounds are in the .cfg files. *)
EXTENDS CronSchedule

CONSTANTS a, b

\* A year of two months, of two days and one.
MCMonthLength == <<2, 1>>

Each(lo, hi, step) == <<[lo |-> lo, hi |-> hi, step |-> step]>>
Star(u) == Each(0, Modulo[u] - 1, 1)

\* A task of these hours and minutes, every day.
Daily(hours, minutes) ==
    [type |-> 1, valid |-> TRUE, known |-> TRUE,
     fields |-> [u \in Units |-> CASE u = "hour" -> hours
                                   [] u = "minute" -> minutes
                                   [] OTHER -> Star(u)]]

Every(months, ticks) ==
    [type |-> 0, valid |-> TRUE, known |-> TRUE, period |-> [months |-> months, ticks |-> ticks]]

Off(row) == [row EXCEPT !.valid = FALSE]
Lost(row) == [row EXCEPT !.known = FALSE]

(***************************************************************************)
(* a: every other minute of every hour; the last minute of hour 1; a range *)
(* that goes round, on the first day; an hour that does not exist, which   *)
(* ParseField takes for all.  b: every 3 ticks, on and off; every month; a *)
(* program that does not exist.                                            *)
(***************************************************************************)
MCRows ==
    [id \in Ids |->
        CASE id = a -> {Daily(Star("hour"), Each(0, MinutesPerHour - 1, 2)),
                        Daily(Each(1, 1, 1), Each(3, 3, 1)),
                        [Daily(Star("hour"), Each(3, 1, 2)) EXCEPT
                            !.fields["day"] = Each(1, 1, 1)],
                        Daily(Each(0, 0, 1) \o Each(HoursPerDay, HoursPerDay, 1), Each(1, 1, 1))}
          [] id = b -> {Every(0, 3), Off(Every(0, 3)), Every(1, 0), Lost(Every(0, 3))}]

\* Every minute.
MCAlways == [id \in Ids |-> {Daily(Star("hour"), Star("minute"))}]
==============================================================================
