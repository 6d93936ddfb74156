--------------------------- MODULE MCClaimConflict --------------------------
(* Two or three messages of one family of statements, written in one of a  *)
(* few rhythms; the late ones are read after what was written before them. *)
EXTENDS ClaimConflict

Plain == [subject |-> "me", verbs |-> {"is"}, cues |-> {}, year |-> NoTime, since |-> FALSE,
          words |-> {"live"}, numbers |-> {}, pattern |-> "none", amount |-> 0, currency |-> "",
          magnitude |-> 1, unit |-> "", hour |-> 0, half |-> "", zone |-> "", relation |-> "",
          object |-> "", scope |-> "", grain |-> ""]

Home(place) == [Plain EXCEPT !.words = {"live", place}, !.relation = "lives_in", !.object = place]
Homes == {Home("paris"), Home("rome"), Home("france"),
          [Home("rome") EXCEPT !.verbs = {"was"}],
          [Home("rome") EXCEPT !.cues = {"planned"}, !.verbs = {"will"}]}

Rent == [Plain EXCEPT !.words = {"rent", "month"}, !.pattern = "numeric", !.amount = 1200,
                      !.numbers = {"1200"}, !.currency = "$", !.unit = "month"]
Rents == {Rent,
          [Rent EXCEPT !.amount = 15, !.magnitude = 100, !.numbers = {"15"}],
          [Rent EXCEPT !.amount = 1500, !.numbers = {"1500"}, !.year = 0],
          [Rent EXCEPT !.amount = 1800, !.numbers = {"1800"}, !.year = 1, !.since = TRUE],
          [Rent EXCEPT !.amount = 1900, !.numbers = {"1900"}, !.scope = "net"],
          [Rent EXCEPT !.amount = 900, !.numbers = {"900"}, !.verbs = {"was"}]}

Call == [Plain EXCEPT !.words = {"call"}, !.pattern = "clock_time", !.hour = 3, !.half = "pm", !.zone = "central"]
Habit == [Plain EXCEPT !.words = {"tests", "enabled"}]
Habits == {Call, [Call EXCEPT !.hour = 4, !.zone = "eastern"], [Call EXCEPT !.hour = 15, !.half = "", !.zone = ""],
           Habit, [Habit EXCEPT !.cues = {"not"}], [Habit EXCEPT !.words = {"tests", "disabled"}],
           [Habit EXCEPT !.cues = {"not", "possible"}], [Habit EXCEPT !.cues = {"not"}, !.subject = ""]}

MCPlaces == {<<"paris", "france">>}

Message(t, said, event) == [text |-> t, said |-> said, event |-> event]
Told3(texts, days) ==
    {<<Message(t[1], days[1], NoTime), Message(t[2], days[2], NoTime), Message(t[3], days[3], NoTime)>> :
        t \in texts \X texts \X texts}
Told2(texts, days, event) ==
    {<<Message(t[1], days[1], event), Message(t[2], days[2], NoTime)>> : t \in texts \X texts}

MCArrivals ==
    Told3({Home("paris"), Home("rome"), Home("france")}, <<10, 50, 90>>)
    \cup Told3({t \in Rents : t.amount \in {15, 1500, 1800}}, <<370, 371, 410>>)
    \cup Told2(Homes, <<10, 50>>, NoTime) \cup Told2(Homes, <<10, 10>>, 5)
    \cup Told2(Rents, <<10, 20>>, NoTime) \cup Told2(Habits, <<10, 10>>, NoTime)

=============================================================================
