---------------------------- MODULE MCSchedules ----------------------------
(* Ten schedules over a week of 3 days, a year of 2 months, a day of 2 hours. *)
EXTENDS Schedules

MCMonthDays == <<3, 2>>
Field(values, star) == [values |-> values, star |-> star]
AnyField(n) == Field(0 .. n, TRUE)
Daily == [mode |-> "daily", n |-> 1, times |-> {<<0, 1>>, <<1, 2>>}, weekdays |-> {}, days |-> {},
          cron |-> [minute |-> AnyField(2), hour |-> AnyField(1), day |-> AnyField(3),
                    month |-> AnyField(2), weekday |-> AnyField(2)],
          startAt |-> 2, endAt |-> Never]
Cron(minute, hour, day, month, weekday) ==
    [Daily EXCEPT !.mode = "cron",
       !.cron = [minute |-> minute, hour |-> hour, day |-> day, month |-> month, weekday |-> weekday]]
MCPlans ==
    { Daily,
      [Daily EXCEPT !.mode = "weekdays", !.endAt = 40],
      [Daily EXCEPT !.mode = "weekly", !.weekdays = {0, 2}, !.startAt = 15],
      [Daily EXCEPT !.mode = "monthly", !.days = {3}],
      [Daily EXCEPT !.mode = "every_n_minutes", !.n = 5, !.startAt = 7, !.endAt = 50],
      [Daily EXCEPT !.mode = "every_n_hours", !.n = 2],
      Cron(Field({1}, FALSE), AnyField(1), AnyField(3), AnyField(2), AnyField(2)),
      Cron(Field({0}, FALSE), Field({1}, FALSE), Field({2}, FALSE), AnyField(2), Field({2}, FALSE)),
      Cron(Field({0, 2}, FALSE), Field({0}, FALSE), Field({3}, FALSE), AnyField(2), AnyField(2)),
      Cron(AnyField(2), Field({0}, FALSE), AnyField(3), Field({2}, FALSE), Field({0}, FALSE)) }
=============================================================================
