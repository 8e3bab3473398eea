----------------------------- MODULE KillSwitch -----------------------------
(***************************************************************************)
(* The daily drawdown switch and the worker that feeds it: KillSwitch and  *)
(* risk_worker.  The worker takes equity reports from its queue one at a   *)
(* time; a loss at the limit puts it to sleep for the debounce, after      *)
(* which it asks again and trips.  Only the sleep suspends: everything     *)
(* else in check_drawdown runs in one step, but it reads the UTC clock up  *)
(* to three times, and midnight may fall between two of the reads.         *)
(***************************************************************************)
EXTENDS Integers, Sequences

CONSTANTS
    Levels,        \* equities the account may report
    Limit,         \* settings.max_drawdown_pct
    MaxDay,        \* bound: UTC days, counted from 1
    MaxQueue,      \* bound: reports waiting in the risk queue
    MidnightRace,  \* midnight may fall inside check_drawdown
    Restarts       \* the process may stop and start again

ASSUME LevelAssumption == Levels \subseteq Nat \ {0}
ASSUME LimitAssumption == Limit \in Nat \ {0}
ASSUME BoundAssumption == MaxDay \in Nat \ {0} /\ MaxQueue \in Nat \ {0}
ASSUME SwitchAssumption == MidnightRace \in BOOLEAN /\ Restarts \in BOOLEAN

\* Instead of None: no day yet, no equity yet, not asleep.
Unset == 0

VARIABLES
    day,      \* the UTC clock
    queue,    \* risk queue: reported equities, Unset = a report without one
    marked,   \* latest_mark is known
    latest,   \* latest_equity of the worker
    asleep,   \* reference balance of the confirmation under way
    daily,    \* _daily_utc_date
    hwm,      \* _daily_high_water_mark
    tripped,  \* _tripped
    equity,   \* ghost: the last equity reported
    high      \* ghost: the highest equity reported today since the mark is known

worker == <<marked, latest, asleep>>
switch == <<daily, hwm, tripped>>
vars   == <<day, queue, worker, switch, equity, high>>

\* _drawdown_pct against the limit, without the division.
LossAtLimit(reference, e) == reference > 0 /\ (reference - e) * 100 >= Limit * reference

-----------------------------------------------------------------------------
(* The account and the clock. *)

Report(e) ==
    /\ Len(queue) < MaxQueue
    /\ queue' = Append(queue, e)
    /\ IF e = Unset
       THEN UNCHANGED <<equity, high>>
       ELSE equity' = e /\ high' = IF e > high THEN e ELSE high
    /\ UNCHANGED <<day, worker, switch>>

\* The regime coin's mark, from its context or from a report.
MarkSeen ==
    /\ ~marked
    /\ marked' = TRUE
    /\ high' = 0
    /\ UNCHANGED <<day, queue, latest, asleep, switch, equity>>

NextDay ==
    /\ day < MaxDay
    /\ day' = day + 1
    /\ high' = 0
    /\ UNCHANGED <<queue, worker, switch, equity>>

-----------------------------------------------------------------------------
(* check_drawdown. *)

StillTripped(newDay) == tripped                          \* mutant: auto_unlock ignored

\* _reset_daily_state on the first report of a day.
Locked(newDay) == tripped /\ ~newDay

FirstHigh(e, h, sameDay) == IF sameDay THEN h ELSE e     \* mutant: never raised
AddedHigh(e, h, sameDay) == IF sameDay THEN h + e ELSE e \* mutant: balances added

\* _update_high_water_mark.
HighWater(e, h, sameDay) == IF sameDay /\ e <= h THEN h ELSE e

\* The three clock reads: before _reset_daily_state, in it, in
\* _update_high_water_mark.  The confirmation starts asleep with the reference.
Check(e, read1, read2, read3) ==
    LET newDay == daily # read1
        date   == IF newDay THEN read2 ELSE daily
        high0  == IF newDay THEN e ELSE hwm
    IN  /\ daily' = read3
        /\ hwm' = HighWater(e, high0, date = read3)
        /\ tripped' = Locked(newDay)
        /\ asleep' = IF LossAtLimit(hwm', e) /\ ~tripped' THEN hwm' ELSE Unset

\* One event of the worker; without a mark or an equity there is no check.
Process ==
    /\ asleep = Unset
    /\ queue # <<>>
    /\ queue' = Tail(queue)
    /\ latest' = IF Head(queue) = Unset THEN latest ELSE Head(queue)
    /\ IF marked /\ latest' # Unset
       THEN /\ day' \in {day} \cup (IF MidnightRace /\ day < MaxDay THEN {day + 1} ELSE {})
            /\ \E read2, read3 \in {day, day'} :
                  read2 <= read3 /\ Check(latest', day, read2, read3)
            /\ high' = IF day' = day THEN high ELSE 0
       ELSE UNCHANGED <<day, asleep, switch, high>>
    /\ UNCHANGED <<marked, equity>>

WakeUnconfirmed ==                                       \* mutant: no callback, no trip
    /\ asleep # Unset
    /\ asleep' = Unset
    /\ UNCHANGED <<day, queue, marked, latest, switch, equity, high>>

\* The debounce is over.  recheck_equity answers latest_equity, which only this
\* worker sets: newer reports are still in the queue.
Wake ==
    /\ asleep # Unset
    /\ tripped' = (tripped \/ LossAtLimit(asleep, latest))
    /\ asleep' = Unset
    /\ UNCHANGED <<day, queue, marked, latest, daily, hwm, equity, high>>

\* Nothing of the switch is on disk.
Restart ==
    /\ Restarts
    /\ queue' = <<>>
    /\ marked' = FALSE /\ latest' = Unset /\ asleep' = Unset
    /\ daily' = Unset /\ hwm' = Unset /\ tripped' = FALSE
    /\ UNCHANGED <<day, equity, high>>

-----------------------------------------------------------------------------
Init ==
    /\ day = 1
    /\ queue = <<>>
    /\ marked = FALSE /\ latest = Unset /\ asleep = Unset
    /\ daily = Unset /\ hwm = Unset /\ tripped = FALSE
    /\ equity = Unset /\ high = 0

Next ==
    \/ \E e \in Levels \cup {Unset} : Report(e)
    \/ MarkSeen \/ NextDay \/ Process \/ Wake \/ Restart

Spec == Init /\ [][Next]_vars

\* The loop always returns to the worker: it takes what is queued and its sleep
\* ends.  Nothing is assumed of reports, marks, the clock or restarts.
FairSpec == Spec /\ WF_vars(Process) /\ WF_vars(Wake)

-----------------------------------------------------------------------------
(* Properties. *)

TypeOK ==
    /\ day \in 1..MaxDay
    /\ queue \in Seq(Levels \cup {Unset}) /\ Len(queue) <= MaxQueue
    /\ marked \in BOOLEAN
    /\ {latest, asleep, hwm, equity, high} \subseteq Levels \cup {Unset}
    /\ daily \in 0..MaxDay
    /\ tripped \in BOOLEAN

\* Once the worker has caught up with the reports, an account that stands at the
\* limit below the highest equity reported today is locked: no order of reports,
\* marks, missing equities and day changes hides a drawdown within a day.
DrawdownLocks ==
    marked /\ asleep = Unset /\ queue = <<>> /\ LossAtLimit(high, latest) => tripped

\* The report that starts a new day opens the switch.  (Unless midnight falls
\* inside that very check: the date may then change in _update_high_water_mark,
\* past the unlock, and the switch stays locked for the new day.)
NewDayOpens == [][daily' # daily /\ day' = day => ~tripped']_vars

\* A loss at the limit that lasts is answered within the day, however many
\* reports queue up behind the sleeping worker, unless the process is restarted
\* first.  One that a later report has recovered may be dismissed, which is what
\* the debounce is for (test_kill_switch_debounce_dismisses_spike).
LossAnswered ==
    \A d \in 1..MaxDay :
        (day = d /\ marked /\ LossAtLimit(high, equity))
            ~> (tripped \/ day # d \/ ~marked \/ ~LossAtLimit(high, equity))

-----------------------------------------------------------------------------
(* What tests and docstrings say, and the code does not do. *)

\* The debounce dismisses a spike: the switch trips only on a loss that the
\* newest report still shows.
SpikeDismissed == [][tripped' /\ ~tripped => LossAtLimit(asleep, equity)]_vars
=============================================================================
