-------------------------------- MODULE Sessions --------------------------------
(***************************************************************************)
(* What tells later which runs there were and with which parameters: the   *)
(* session marker and log, and the registry of configurations.  One run    *)
(* after the other, each killed at any step or stopped; the activity       *)
(* worker refreshes the marker from a thread of its own, which a cancelled *)
(* task leaves behind.                                                     *)
(***************************************************************************)
EXTENDS Naturals, Sequences, SequencesExt, FiniteSets, TLC

CONSTANTS
    Configs,      \* the configurations (config_id)
    Empty,        \* what a file holds that is opened for writing and not yet written
    Torn,         \* a row that does not parse
    MaxRuns,      \* bound: runs
    MaxTime,      \* bound: the clock
    MaxFaults     \* bound: kills and refused writes

ASSUME BoundAssumption == MaxRuns \in Nat /\ MaxTime \in Nat /\ MaxFaults \in Nat

VARIABLES
    now, faults,
    run, config, startedAt,    \* the current run, its config_id and _started_at
    pc,                        \* what run_bot is at
    closing,                   \* it is in finish(), not in begin()
    rolling,                   \* the session _roll_over_stale_state has read
    mine, other,               \* the threads in _write_state: run_bot's, the worker's
    marker, tmp,               \* the two names: a file, or 0
    content,                   \* what each file holds
    log, registry,             \* sessions.jsonl, the registry of configurations
    begun, stopped,            \* ghost: runs that have left begin(), entered finish()
    touched,                   \* ghost: the time of each run's last marker
    excused, unregistered      \* ghost: runs a fault or a late thread hit, configurations likewise

clock    == <<now, faults>>
process  == <<run, config, startedAt>>
control  == <<pc, closing, rolling>>
threads  == <<mine, other>>
disk     == <<marker, tmp, content>>
ghost    == <<begun, stopped, touched, excused, unregistered>>
vars     == <<clock, process, control, threads, disk, log, registry, ghost>>

Files   == 1..3
Session == [run : 1..MaxRuns, config : Configs, start : 0..MaxTime, seen : 0..MaxTime,
            clean : BOOLEAN]

ASSUME MarkAssumption == Empty \notin Session /\ Torn \notin Session \cup Configs

-----------------------------------------------------------------------------
(* A log is its rows and whether the last of them lacks its newline: then the
   next row is written behind it, and neither parses. *)

NewLog == [rows |-> <<>>, open |-> FALSE]

Extended(l, row) ==
    IF l.open THEN [rows |-> Append(Front(l.rows), Torn), open |-> FALSE]
    ELSE [rows |-> Append(l.rows, row), open |-> FALSE]

\* What an append leaves that stops early, or fails.
CutShort(l, row) ==
    {l, [Extended(l, Torn) EXCEPT !.open = TRUE], [Extended(l, row) EXCEPT !.open = TRUE]}

Parsed(l) == ToSet(l.rows) \ {Torn}

\* load_sessions: each session at the place it is read from, a row or the marker (0).
IsMarked == marker # 0 /\ content[marker] # Empty
Places   == {i \in DOMAIN log.rows : log.rows[i] # Torn} \cup (IF IsMarked THEN {0} ELSE {})

LoadSessions == [i \in Places |-> IF i = 0 THEN content[marker] ELSE log.rows[i]]
Loaded       == {LoadSessions[i] : i \in Places}

-----------------------------------------------------------------------------
(* _write_state, step by step, in either thread: the session is made; the
   temporary file is opened, written, and replaces the marker. *)

Idle == [step |-> "idle", session |-> Empty, file |-> 0]

CleanAlready(clean) ==                                     \* mutant: the marker claims a clean exit
    [run |-> run, config |-> config, start |-> startedAt, seen |-> now, clean |-> TRUE]
Current(clean) ==
    [run |-> run, config |-> config, start |-> startedAt, seen |-> now, clean |-> clean]

\* The contents once no name is left for the file f.
Freed(f) == [x \in Files |-> IF x = f THEN Empty ELSE content[x]]

Fresh == CHOOSE f \in Files : f \notin {marker, tmp, mine.file, other.file}

InPlace(session) ==                                        \* mutant: the marker itself is opened
    LET file == IF marker = 0 THEN Fresh ELSE marker IN
    [thread  |-> [step |-> "write", session |-> session, file |-> file],
     content |-> [content EXCEPT ![file] = Empty], tmp |-> file]

Opened(session) ==
    LET file == IF tmp = 0 THEN Fresh ELSE tmp IN
    [thread  |-> [step |-> "write", session |-> session, file |-> file],
     content |-> [content EXCEPT ![file] = Empty], tmp |-> file]

Written(th) ==
    /\ content' = [content EXCEPT ![th.file] = th.session]
    /\ UNCHANGED <<marker, tmp>>

\* Without its temporary file the replacement fails, and the error is swallowed.
Replaced ==
    IF tmp = 0 THEN UNCHANGED disk
    ELSE marker' = tmp /\ tmp' = 0 /\ content' = Freed(marker)

-----------------------------------------------------------------------------
(* A run: registration, begin(), and finish() when it is stopped. *)

Boot(c) ==
    /\ pc = "down" /\ run < MaxRuns
    /\ run' = run + 1 /\ config' = c /\ UNCHANGED startedAt
    /\ pc' = "register" /\ UNCHANGED <<closing, rolling>>
    /\ UNCHANGED <<clock, threads, disk, log, registry, ghost>>

\* register_config: a row is added unless one with this id is read.
AnyRow       == registry.rows # <<>>                       \* mutant: one row for all
IsRegistered == config \in Parsed(registry)

Register ==
    /\ pc = "register"
    /\ \/ /\ IsRegistered /\ UNCHANGED <<faults, registry, unregistered>>
       \/ /\ ~IsRegistered /\ registry' = Extended(registry, config)
          /\ unregistered' = IF registry.open THEN unregistered \cup {config} ELSE unregistered
          /\ UNCHANGED faults
       \/ /\ ~IsRegistered /\ faults < MaxFaults /\ faults' = faults + 1
          /\ registry' \in CutShort(registry, config)
          /\ unregistered' = unregistered \cup {config}
    /\ startedAt' = now
    /\ pc' = "read"
    /\ UNCHANGED <<now, run, config, closing, rolling, threads, disk, log, begun, stopped, touched, excused>>

\* After the roll-over: begin() writes the first marker, finish() is done.
AfterRoll == IF closing THEN "exit" ELSE "open"

\* A marker that does not parse is discarded.
RollRead ==
    /\ pc = "read"
    /\ IF marker = 0
       THEN pc' = AfterRoll /\ UNCHANGED <<rolling, marker>>
       ELSE IF content[marker] = Empty
       THEN pc' = AfterRoll /\ marker' = 0 /\ UNCHANGED rolling
       ELSE pc' = "append" /\ rolling' = content[marker] /\ UNCHANGED marker
    /\ UNCHANGED <<clock, process, closing, threads, tmp, content, log, registry, ghost>>

\* A marker that cannot be read is discarded like one that does not parse: what
\* it held is forgotten.
RollReadFails ==
    /\ pc = "read" /\ IsMarked
    /\ faults < MaxFaults /\ faults' = faults + 1
    /\ marker' = 0 /\ content' = Freed(marker) /\ pc' = AfterRoll
    /\ excused' = excused \cup {content[marker].run}
    /\ UNCHANGED <<now, process, closing, rolling, threads, tmp, log, registry, begun, stopped, touched, unregistered>>

\* A refused append leaves the marker where it is: begin() then writes over it.
RollAppend ==
    /\ pc = "append"
    /\ \/ /\ log' = Extended(log, rolling) /\ pc' = "unlink" /\ rolling' = Empty
          /\ excused' = IF log.open THEN excused \cup {rolling.run} ELSE excused
          /\ UNCHANGED faults
       \/ /\ faults < MaxFaults /\ faults' = faults + 1
          /\ log' \in CutShort(log, rolling) /\ pc' = AfterRoll /\ rolling' = Empty
          /\ excused' = excused \cup {rolling.run}
    /\ UNCHANGED <<now, process, closing, threads, disk, registry, begun, stopped, touched, unregistered>>

\* What is logged goes; when the fsync of its row or the unlink fails, it stays.
RollUnlink ==
    /\ pc = "unlink" /\ pc' = AfterRoll
    /\ \/ marker' = 0 /\ content' = Freed(marker) /\ UNCHANGED faults
       \/ faults < MaxFaults /\ faults' = faults + 1 /\ UNCHANGED <<marker, content>>
    /\ UNCHANGED <<now, process, closing, rolling, threads, tmp, log, registry, ghost>>

\* touch() of begin() and the write of finish(); a refused write is swallowed.
AfterWrite == IF closing THEN "read" ELSE "running"

WriteOpen ==
    /\ pc = "open"
    /\ \/ LET o == Opened(Current(closing)) IN
          /\ mine' = o.thread /\ content' = o.content /\ tmp' = o.tmp
          /\ pc' = "write" /\ UNCHANGED <<faults, excused>>
       \/ /\ faults < MaxFaults /\ faults' = faults + 1
          /\ pc' = AfterWrite
          /\ excused' = IF closing THEN excused ELSE excused \cup {run}
          /\ UNCHANGED <<mine, content, tmp>>
    /\ UNCHANGED <<now, process, closing, rolling, other, marker, log, registry,
                   begun, stopped, touched, unregistered>>

Write ==
    /\ pc = "write"
    /\ Written(mine) /\ pc' = "replace"
    /\ UNCHANGED <<clock, process, closing, rolling, threads, log, registry, ghost>>

Marks(th) == touched' = [touched EXCEPT ![th.session.run] = th.session.seen]

WriteReplace ==
    /\ pc = "replace"
    /\ Replaced /\ Marks(mine)
    /\ mine' = Idle /\ pc' = AfterWrite
    /\ begun' = begun \cup {run}
    /\ UNCHANGED <<clock, process, closing, rolling, other, log, registry, stopped, excused, unregistered>>

\* touch() of the activity worker.
Touch ==
    /\ pc = "running" /\ other = Idle
    /\ other' = [step |-> "open", session |-> Current(FALSE), file |-> 0]
    /\ UNCHANGED <<clock, process, control, mine, disk, log, registry, ghost>>

TouchOpen ==
    /\ other.step = "open"
    /\ LET o == Opened(other.session) IN other' = o.thread /\ content' = o.content /\ tmp' = o.tmp
    /\ UNCHANGED <<clock, process, control, mine, marker, log, registry, ghost>>

TouchWrite ==
    /\ other.step = "write"
    /\ Written(other) /\ other' = [other EXCEPT !.step = "replace"]
    /\ UNCHANGED <<clock, process, control, mine, log, registry, ghost>>

TouchReplace ==
    /\ other.step = "replace"
    /\ Replaced /\ other' = Idle
    /\ IF pc = "running" THEN Marks(other) ELSE UNCHANGED touched
    /\ UNCHANGED <<clock, process, control, mine, log, registry, begun, stopped, excused, unregistered>>

\* shutdown() cancels the worker: the lock is free again, its thread goes on.
Stop ==
    /\ pc = "running"
    /\ closing' = TRUE /\ pc' = "open"
    /\ stopped' = stopped \cup {run}
    /\ excused' = IF other = Idle THEN excused ELSE excused \cup {run}
    /\ UNCHANGED <<clock, process, rolling, threads, disk, log, registry, begun, touched, unregistered>>

\* The interpreter waits for its threads.
Exit ==
    /\ pc = "exit" /\ other = Idle
    /\ pc' = "down" /\ closing' = FALSE
    /\ UNCHANGED <<clock, process, rolling, threads, disk, log, registry, ghost>>

Kill ==
    /\ pc # "down" /\ faults < MaxFaults /\ faults' = faults + 1
    /\ log' \in IF pc = "append" THEN CutShort(log, rolling) ELSE {log}
    /\ registry' \in IF pc = "register" /\ ~IsRegistered THEN CutShort(registry, config) ELSE {registry}
    /\ unregistered' = IF registry' = registry THEN unregistered ELSE unregistered \cup {config}
    /\ pc' = "down" /\ closing' = FALSE /\ rolling' = Empty
    /\ mine' = Idle /\ other' = Idle
    /\ UNCHANGED <<now, process, disk, begun, stopped, touched, excused>>

Tick ==
    /\ now < MaxTime /\ now' = now + 1
    /\ UNCHANGED <<faults, process, control, threads, disk, log, registry, ghost>>

-----------------------------------------------------------------------------
Init ==
    /\ now = 0 /\ faults = 0
    /\ run = 0 /\ config \in Configs /\ startedAt = 0
    /\ pc = "down" /\ closing = FALSE /\ rolling = Empty
    /\ mine = Idle /\ other = Idle
    /\ marker = 0 /\ tmp = 0 /\ content = [f \in Files |-> Empty]
    /\ log = NewLog /\ registry = NewLog
    /\ begun = {} /\ stopped = {} /\ touched = [r \in 1..MaxRuns |-> 0]
    /\ excused = {} /\ unregistered = {}

Next ==
    \/ \E c \in Configs : Boot(c)
    \/ Register \/ RollRead \/ RollReadFails \/ RollAppend \/ RollUnlink
    \/ WriteOpen \/ Write \/ WriteReplace
    \/ Touch \/ TouchOpen \/ TouchWrite \/ TouchReplace
    \/ Stop \/ Exit \/ Kill \/ Tick

Spec == Init /\ [][Next]_vars

-----------------------------------------------------------------------------
(* coverage_pct: the spans in order, merged where they meet. *)

Summed(merged, span) == Append(merged, span)               \* mutant: overlaps are not merged
Merge(merged, span) ==
    IF merged # <<>> /\ span[1] <= Last(merged)[2]
    THEN Append(Front(merged), <<Last(merged)[1], IF span[2] > Last(merged)[2] THEN span[2] ELSE Last(merged)[2]>>)
    ELSE Append(merged, span)

Earlier(a, b) == a[1] < b[1] \/ (a[1] = b[1] /\ a[2] <= b[2])

Span(s) == <<s.start, s.seen>>

Earliest(sessions, left) ==
    CHOOSE i \in left : \A j \in left : Earlier(Span(sessions[i]), Span(sessions[j]))

\* What the next span makes of the places that are left and the spans merged so far.
Turn(sessions, before) ==
    LET i == Earliest(sessions, before.left) IN
    [left |-> before.left \ {i}, merged |-> Merge(before.merged, Span(sessions[i]))]

Merged(sessions) ==
    LET N == Cardinality(DOMAIN sessions)
        turns[n \in 0..N] == IF n = 0 THEN [left |-> DOMAIN sessions, merged |-> <<>>]
                             ELSE Turn(sessions, turns[n - 1])
    IN  turns[N].merged

Length(spans) ==
    LET sum[n \in 0..Len(spans)] == IF n = 0 THEN 0 ELSE sum[n - 1] + spans[n][2] - spans[n][1]
    IN  sum[Len(spans)]

Covered(sessions) == Length(Merged(sessions))
Observed(sessions) == Last(Merged(sessions))[2] - Merged(sessions)[1][1]

-----------------------------------------------------------------------------
(* Properties. *)

TypeOK ==
    /\ now \in 0..MaxTime /\ faults \in 0..MaxFaults
    /\ run \in 0..MaxRuns /\ config \in Configs /\ startedAt \in 0..now
    /\ pc \in {"down", "register", "read", "append", "unlink", "open", "write", "replace",
               "running", "exit"}
    /\ rolling \in Session \cup {Empty}
    /\ \A th \in {mine, other} :
           th = Idle \/ (th.session \in Session /\ th.file \in Files \cup {0} /\ th.step \in {"open", "write", "replace"})
    /\ marker \in Files \cup {0} /\ tmp \in Files \cup {0}
    /\ marker # 0 => marker # tmp
    /\ content \in [Files -> Session \cup {Empty}]
    /\ ToSet(log.rows) \subseteq Session \cup {Torn} /\ ToSet(registry.rows) \subseteq Configs \cup {Torn}

\* Once begun, a run is in the log or the marker, dated no earlier than its last
\* refresh: wherever it is killed, and however the next start is killed in turn.
\* Excused are runs whose row the disk refused or found behind an unfinished
\* one, whose marker it would not give at the roll-over (RollReadFails), and
\* those whose worker was in the middle of a refresh at the stop.
NoRunForgotten ==
    \A r \in begun \ excused :
        \E s \in Loaded : s.run = r /\ s.seen >= touched[r]

\* A run that is recorded as clean was stopped, never killed before.
CleanMeansStopped == \A s \in Loaded : s.clean => s.run \in stopped

\* Coverage counts every moment once, however often a kill between the append
\* and the unlink, or a late thread, has a run recorded; and it is no more than
\* the whole span observed, so never above 100 %.
CoverageCountsOnce ==
    LET sessions == LoadSessions IN
    /\ Covered(sessions) = Cardinality(UNION {s.start..(s.seen - 1) : s \in Loaded})
    /\ Places # {} => Covered(sessions) <= Observed(sessions)

\* The parameters of every recorded run can be looked up, unless the registry's
\* row was refused or cut short.
Attributable ==
    \A s \in Loaded : s.config \in Parsed(registry) \cup unregistered

-----------------------------------------------------------------------------
(* What the docstring of session_log.py says, and the code does not do. *)

\* On startup a leftover marker is in the log before it goes.
LeftoverIsLogged ==
    [][~closing /\ IsMarked /\ marker' = 0 => content[marker] \in Parsed(log)]_vars
=============================================================================
