----------------------------- MODULE SessionsProofs -----------------------------
(***************************************************************************)
(* What the session log keeps, for every number of runs, faults and        *)
(* configurations: a run that has begun is found again, one that is        *)
(* recorded as clean was stopped, its parameters can be looked up, and the *)
(* coverage of what is read counts every moment once.                      *)
(***************************************************************************)
EXTENDS Sessions, SequenceTheorems, FiniteSetTheorems, WellFoundedInduction, TLAPS

\* The rows of a log that no later append can spoil: all but an unfinished one.
Safe(l) == IF l.open THEN ToSet(Front(l.rows)) ELSE ToSet(l.rows)

IsLog(l, S) == l \in [rows : Seq(S \cup {Torn}), open : BOOLEAN] /\ (l.open => l.rows # <<>>)

-----------------------------------------------------------------------------
(* The invariants. *)

Steps == {"down", "register", "read", "append", "unlink", "open", "write", "replace", "running", "exit"}

\* The run, and where it is.
Control ==
    /\ now \in 0..MaxTime /\ run \in 0..MaxRuns /\ config \in Configs /\ startedAt \in 0..now
    /\ pc \in Steps /\ closing \in BOOLEAN
    /\ pc # "down" => run \in 1..MaxRuns
    /\ pc \in {"down", "register", "running"} => ~closing
    /\ pc = "append" => rolling \in Session
    /\ IsLog(log, Session) /\ IsLog(registry, Configs)
    /\ touched = [r \in 1..MaxRuns |-> touched[r]]

\* The threads: run_bot's in its steps, the worker's alone while the run goes on;
\* the run that leaves one behind is excused.
Ours(th) == /\ th = [step |-> th.step, session |-> th.session, file |-> th.file]
            /\ th.session \in Session /\ th.session.run = run

Threads ==
    /\ IF pc \in {"write", "replace"} THEN mine.step = "write" /\ Ours(mine) ELSE mine = Idle
    /\ other # Idle => other.step \in {"open", "write", "replace"} /\ Ours(other)
    /\ other.step = "open" => other.file = 0
    /\ other # Idle => pc = "running" \/ (closing /\ run \in excused)

\* The files: the two names are never one file's, and a session that a thread
\* has written stands in the temporary file, unless another thread came between.
Holds(step, th) == /\ step \in {"write", "replace"} => tmp # 0 /\ tmp = th.file
                   /\ step = "replace" => content[tmp] = th.session

Names ==
    /\ marker \in Files \cup {0} /\ tmp \in Files \cup {0}
    /\ content \in [Files -> Session \cup {Empty}]
    /\ marker # 0 => marker # tmp

Disk == Names /\ (run \notin excused => Holds(pc, mine) /\ Holds(other.step, other))

\* A run's session, dated no earlier than its last refresh.
IsOf(s, r)  == s \in Session /\ s.run = r /\ s.seen >= touched[r]
Logged(r)   == \E s \in Safe(log) : IsOf(s, r)
OnMarker(r) == marker # 0 /\ IsOf(content[marker], r)

\* The runs there is something to be found of.
Due == begun \ excused

\* The current run is begun when its first marker stands.
Begun ==
    /\ begun \subseteq 1..run
    /\ (pc \in Steps \ {"down", "running"} /\ ~closing) => run \notin begun

\* Each run is logged, but the last may be on the marker alone: until a later
\* run, or the end of its own, has rolled it over.
Kept ==
    /\ \A r \in Due : Logged(r) \/ OnMarker(r)
    /\ pc = "append" => \A r \in Due : Logged(r) \/ rolling = content[marker]
    /\ pc = "unlink" => \A r \in Due : Logged(r)
    /\ (pc \in {"open", "write", "replace", "running"} \/ closing) => \A r \in Due \ {run} : Logged(r)

Inv == Control /\ Threads /\ Disk /\ Begun /\ Kept

\* The sessions there are, in whatever place.
Everywhere ==
    Parsed(log) \cup ({content[f] : f \in Files} \ {Empty})
                \cup {x \in {rolling, mine.session, other.session} : x # Empty}

CleanStopped ==
    /\ \A s \in Everywhere : s.clean => s.run \in stopped
    /\ closing => run \in stopped

Known == Safe(registry) \cup unregistered

Registered ==
    /\ Parsed(registry) \subseteq Known
    /\ \A s \in Everywhere : s.config \in Known
    /\ pc \notin {"down", "register"} => config \in Known

-----------------------------------------------------------------------------
(* Logs. *)

\* The entries of a sequence one longer, and of one that is one shorter.
LEMMA Appended ==
    ASSUME NEW S, NEW s \in Seq(S), NEW x \in S
    PROVE  /\ Append(s, x) \in Seq(S) /\ Append(s, x) # <<>>
           /\ ToSet(Append(s, x)) = ToSet(s) \cup {x}
           /\ Front(Append(s, x)) = s
<1> DEFINE t == Append(s, x)
<1>1. /\ t \in Seq(S) /\ t # <<>> /\ Len(t) = Len(s) + 1
      /\ \A i \in 1..Len(s) : t[i] = s[i]
      /\ t[Len(s) + 1] = x
  BY AppendProperties
<1>2. Len(s) \in Nat /\ DOMAIN s = 1..Len(s) /\ DOMAIN t = 1..(Len(s) + 1)
  BY <1>1, LenProperties
<1> HIDE DEF t
<1>3. ToSet(t) = ToSet(s) \cup {x}
  <2>1. \A y : y \in ToSet(t) <=> \E i \in 1..(Len(s) + 1) : y = t[i]
    BY <1>2 DEF ToSet
  <2>2. \A y : y \in ToSet(s) <=> \E i \in 1..Len(s) : y = s[i]
    BY <1>2 DEF ToSet
  <2>3. \A i \in 1..(Len(s) + 1) : i \in 1..Len(s) \/ i = Len(s) + 1
    BY <1>2
  <2>4. \A i \in 1..Len(s) : i \in 1..(Len(s) + 1)
    BY <1>2
  <2>5. Len(s) + 1 \in 1..(Len(s) + 1)
    BY <1>2
  <2>6. \A y : y \in ToSet(t) => y \in ToSet(s) \/ y = x
    BY <1>1, <2>1, <2>2, <2>3
  <2>7. \A y : y \in ToSet(s) => y \in ToSet(t)
    BY <1>1, <2>1, <2>2, <2>4
  <2>8. x \in ToSet(t)
    BY <1>1, <2>1, <2>5
  <2> QED
    BY <2>6, <2>7, <2>8
<1>4. Front(t) = s
  <2>1. \A i \in 1..Len(s) : t[i] \in S
    BY <1>1, ElementOfSeq
  <2>2. /\ SubSeq(t, 1, Len(s)) \in Seq(S) /\ Len(SubSeq(t, 1, Len(s))) = Len(s)
        /\ \A i \in 1..Len(s) : SubSeq(t, 1, Len(s))[i] = t[i]
    BY <1>2, <2>1, SubSeqProperties
  <2>3. Front(t) = SubSeq(t, 1, Len(s))
    BY <1>1, <1>2 DEF Front
  <2> QED
    BY <1>1, <2>2, <2>3, SeqEqual
<1> QED
  BY <1>1, <1>3, <1>4 DEF t

LEMMA Shortened ==
    ASSUME NEW S, NEW s \in Seq(S), s # <<>>
    PROVE  /\ Front(s) \in Seq(S)
           /\ ToSet(Front(s)) \subseteq ToSet(s)
<1> PICK r \in Seq(S), x \in S : s = Append(r, x)
  BY SequenceEmptyOrAppend
<1> QED
  BY Appended

\* What is safe in a log stays in it, through any append, cut short or not; and
\* nothing is read of it but what was written.
Keeps(l, new, row, S) ==
    /\ IsLog(new, S)
    /\ Safe(l) \subseteq Safe(new)
    /\ Parsed(new) \subseteq Parsed(l) \cup {row}

LEMMA ExtendedKeeps ==
    ASSUME NEW S, NEW l, IsLog(l, S), NEW row \in S \cup {Torn}
    PROVE  /\ Keeps(l, Extended(l, row), row, S)
           /\ ~l.open => row \in Safe(Extended(l, row))
           /\ Parsed(Extended(l, row)) \subseteq Safe(Extended(l, row))
           /\ Extended(l, row).open = FALSE
           /\ Extended(l, row).rows # <<>>
           /\ Safe([Extended(l, row) EXCEPT !.open = TRUE]) = Safe(l)
           /\ Parsed(Extended(l, row)) \subseteq Safe(l) \cup {row}
<1> DEFINE T   == S \cup {Torn}
           new == Extended(l, row)
<1>1. l.rows \in Seq(T) /\ l.open \in BOOLEAN /\ (l.open => l.rows # <<>>)
  BY DEF IsLog
<1>2. CASE l.open
  <2>1. Front(l.rows) \in Seq(T) /\ ToSet(Front(l.rows)) \subseteq ToSet(l.rows)
    BY <1>1, <1>2, Shortened
  <2>2. new = [rows |-> Append(Front(l.rows), Torn), open |-> FALSE]
    BY <1>2 DEF Extended
  <2>3. /\ new.rows \in Seq(T) /\ new.rows # <<>>
        /\ ToSet(new.rows) = ToSet(Front(l.rows)) \cup {Torn}
        /\ Front(new.rows) = Front(l.rows)
    BY <2>1, <2>2, Appended
  <2> QED
    BY <1>2, <2>1, <2>2, <2>3 DEF Keeps, IsLog, Safe, Parsed
<1>3. CASE ~l.open
  <2>1. new = [rows |-> Append(l.rows, row), open |-> FALSE]
    BY <1>3 DEF Extended
  <2>2. /\ new.rows \in Seq(T) /\ new.rows # <<>>
        /\ ToSet(new.rows) = ToSet(l.rows) \cup {row}
        /\ Front(new.rows) = l.rows
    BY <1>1, <2>1, Appended
  <2> QED
    BY <1>3, <2>1, <2>2 DEF Keeps, IsLog, Safe, Parsed
<1> QED
  BY <1>2, <1>3

LEMMA CutShortKeeps ==
    ASSUME NEW S, NEW l, IsLog(l, S), NEW row \in S \cup {Torn}, NEW new \in CutShort(l, row)
    PROVE  /\ Keeps(l, new, row, S)
           /\ new = l \/ Parsed(new) \subseteq Safe(new) \cup {row}
<1>1. ASSUME NEW x \in {row, Torn}, new = [Extended(l, x) EXCEPT !.open = TRUE]
      PROVE  Keeps(l, new, row, S) /\ Parsed(new) \subseteq Safe(new) \cup {row}
  <2>1. x \in S \cup {Torn}
    OBVIOUS
  <2>2. Keeps(l, Extended(l, x), x, S) /\ Extended(l, x).rows # <<>>
        /\ Safe(new) = Safe(l) /\ Parsed(Extended(l, x)) \subseteq Safe(l) \cup {x}
    BY <1>1, <2>1, ExtendedKeeps
  <2>3. new.rows = Extended(l, x).rows /\ new.open = TRUE /\ IsLog(new, S)
    BY <1>1, <2>2 DEF IsLog, Keeps
  <2>4. Parsed(new) = Parsed(Extended(l, x)) /\ Torn \notin Parsed(new)
    BY <2>3 DEF Parsed
  <2> QED
    BY <2>2, <2>3, <2>4 DEF Keeps
<1>2. new = l => Keeps(l, new, row, S)
  BY DEF Keeps
<1> QED
  BY <1>1, <1>2 DEF CutShort

-----------------------------------------------------------------------------
(* The steps. *)

\* The session of the run, as either thread makes it.
LEMMA CurrentSession ==
    ASSUME Control, pc # "down", NEW clean \in BOOLEAN
    PROVE  /\ Current(clean) \in Session /\ Current(clean).run = run /\ Current(clean).seen = now
           /\ Current(clean).clean = clean /\ Current(clean).config = config
<1>1. startedAt \in 0..MaxTime
  BY BoundAssumption DEF Control
<1> QED
  BY <1>1 DEF Current, Session, Control

LEMMA ControlSteps == ASSUME Control, Disk, [Next]_vars PROVE Control'
<1>1. ASSUME NEW c \in Configs, Boot(c) PROVE Control'
  <2>1. run \in Nat /\ run < MaxRuns
    BY <1>1 DEF Boot, Control
  <2>2. run' = run + 1 /\ run' \in 1..MaxRuns
    BY <1>1, <2>1, BoundAssumption DEF Boot
  <2> QED
    BY <1>1, <2>2 DEF Boot, Control, Steps, clock, threads, disk, ghost
<1>2. CASE Register
  <2>1. IsLog(registry', Configs)
    <3>1. IsLog(registry, Configs) /\ config \in Configs \cup {Torn}
      BY DEF Control
    <3>2. /\ IsLog(Extended(registry, config), Configs)
          /\ \A new \in CutShort(registry, config) : IsLog(new, Configs)
      BY <3>1, ExtendedKeeps, CutShortKeeps DEF Keeps
    <3> QED
      BY <1>2, <3>1, <3>2 DEF Register
  <2> QED
    <3>1. /\ pc' = "read" /\ pc = "register" /\ startedAt' = now /\ run' = run /\ now' = now
          /\ closing' = closing /\ config' = config /\ log' = log /\ touched' = touched
      BY <1>2 DEF Register
    <3> QED
      BY <2>1, <3>1 DEF Control, Steps
<1>3. CASE RollRead
  BY <1>3 DEF RollRead, Control, Disk, Names, Steps, AfterRoll, clock, process, threads, ghost
<1>4. CASE RollAppend
  <2>1. rolling \in Session
    BY <1>4 DEF RollAppend, Control
  <2>2. IsLog(log', Session)
    <3>1. IsLog(log, Session) /\ rolling \in Session \cup {Torn}
      BY <2>1 DEF Control
    <3>2. /\ IsLog(Extended(log, rolling), Session)
          /\ \A new \in CutShort(log, rolling) : IsLog(new, Session)
      BY <3>1, ExtendedKeeps, CutShortKeeps DEF Keeps
    <3> QED
      BY <1>4, <3>1, <3>2 DEF RollAppend
  <2> QED
    <3>1. /\ pc' \in {"unlink", AfterRoll} /\ pc = "append" /\ startedAt' = startedAt /\ run' = run /\ now' = now
          /\ closing' = closing /\ config' = config /\ registry' = registry /\ touched' = touched
      BY <1>4 DEF RollAppend, process
    <3> QED
      BY <2>2, <3>1 DEF Control, Steps, AfterRoll
<1>5. CASE RollUnlink
  BY <1>5 DEF RollUnlink, Control, Steps, AfterRoll, process, ghost
<1>6. CASE WriteOpen
  BY <1>6 DEF WriteOpen, Control, Steps, AfterRoll, AfterWrite, clock, process, control, threads, disk, ghost
<1>7. CASE Write
  BY <1>7 DEF Write, Control, Steps, AfterRoll, AfterWrite, clock, process, control, threads, disk, ghost
<1>8. CASE WriteReplace
  BY <1>8 DEF WriteReplace, Marks, Control, Steps, AfterWrite, clock, process
<1>9. CASE Touch
  BY <1>9 DEF Touch, Control, Steps, AfterRoll, AfterWrite, clock, process, control, threads, disk, ghost
<1>10. CASE TouchOpen
  BY <1>10 DEF TouchOpen, Control, Steps, AfterRoll, AfterWrite, clock, process, control, threads, disk, ghost
<1>11. CASE TouchWrite
  BY <1>11 DEF TouchWrite, Control, Steps, AfterRoll, AfterWrite, clock, process, control, threads, disk, ghost
<1>12. CASE TouchReplace
  BY <1>12 DEF TouchReplace, Marks, Control, Steps, clock, process, control
<1>13. CASE Stop
  BY <1>13 DEF Stop, Control, Steps, AfterRoll, AfterWrite, clock, process, control, threads, disk, ghost
<1>14. CASE Exit
  BY <1>14 DEF Exit, Control, Steps, AfterRoll, AfterWrite, clock, process, control, threads, disk, ghost
<1>15. CASE Kill
  <2>1. pc = "append" => rolling \in Session
    BY DEF Control
  <2>2. IsLog(log', Session)
    BY <1>15, <2>1, CutShortKeeps DEF Control, Kill, Keeps
  <2>3. IsLog(registry', Configs)
    BY <1>15, CutShortKeeps DEF Control, Kill, Keeps
  <2> QED
    BY <1>15, <2>2, <2>3 DEF Kill, Control, Steps, process
<1>16. CASE Tick
  BY <1>16, BoundAssumption DEF Tick, Control, Steps, process, control, threads, disk, ghost
<1>17. CASE UNCHANGED vars
  BY <1>17 DEF Control, vars, clock, process, control, threads, disk, ghost
<1>18. CASE RollReadFails
  BY <1>18 DEF RollReadFails, Control, Steps, AfterRoll, process
<1> QED
  BY <1>1, <1>2, <1>3, <1>4, <1>5, <1>6, <1>7, <1>8, <1>9, <1>10, <1>11, <1>12, <1>13, <1>14, <1>15, <1>16, <1>17, <1>18 DEF Next

\* The temporary file a thread opens is not the marker, and the marker's stays.
LEMMA OpenedFile ==
    ASSUME Names, mine.file = 0 \/ other.file = 0, NEW session \in Session
    PROVE  LET o == Opened(session) IN
           /\ o.tmp \in Files /\ o.tmp # marker
           /\ o.thread = [step |-> "write", session |-> session, file |-> o.tmp]
           /\ o.content = [content EXCEPT ![o.tmp] = Empty]
<1> DEFINE file == IF tmp = 0 THEN Fresh ELSE tmp
<1>1. file \in Files /\ file # marker
  <2>1. CASE tmp = 0
    <3>1. \E f \in Files : f \notin {marker, tmp, mine.file, other.file}
      <4>1. PICK z \in {mine.file, other.file} : {mine.file, other.file} \subseteq {0, z}
        OBVIOUS
      <4>2. \E f \in Files : f # marker /\ f # z /\ f # 0
        BY 1 \in Files, 2 \in Files, 3 \in Files, 1 # 2, 1 # 3, 2 # 3, 0 \notin Files DEF Files
      <4> QED
        BY <2>1, <4>1, <4>2
    <3> QED
      BY <2>1, <3>1 DEF Fresh
  <2>2. CASE tmp # 0
    BY <2>2 DEF Names
  <2> QED
    BY <2>1, <2>2
<1>2. Opened(session) = [thread |-> [step |-> "write", session |-> session, file |-> file],
                         content |-> [content EXCEPT ![file] = Empty], tmp |-> file]
  BY DEF Opened
<1> HIDE DEF file
<1> QED
  BY <1>1, <1>2

LEMMA ThreadsSteps == ASSUME Control, Threads, Disk, [Next]_vars PROVE Threads'
<1> USE DEF Threads, Ours
<1>0. /\ Idle.step = "idle" /\ Idle.file = 0 /\ Idle.session = Empty
      /\ mine # Idle => mine.file = mine.file
  BY DEF Idle
<1>1. ASSUME NEW c \in Configs, Boot(c) PROVE Threads'
  BY <1>1 DEF Boot, Control, clock, threads
<1>2. CASE Register
  BY <1>2 DEF Register, Control, threads
<1>3. CASE RollRead
  BY <1>3 DEF RollRead, Control, AfterRoll, clock, process, threads, ghost
<1>4. CASE RollAppend
  BY <1>4 DEF RollAppend, Control, AfterRoll, process, threads
<1>5. CASE RollUnlink
  BY <1>5 DEF RollUnlink, Control, AfterRoll, clock, process, threads, ghost
<1>6. CASE WriteOpen
  <2>1. Current(closing) \in Session /\ Current(closing).run = run
    BY <1>6, CurrentSession DEF WriteOpen, Control
  <2>2. mine = Idle
    BY <1>6 DEF WriteOpen
  <2> DEFINE th == Opened(Current(closing)).thread
  <2>3. th.step = "write" /\ Ours(th)
    <3>1. th = [step |-> "write", session |-> Current(closing), file |-> Opened(Current(closing)).tmp]
      BY <1>0, <2>1, <2>2, OpenedFile DEF Disk
    <3> HIDE DEF th
    <3> QED
      BY <2>1, <3>1
  <2>4. \/ mine' = th /\ pc' = "write" /\ excused' = excused
        \/ mine' = mine /\ pc' = AfterWrite /\ excused \subseteq excused'
    BY <1>6 DEF WriteOpen
  <2>5. UNCHANGED <<run, closing, other>> /\ pc = "open"
    BY <1>6 DEF WriteOpen, process
  <2> HIDE DEF th
  <2> QED
    BY <2>2, <2>3, <2>4, <2>5 DEF AfterWrite
<1>7. CASE Write
  BY <1>7 DEF Write, Control, clock, process, threads, ghost
<1>8. CASE WriteReplace
  BY <1>8 DEF WriteReplace, Control, AfterWrite, clock, process
<1>9. CASE Touch
  <2>1. Current(FALSE) \in Session /\ Current(FALSE).run = run
    BY <1>9, CurrentSession DEF Touch
  <2>2. other' = [step |-> "open", session |-> Current(FALSE), file |-> 0]
    BY <1>9 DEF Touch
  <2>3. UNCHANGED <<run, pc, closing, mine, excused>> /\ pc = "running"
    BY <1>9 DEF Touch, process, control, ghost
  <2> HIDE DEF Ours
  <2>4. Ours(other)' /\ other'.step = "open" /\ other'.file = 0
    BY <2>1, <2>2, <2>3 DEF Ours
  <2>5. ~(pc' \in {"write", "replace"}) /\ mine' = Idle
    BY <2>3
  <2> QED
    BY <2>3, <2>4, <2>5
<1>10. CASE TouchOpen
  <2>1. other # Idle /\ other.file = 0 /\ other.session \in Session /\ other.session.run = run
    BY <1>0, <1>10 DEF TouchOpen
  <2>2. other' = [step |-> "write", session |-> other.session, file |-> Opened(other.session).tmp]
    BY <1>10, <2>1, OpenedFile DEF TouchOpen, Disk
  <2>3. UNCHANGED <<run, pc, closing, mine, excused>>
    BY <1>10 DEF TouchOpen, process, control, ghost
  <2> QED
    BY <2>1, <2>2, <2>3
<1>11. CASE TouchWrite
  <2>1. other # Idle /\ other' = [other EXCEPT !.step = "replace"]
    BY <1>0, <1>11 DEF TouchWrite
  <2>2. other' = [step |-> "replace", session |-> other.session, file |-> other.file]
    BY <2>1
  <2>3. UNCHANGED <<run, pc, closing, mine, excused>>
    BY <1>11 DEF TouchWrite, process, control, ghost
  <2> QED
    BY <2>1, <2>2, <2>3
<1>12. CASE TouchReplace
  <2>1. UNCHANGED <<run, pc, closing, mine, excused>> /\ other' = Idle
    BY <1>12 DEF TouchReplace, process, control
  <2> QED
    BY <1>0, <2>1
<1>13. CASE Stop
  BY <1>13 DEF Stop, Control, clock, process, threads
<1>14. CASE Exit
  BY <1>14 DEF Exit, Control, clock, process, threads, ghost
<1>15. CASE Kill
  <2>1. mine' = Idle /\ other' = Idle /\ pc' = "down"
    BY <1>15 DEF Kill
  <2> QED
    BY <1>0, <2>1
<1>16. CASE Tick
  BY <1>16 DEF Tick, process, control, threads, ghost
<1>17. CASE UNCHANGED vars
  BY <1>17 DEF vars, process, control, threads, ghost
<1>18. CASE RollReadFails
  BY <1>18 DEF RollReadFails, Control, AfterRoll, process, threads
<1> QED
  BY <1>1, <1>2, <1>3, <1>4, <1>5, <1>6, <1>7, <1>8, <1>9, <1>10, <1>11, <1>12, <1>13, <1>14, <1>15, <1>16, <1>17, <1>18 DEF Next

\* What the three operations of a thread do to the files.
LEMMA FileSteps ==
    ASSUME Names
    PROVE  /\ \A session \in Session : (mine.file = 0 \/ other.file = 0) =>
                  LET o == Opened(session) IN
                  marker' = marker /\ tmp' = o.tmp /\ content' = o.content =>
                      Names' /\ (marker # 0 => content'[marker] = content[marker])
           /\ \A th : th.session \in Session /\ Written(th) =>
                  Names' /\ \A f \in Files : content'[f] = IF f = th.file THEN th.session ELSE content[f]
           /\ Replaced => /\ Names'
                          /\ tmp = 0 => marker' = marker /\ content' = content
                          /\ tmp # 0 => marker' = tmp /\ content'[tmp] = content[tmp]
<1>1. ASSUME NEW session \in Session, mine.file = 0 \/ other.file = 0,
             marker' = marker, tmp' = Opened(session).tmp, content' = Opened(session).content
      PROVE  Names' /\ (marker # 0 => content'[marker] = content[marker])
  <2>1. /\ tmp' \in Files /\ tmp' # marker
        /\ content' = [content EXCEPT ![tmp'] = Empty]
    BY <1>1, OpenedFile
  <2> QED
    BY <1>1, <2>1 DEF Names
<1>2. ASSUME NEW th, th.session \in Session, Written(th)
      PROVE  Names' /\ \A f \in Files : content'[f] = IF f = th.file THEN th.session ELSE content[f]
  BY <1>2 DEF Written, Names
<1>3. ASSUME Replaced
      PROVE  /\ Names'
             /\ tmp = 0 => marker' = marker /\ content' = content
             /\ tmp # 0 => marker' = tmp /\ content'[tmp] = content[tmp]
  <2>1. CASE tmp = 0
    BY <1>3, <2>1 DEF Replaced, disk, Names
  <2>2. CASE tmp # 0
    <3>1. /\ marker' = tmp /\ tmp' = 0
          /\ content' = [x \in Files |-> IF x = marker THEN Empty ELSE content[x]]
      BY <1>3, <2>2 DEF Replaced, Freed
    <3> QED
      BY <2>2, <3>1 DEF Names, Files
  <2> QED
    BY <2>1, <2>2
<1> QED
  BY <1>1, <1>2, <1>3

LEMMA DiskSteps == ASSUME Control, Threads, Disk, [Next]_vars PROVE Disk'
<1>0. /\ Idle.step = "idle" /\ Idle.file = 0
      /\ Names /\ (run \notin excused => Holds(pc, mine) /\ Holds(other.step, other))
      /\ ~(pc \in {"write", "replace"}) => mine = Idle
      /\ other # Idle => pc = "running" \/ (closing /\ run \in excused)
  BY DEF Idle, Disk, Threads
\* Without a step at the files.
<1>1. ASSUME UNCHANGED disk, pc' \notin {"write", "replace"},
             other' = Idle \/ (other' = other /\ run' = run /\ excused \subseteq excused')
                           \/ (other'.step = "open")
      PROVE  Disk'
  <2>1. Names'
    BY <1>0, <1>1 DEF Names, disk
  <2>2. Holds(pc, mine)'
    BY <1>1 DEF Holds
  <2>3. run' \notin excused' => Holds(other.step, other)'
    BY <1>0, <1>1 DEF Holds, disk
  <2> QED
    BY <2>1, <2>2, <2>3 DEF Disk
<1>2. ASSUME NEW c \in Configs, Boot(c) PROVE Disk'
  <2>1. other = Idle
    BY <1>0, <1>2 DEF Boot, Control
  <2> QED
    BY <1>1, <1>2, <2>1 DEF Boot, threads
<1>3. CASE Register
  BY <1>1, <1>3 DEF Register, threads
<1>4. CASE RollRead \/ RollReadFails \/ RollUnlink
  <2>1. Names'
    <3>1. marker' \in {marker, 0} /\ tmp' = tmp /\ (content' = content \/ content' = Freed(marker))
      BY <1>4 DEF RollRead, RollReadFails, RollUnlink
    <3> QED
      BY <1>0, <3>1 DEF Names, Freed
  <2>2. /\ pc' \notin {"write", "replace"} /\ UNCHANGED <<run, other, tmp>>
        /\ excused \subseteq excused' /\ pc \in {"read", "unlink"}
    BY <1>4 DEF RollRead, RollReadFails, RollUnlink, AfterRoll, process, threads, ghost
  <2>3. run \notin excused => other = Idle
    BY <1>0, <2>2
  <2> QED
    BY <1>0, <2>1, <2>2, <2>3 DEF Disk, Holds
<1>5. CASE RollAppend
  BY <1>1, <1>5 DEF RollAppend, AfterRoll, process, threads
<1>6. CASE WriteOpen
  <2>1. CASE mine' = Opened(Current(closing)).thread /\ pc' = "write"
    <3>1. Current(closing) \in Session
      BY <1>6, CurrentSession DEF WriteOpen, Control
    <3>2. mine = Idle /\ UNCHANGED <<run, other, marker>> /\ excused \subseteq excused' /\ pc = "open"
      BY <1>0, <1>6 DEF WriteOpen, process
    <3>3. tmp' = Opened(Current(closing)).tmp /\ content' = Opened(Current(closing)).content
      BY <1>6, <2>1 DEF WriteOpen, AfterWrite
    <3>4. Names'
      BY <1>0, <3>1, <3>2, <3>3, FileSteps
    <3>5. mine' = [step |-> "write", session |-> Current(closing), file |-> tmp'] /\ tmp' \in Files
      BY <1>0, <2>1, <3>1, <3>2, <3>3, OpenedFile
    <3>6. run \notin excused => other = Idle
      BY <1>0, <3>2
    <3> QED
      BY <1>0, <2>1, <3>2, <3>4, <3>5, <3>6 DEF Disk, Holds, Files
  <2>2. CASE pc' = AfterWrite /\ UNCHANGED <<mine, content, tmp>>
    BY <1>1, <1>6, <2>2 DEF WriteOpen, AfterWrite, process, disk
  <2> QED
    BY <1>6, <2>1, <2>2 DEF WriteOpen
<1>7. CASE Write
  <2>1. /\ mine.session \in Session /\ Written(mine) /\ pc' = "replace" /\ pc = "write"
        /\ UNCHANGED <<run, mine, other, excused, tmp>>
    BY <1>7 DEF Write, Written, Threads, Ours, process, threads, ghost
  <2>2. Names' /\ \A f \in Files : content'[f] = IF f = mine.file THEN mine.session ELSE content[f]
    BY <1>0, <2>1, FileSteps
  <2>3. run \notin excused => Holds(pc, mine)' /\ other = Idle
    <3>1. run \notin excused => tmp # 0 /\ tmp = mine.file /\ other = Idle
      BY <1>0, <2>1 DEF Holds
    <3> QED
      BY <1>0, <2>1, <2>2, <3>1 DEF Holds, Names
  <2> QED
    BY <1>0, <2>1, <2>2, <2>3 DEF Disk, Holds
<1>8. CASE WriteReplace
  <2>1. Names'
    BY <1>0, <1>8, FileSteps DEF WriteReplace
  <2>2. /\ pc' \notin {"write", "replace"} /\ UNCHANGED <<run, excused, other>> /\ pc = "replace"
    BY <1>8 DEF WriteReplace, AfterWrite, process
  <2>3. run \notin excused => other = Idle
    BY <1>0, <2>2
  <2> QED
    BY <1>0, <2>1, <2>2, <2>3 DEF Disk, Holds
<1>9. CASE Touch
  BY <1>1, <1>9 DEF Touch, control
<1>10. CASE TouchOpen
  <2>1. /\ other # Idle /\ other.file = 0 /\ other.session \in Session
        /\ UNCHANGED <<run, excused, mine, marker, pc>>
    BY <1>0, <1>10 DEF TouchOpen, Threads, Ours, process, control, ghost
  <2>2. tmp' = Opened(other.session).tmp /\ content' = Opened(other.session).content
    BY <1>10 DEF TouchOpen
  <2>3. Names'
    BY <1>0, <2>1, <2>2, FileSteps
  <2>4. other' = [step |-> "write", session |-> other.session, file |-> tmp'] /\ tmp' \in Files
    BY <1>0, <1>10, <2>1, <2>2, OpenedFile DEF TouchOpen
  <2>5. run \notin excused => pc = "running"
    BY <1>0, <2>1
  <2> QED
    BY <2>1, <2>3, <2>4, <2>5 DEF Disk, Holds, Files
<1>11. CASE TouchWrite
  <2>1. /\ other # Idle /\ other.step = "write" /\ other.session \in Session
        /\ Written(other) /\ UNCHANGED <<run, excused, mine, pc, tmp>>
        /\ other' = [step |-> "replace", session |-> other.session, file |-> other.file]
    BY <1>0, <1>11 DEF TouchWrite, Written, Threads, Ours, process, control, ghost
  <2>2. Names' /\ \A f \in Files : content'[f] = IF f = other.file THEN other.session ELSE content[f]
    BY <1>0, <2>1, FileSteps
  <2>3. run \notin excused => pc = "running" /\ tmp # 0 /\ tmp = other.file
    BY <1>0, <2>1 DEF Holds
  <2>4. run \notin excused => content'[tmp] = other.session
    BY <1>0, <2>2, <2>3 DEF Names
  <2> QED
    BY <2>1, <2>2, <2>3, <2>4 DEF Disk, Holds
<1>12. CASE TouchReplace
  <2>1. Names'
    BY <1>0, <1>12, FileSteps DEF TouchReplace
  <2>2. UNCHANGED <<run, excused, mine, pc>> /\ other' = Idle /\ other # Idle
    BY <1>0, <1>12 DEF TouchReplace, process, control
  <2>3. run \notin excused => pc = "running"
    BY <1>0, <2>2
  <2> QED
    BY <1>0, <2>1, <2>2, <2>3 DEF Disk, Holds
<1>13. CASE Stop
  BY <1>1, <1>13 DEF Stop, process, threads
<1>14. CASE Exit
  BY <1>1, <1>14 DEF Exit, process, threads, ghost
<1>15. CASE Kill
  BY <1>1, <1>15 DEF Kill
<1>16. CASE Tick
  BY <1>0, <1>16 DEF Tick, Disk, Names, Holds, process, control, threads, disk, ghost
<1>17. CASE UNCHANGED vars
  BY <1>0, <1>17 DEF vars, Disk, Names, Holds, process, control, threads, disk, ghost
<1> QED
  BY <1>2, <1>3, <1>4, <1>5, <1>6, <1>7, <1>8, <1>9, <1>10, <1>11, <1>12, <1>13, <1>14, <1>15, <1>16, <1>17 DEF Next

LEMMA BegunSteps == ASSUME Control, Threads, Begun, [Next]_vars PROVE Begun'
<1> USE DEF Begun, Steps
<1>1. ASSUME NEW c \in Configs, Boot(c) PROVE Begun'
  <2>1. run \in Nat /\ run' = run + 1 /\ begun' = begun
    BY <1>1 DEF Boot, Control, ghost
  <2> QED
    BY <2>1
<1>2. CASE WriteReplace
  BY <1>2 DEF WriteReplace, AfterWrite, Control, process
<1>3. CASE Kill
  BY <1>3 DEF Kill, process
<1>4. CASE Register \/ RollRead \/ RollReadFails \/ RollAppend \/ RollUnlink
  BY <1>4 DEF Register, RollRead, RollReadFails, RollAppend, RollUnlink, AfterRoll, process, ghost
<1>5. CASE WriteOpen \/ Write
  BY <1>5 DEF WriteOpen, Write, AfterWrite, process, ghost
<1>6. CASE Touch \/ TouchOpen \/ TouchWrite \/ TouchReplace
  BY <1>6 DEF Touch, TouchOpen, TouchWrite, TouchReplace, process, control, ghost
<1>7. CASE Stop \/ Exit
  BY <1>7 DEF Stop, Exit, process, ghost
<1>8. CASE Tick \/ UNCHANGED vars
  BY <1>8 DEF Tick, vars, process, control, ghost
<1> QED
  BY <1>1, <1>2, <1>3, <1>4, <1>5, <1>6, <1>7, <1>8 DEF Next

\* A run that is due stays logged through a step that leaves its time alone.
LEMMA StaysLogged ==
    ASSUME NEW r, Logged(r), Safe(log) \subseteq Safe(log'), touched'[r] = touched[r]
    PROVE  Logged(r)'
BY DEF Logged, IsOf

\* What an append of the roll-over, cut short or not, leaves of the log.
LEMMA LogGrows ==
    ASSUME Control, [Next]_vars
    PROVE  /\ Safe(log) \subseteq Safe(log')
           /\ RollAppend /\ ~log.open /\ log' = Extended(log, rolling) => rolling \in Safe(log')
<1>1. pc = "append" => IsLog(log, Session) /\ rolling \in Session \cup {Torn}
  BY DEF Control
<1>2. pc = "append" => /\ Safe(log) \subseteq Safe(Extended(log, rolling))
                       /\ ~log.open => rolling \in Safe(Extended(log, rolling))
  BY <1>1, ExtendedKeeps DEF Keeps
<1>3. pc = "append" => \A new \in CutShort(log, rolling) : Safe(log) \subseteq Safe(new)
  BY <1>1, CutShortKeeps DEF Keeps
<1>4. CASE RollAppend
  BY <1>2, <1>3, <1>4 DEF RollAppend
<1>5. CASE Kill
  <2>1. log' = log \/ (pc = "append" /\ log' \in CutShort(log, rolling))
    BY <1>5 DEF Kill
  <2>2. ~RollAppend
    BY <1>5 DEF RollAppend, Kill, AfterRoll
  <2> QED
    BY <1>3, <2>1, <2>2
<1>6. CASE log' = log
  BY <1>2, <1>6 DEF RollAppend
<1>7. RollAppend \/ Kill \/ log' = log
  <2>1. ASSUME NEW c \in Configs, Boot(c) PROVE log' = log
    BY <2>1 DEF Boot
  <2>2. Register \/ RollRead \/ RollReadFails \/ RollUnlink \/ WriteOpen \/ Write \/ WriteReplace => log' = log
    BY DEF Register, RollRead, RollReadFails, RollUnlink, WriteOpen, Write, WriteReplace
  <2>3. Touch \/ TouchOpen \/ TouchWrite \/ TouchReplace \/ Stop \/ Exit \/ Tick \/ UNCHANGED vars => log' = log
    BY DEF Touch, TouchOpen, TouchWrite, TouchReplace, Stop, Exit, Tick, vars
  <2> QED
    BY <2>1, <2>2, <2>3 DEF Next
<1> QED
  BY <1>4, <1>5, <1>6, <1>7

LEMMA KeptSteps == ASSUME Inv, [Next]_vars PROVE Kept'
<1>0. /\ Control /\ Threads /\ Names /\ Begun /\ Kept /\ Safe(log) \subseteq Safe(log')
      /\ run \notin excused => Holds(pc, mine) /\ Holds(other.step, other)
      /\ ~(pc \in {"write", "replace"}) => mine = Idle
      /\ other # Idle => other.session.run = run /\ (pc = "running" \/ (closing /\ run \in excused))
      /\ Idle.step = "idle"
  BY LogGrows DEF Inv, Disk, Threads, Ours, Idle
\* What is logged stays so, and the marker is what it was: then the places of a
\* run are, too.
<1>1. ASSUME begun' = begun, excused \subseteq excused', touched' = touched
      PROVE  Due' \subseteq Due /\ \A r : Logged(r) => Logged(r)'
  BY <1>0, <1>1, StaysLogged DEF Due
<1>2. ASSUME marker' = marker, marker # 0 => content'[marker] = content[marker], touched' = touched
      PROVE  \A r : OnMarker(r) => OnMarker(r)'
  BY <1>2 DEF OnMarker, IsOf
<1>3. ASSUME begun' = begun, excused \subseteq excused', touched' = touched, run' = run,
             marker' = marker, marker # 0 => content'[marker] = content[marker],
             pc' \notin {"append", "unlink"},
             (pc' \in {"open", "write", "replace", "running"} \/ closing')
                 => (pc \in {"open", "write", "replace", "running"} \/ closing)
      PROVE  Kept'
  BY <1>0, <1>1, <1>2, <1>3 DEF Kept
<1>4. ASSUME NEW c \in Configs, Boot(c) PROVE Kept'
  <2>1. pc' = "register" /\ ~closing' /\ UNCHANGED <<begun, excused, touched, marker, content>>
    BY <1>0, <1>4 DEF Boot, Control, disk, ghost
  <2> QED
    BY <1>0, <1>1, <1>2, <2>1 DEF Kept
<1>5. CASE Register
  BY <1>3, <1>5 DEF Register, disk
<1>6. CASE RollRead
  <2>1. UNCHANGED <<begun, excused, touched, run, closing, content>> /\ pc = "read"
    BY <1>6 DEF RollRead, process, ghost
  <2>2. CASE marker = 0 \/ content[marker] = Empty
    <3>1. \A r \in Due : Logged(r)
      BY <1>0, <2>2, MarkAssumption DEF Kept, OnMarker, IsOf
    <3>2. pc' = AfterRoll
      BY <1>6, <2>2 DEF RollRead
    <3> QED
      BY <1>1, <2>1, <3>1, <3>2 DEF Kept, AfterRoll
  <2>3. CASE marker # 0 /\ content[marker] # Empty
    <3>1. pc' = "append" /\ rolling' = content[marker] /\ marker' = marker
      BY <1>6, <2>3 DEF RollRead
    <3> QED
      BY <1>0, <1>1, <1>2, <2>1, <3>1 DEF Kept
  <2> QED
    BY <2>2, <2>3
<1>7. CASE RollAppend
  <2>1. /\ UNCHANGED <<begun, touched, run, closing, marker, content>> /\ pc = "append"
        /\ rolling \in Session /\ excused \subseteq excused'
    BY <1>0, <1>7 DEF RollAppend, Control, process, disk
  \* Whoever is due for the marker alone is the run that is rolled over.
  <2>2. \A r \in Due : Logged(r) \/ (rolling.run = r /\ IsOf(rolling, r))
    BY <1>0, <2>1 DEF Kept, OnMarker, IsOf
  <2>3. CASE rolling.run \in excused'
    <3>1. \A r \in Due' : Logged(r)'
      BY <1>1, <2>1, <2>2, <2>3 DEF Due
    <3>2. pc' \in {"unlink", AfterRoll}
      BY <1>7 DEF RollAppend
    <3> QED
      BY <3>1, <3>2 DEF Kept, AfterRoll
  <2>4. CASE rolling.run \notin excused'
    <3>1. ~log.open /\ log' = Extended(log, rolling) /\ pc' = "unlink"
      BY <1>7, <2>4 DEF RollAppend
    <3>2. rolling \in Safe(log')
      BY <1>0, <1>7, <3>1, LogGrows
    <3>3. \A r \in Due : Logged(r)'
      BY <1>1, <2>1, <2>2, <3>2 DEF Logged, IsOf
    <3>4. \A r \in Due' : Logged(r)'
      BY <1>1, <2>1, <3>3
    <3> QED
      BY <3>1, <3>4 DEF Kept
  <2> QED
    BY <2>3, <2>4
<1>8. CASE RollUnlink
  <2>1. UNCHANGED <<begun, excused, touched, run, closing>> /\ pc = "unlink" /\ pc' = AfterRoll
    BY <1>8 DEF RollUnlink, process, ghost
  <2>2. \A r \in Due' : Logged(r)'
    BY <1>0, <1>1, <2>1 DEF Kept
  <2> QED
    BY <2>1, <2>2 DEF Kept, AfterRoll
<1>9. CASE WriteOpen
  <2>1. /\ UNCHANGED <<begun, touched, run, closing, marker>> /\ excused \subseteq excused'
        /\ pc = "open" /\ pc' \in {"write", AfterWrite}
    BY <1>9 DEF WriteOpen, process
  <2>2. marker # 0 => content'[marker] = content[marker]
    <3>1. CASE content' = Opened(Current(closing)).content /\ tmp' = Opened(Current(closing)).tmp
      <4>1. Current(closing) \in Session /\ mine.file = 0
        BY <1>0, <1>9, CurrentSession DEF WriteOpen, Control, Idle
      <4> QED
        BY <1>0, <2>1, <3>1, <4>1, FileSteps
    <3>2. CASE content' = content
      BY <3>2
    <3> QED
      BY <1>9, <3>1, <3>2 DEF WriteOpen
  <2> QED
    BY <1>3, <2>1, <2>2 DEF AfterWrite
<1>10. CASE Write
  <2>1. /\ UNCHANGED <<begun, excused, touched, run, closing, marker>>
        /\ pc = "write" /\ pc' = "replace" /\ mine.session \in Session /\ Written(mine)
    BY <1>0, <1>10 DEF Write, Written, Threads, Ours, process, ghost
  <2>2. CASE run \in excused
    <3>1. \A r \in Due' : Logged(r)'
      BY <1>0, <1>1, <2>1, <2>2 DEF Kept, Due
    <3> QED
      BY <2>1, <3>1 DEF Kept
  <2>3. CASE run \notin excused
    <3>1. mine.file = tmp /\ tmp # 0
      BY <1>0, <2>1, <2>3 DEF Holds
    <3>2. marker # 0 => content'[marker] = content[marker]
      BY <1>0, <2>1, <3>1, FileSteps DEF Names
    <3> QED
      BY <1>3, <2>1, <3>2
  <2> QED
    BY <2>2, <2>3
<1>11. CASE WriteReplace
  <2>1. /\ begun' = begun \cup {run} /\ UNCHANGED <<excused, run, closing>> /\ Replaced
        /\ pc = "replace" /\ pc' = AfterWrite
        /\ touched' = [touched EXCEPT ![mine.session.run] = mine.session.seen]
        /\ mine.session \in Session /\ mine.session.run = run /\ run \in 1..MaxRuns
    BY <1>0, <1>11 DEF WriteReplace, Marks, Threads, Ours, Control, process
  <2>2. \A r \in Due' \ {run} : Logged(r)'
    <3>1. \A r \in Due' \ {run} : r \in Due /\ Logged(r)
      BY <1>0, <2>1 DEF Kept, Due
    <3>2. \A r : r # run => touched'[r] = touched[r]
      BY <2>1
    <3> QED
      BY <1>0, <3>1, <3>2, StaysLogged
  <2>3. run \notin excused => OnMarker(run)'
    <3>1. run \notin excused => tmp # 0 /\ content[tmp] = mine.session
      BY <1>0, <2>1 DEF Holds
    <3>2. run \notin excused => marker' = tmp /\ content'[tmp] = mine.session
      BY <1>0, <2>1, <3>1, FileSteps
    <3>3. touched'[run] = mine.session.seen /\ mine.session.seen >= mine.session.seen
      BY <1>0, <2>1, BoundAssumption DEF Control, Session
    <3> QED
      BY <2>1, <3>1, <3>2, <3>3 DEF OnMarker, IsOf
  <2>4. \A r \in Due' : Logged(r)' \/ OnMarker(r)'
    BY <2>1, <2>2, <2>3 DEF Due
  <2> QED
    BY <2>1, <2>2, <2>4 DEF Kept, AfterWrite
<1>12. CASE Touch
  BY <1>3, <1>12 DEF Touch, process, control, disk, ghost
<1>13. CASE TouchOpen
  <2>1. /\ UNCHANGED <<begun, excused, touched, run, closing, marker, pc, rolling>>
        /\ other # Idle /\ other.file = 0 /\ other.session \in Session
        /\ content' = Opened(other.session).content /\ tmp' = Opened(other.session).tmp
    BY <1>0, <1>13 DEF TouchOpen, Threads, Ours, process, control, ghost
  <2>2. marker # 0 => content'[marker] = content[marker]
    BY <1>0, <2>1, FileSteps
  <2>3. CASE pc = "running"
    BY <1>3, <2>1, <2>2, <2>3
  <2>4. CASE closing /\ run \in excused
    <3>1. \A r \in Due' : Logged(r)'
      BY <1>0, <1>1, <2>1, <2>4 DEF Kept, Due
    <3> QED
      BY <3>1 DEF Kept
  <2> QED
    BY <1>0, <2>1, <2>3, <2>4
<1>14. CASE TouchWrite
  <2>1. /\ UNCHANGED <<begun, excused, touched, run, closing, marker, pc>>
        /\ other # Idle /\ other.step = "write" /\ other.session \in Session /\ Written(other)
    BY <1>0, <1>14 DEF TouchWrite, Written, Threads, Ours, process, control, ghost
  <2>2. CASE run \in excused
    <3>1. \A r \in Due' : Logged(r)'
      BY <1>0, <1>1, <2>1, <2>2 DEF Kept, Due
    <3> QED
      BY <3>1 DEF Kept
  <2>3. CASE run \notin excused
    <3>1. other.file = tmp /\ tmp # 0 /\ pc = "running"
      BY <1>0, <2>1, <2>3 DEF Holds
    <3>2. marker # 0 => content'[marker] = content[marker]
      BY <1>0, <2>1, <3>1, FileSteps DEF Names
    <3> QED
      BY <1>3, <2>1, <3>1, <3>2
  <2> QED
    BY <2>2, <2>3
<1>15. CASE TouchReplace
  <2>1. /\ UNCHANGED <<begun, excused, run, closing, pc>> /\ Replaced
        /\ other # Idle /\ other.step = "replace" /\ other.session \in Session /\ other.session.run = run
        /\ touched' = IF pc = "running" THEN [touched EXCEPT ![run] = other.session.seen] ELSE touched
        /\ run \in 1..MaxRuns
    BY <1>0, <1>15 DEF TouchReplace, Marks, Threads, Ours, Control, process, control
  <2>2. \A r \in Due' \ {run} : Logged(r)'
    <3>1. \A r \in Due' \ {run} : Logged(r)
      BY <1>0, <2>1 DEF Kept, Due
    <3>2. \A r : r # run => touched'[r] = touched[r]
      BY <2>1
    <3> QED
      BY <1>0, <3>1, <3>2, StaysLogged
  <2>3. CASE run \in excused
    <3>1. \A r \in Due' : Logged(r)'
      BY <2>1, <2>2, <2>3 DEF Due
    <3> QED
      BY <3>1 DEF Kept
  <2>4. CASE run \notin excused
    <3>1. pc = "running" /\ tmp # 0 /\ content[tmp] = other.session
      BY <1>0, <2>1, <2>4 DEF Holds
    <3>2. marker' = tmp /\ content'[tmp] = other.session
      BY <1>0, <2>1, <3>1, FileSteps
    <3>3. touched'[run] = other.session.seen /\ other.session.seen >= other.session.seen
      BY <1>0, <2>1, <3>1, BoundAssumption DEF Control, Session
    <3>4. OnMarker(run)'
      BY <2>1, <3>1, <3>2, <3>3 DEF OnMarker, IsOf
    <3> QED
      BY <2>1, <2>2, <3>1, <3>4 DEF Kept
  <2> QED
    BY <2>3, <2>4
<1>16. CASE Stop
  <2>1. UNCHANGED <<begun, touched, run, marker, content>> /\ excused \subseteq excused' /\ pc = "running" /\ pc' = "open"
    BY <1>16 DEF Stop, process, disk
  <2> QED
    BY <1>3, <2>1
<1>17. CASE Exit
  <2>1. UNCHANGED <<begun, excused, touched, run, marker, content>> /\ pc' = "down" /\ ~closing'
    BY <1>17 DEF Exit, process, disk, ghost
  <2> QED
    BY <1>3, <2>1
<1>18. CASE Kill
  <2>1. UNCHANGED <<begun, excused, touched, run, marker, content>> /\ pc' = "down" /\ ~closing'
    BY <1>18 DEF Kill, process, disk
  <2> QED
    BY <1>3, <2>1
<1>19. CASE Tick \/ UNCHANGED vars
  <2>1. UNCHANGED <<begun, excused, touched, run, pc, closing, rolling, marker, content, log>>
    BY <1>19 DEF Tick, vars, process, control, disk, ghost
  <2> QED
    BY <1>0, <2>1 DEF Kept, Due, Logged, OnMarker, IsOf
\* The run of the marker that was not read is excused, and whoever else is due
\* is logged.
<1>20. CASE RollReadFails
  <2>1. /\ UNCHANGED <<begun, touched, run, closing>> /\ pc' = AfterRoll
        /\ excused' = excused \cup {content[marker].run}
    BY <1>20 DEF RollReadFails, process
  <2>2. \A r \in Due' : r \in Due /\ r # content[marker].run
    BY <2>1 DEF Due
  <2>3. \A r \in Due' : Logged(r)'
    BY <1>0, <1>1, <2>1, <2>2 DEF Kept, OnMarker, IsOf
  <2> QED
    BY <2>1, <2>3 DEF Kept, AfterRoll
<1> QED
  BY <1>4, <1>5, <1>6, <1>7, <1>8, <1>9, <1>10, <1>11, <1>12, <1>13, <1>14, <1>15, <1>16, <1>17, <1>18, <1>19, <1>20 DEF Next

-----------------------------------------------------------------------------
LEMMA InvHolds == Spec => []Inv
<1>1. Init => Inv
  <2> SUFFICES ASSUME Init PROVE Inv
    OBVIOUS
  <2> USE DEF Init
  <2>1. Idle.step = "idle"
    BY DEF Idle
  <2>2. IsLog(NewLog, Session) /\ IsLog(NewLog, Configs)
    <3>1. \A S : <<>> \in Seq(S \cup {Torn})
      OBVIOUS
    <3> QED
      BY <3>1 DEF IsLog, NewLog
  <2>3. Control
    <3>1. 0 \in 0..MaxTime /\ 0 \in 0..MaxRuns /\ 0 \in 0..0
      BY BoundAssumption
    <3> QED
      BY <2>2, <3>1 DEF Control, Steps
  <2>4. Threads
    BY <2>1 DEF Threads
  <2>5. Disk
    BY <2>1 DEF Disk, Names, Holds, Files
  <2>6. Begun /\ Kept
    BY DEF Begun, Kept, Due
  <2> QED
    BY <2>3, <2>4, <2>5, <2>6 DEF Inv
<1>2. Inv /\ [Next]_vars => Inv'
  BY ControlSteps, ThreadsSteps, DiskSteps, BegunSteps, KeptSteps DEF Inv
<1> QED
  BY <1>1, <1>2, PTL DEF Spec

\* What is read: of the log and of the marker.
LEMMA LoadedFrom ==
    ASSUME Control
    PROVE  /\ Loaded = Parsed(log) \cup (IF IsMarked THEN {content[marker]} ELSE {})
           /\ IsFiniteSet(Places) /\ DOMAIN LoadSessions = Places
<1>1. DOMAIN log.rows = 1..Len(log.rows) /\ Len(log.rows) \in Nat
  BY LenProperties DEF Control, IsLog
<1> DEFINE Rows == {i \in DOMAIN log.rows : log.rows[i] # Torn}
<1>2. 0 \notin Rows /\ \A i \in Rows : i # 0
  BY <1>1
<1>3. Places = Rows \cup (IF IsMarked THEN {0} ELSE {})
  BY DEF Places
<1>4. {log.rows[i] : i \in Rows} = Parsed(log)
  BY DEF Parsed, ToSet
<1>5. IsFiniteSet(Places)
  <2>1. IsFiniteSet(1..Len(log.rows))
    BY <1>1, FS_Interval
  <2>2. IsFiniteSet(Rows)
    BY <1>1, <2>1, FS_Subset
  <2> HIDE DEF Rows
  <2>3. IsFiniteSet(Rows \cup {0})
    BY <2>2, FS_AddElement
  <2> QED
    BY <1>3, <2>2, <2>3
<1>6. \A i \in Places : LoadSessions[i] = IF i = 0 THEN content[marker] ELSE log.rows[i]
  BY DEF LoadSessions
<1>7. DOMAIN LoadSessions = Places
  BY DEF LoadSessions
<1>8. Loaded = {LoadSessions[i] : i \in Places}
  BY DEF Loaded
<1> HIDE DEF Rows
<1> QED
  BY <1>2, <1>3, <1>4, <1>5, <1>6, <1>7, <1>8

\* Once begun, a run is found in the log or in the marker, dated no earlier than
\* its last refresh: wherever it and the starts after it are killed, unless a
\* marker or a row of its own fails at the disk, or its worker was in the middle
\* of a refresh at the stop (Sessions!NoRunForgotten).
THEOREM RunsAreFound == Spec => []NoRunForgotten
<1>1. Inv => NoRunForgotten
  <2> SUFFICES ASSUME Inv, NEW r \in begun \ excused
               PROVE  \E s \in Loaded : s.run = r /\ s.seen >= touched[r]
    BY DEF NoRunForgotten
  <2>1. CASE Logged(r)
    <3>1. PICK s \in Safe(log) : IsOf(s, r)
      BY <2>1 DEF Logged
    <3>2. s \in ToSet(log.rows)
      <4>1. log.rows \in Seq(Session \cup {Torn}) /\ (log.open => log.rows # <<>>)
        BY DEF Inv, Control, IsLog
      <4>2. log.open => ToSet(Front(log.rows)) \subseteq ToSet(log.rows)
        BY <4>1, Shortened
      <4> QED
        BY <3>1, <4>2 DEF Safe
    <3> QED
      BY <3>1, <3>2, LoadedFrom, MarkAssumption DEF Inv, Parsed, IsOf
  <2>2. CASE OnMarker(r)
    <3>1. IsMarked
      BY <2>2, MarkAssumption DEF IsMarked, OnMarker, IsOf
    <3> QED
      BY <2>2, <3>1, LoadedFrom DEF Inv, OnMarker, IsOf
  <2> QED
    BY <2>1, <2>2 DEF Inv, Kept, Due
<1> QED
  BY <1>1, InvHolds, PTL

-----------------------------------------------------------------------------
(* Where a session can come from. *)

\* The sessions made: at the writes of begin() and finish(), and at a refresh.
Made == IF pc \in {"open", "running"} THEN {Current(closing)} ELSE {}

LEMMA Sources == ASSUME Inv, [Next]_vars PROVE Everywhere' \subseteq Everywhere \cup Made
<1> DEFINE Memory == {x \in {rolling, mine.session, other.session} : x # Empty}
           Stored == {content[f] : f \in Files} \ {Empty}
<1>0. /\ Control /\ Threads /\ Names /\ Idle.session = Empty
      /\ Everywhere = Parsed(log) \cup Stored \cup Memory
  BY DEF Inv, Disk, Everywhere, Idle
<1>1. ASSUME Parsed(log') \subseteq Parsed(log) \cup {rolling}, rolling \in Session \/ log' = log,
             \A f \in Files : content'[f] \in {content[f], Empty} \cup ({mine.session, other.session} \ {Empty}),
             rolling' \in {rolling, Empty} \cup Stored,
             mine'.session \in {mine.session, Empty} \cup Made,
             other'.session \in {other.session, Empty} \cup Made
      PROVE  Everywhere' \subseteq Everywhere \cup Made
  <2>1. rolling \in Session => rolling \in Memory
    BY MarkAssumption
  <2>2. Parsed(log') \subseteq Everywhere
    BY <1>0, <1>1, <2>1
  <2>3. Stored' \subseteq Everywhere
    BY <1>0, <1>1
  <2>4. Memory' \subseteq Everywhere \cup Made
    BY <1>0, <1>1
  <2> QED
    BY <2>2, <2>3, <2>4 DEF Everywhere
<1>2. ASSUME NEW c \in Configs, Boot(c) PROVE Everywhere' \subseteq Everywhere \cup Made
  BY <1>1, <1>2 DEF Boot, threads, disk
<1>3. CASE Register
  BY <1>1, <1>3 DEF Register, threads, disk
<1>4. CASE RollRead
  <2>1. rolling' = rolling \/ (marker \in Files /\ rolling' = content[marker] /\ content[marker] # Empty)
    BY <1>0, <1>4 DEF RollRead, Names
  <2>2. UNCHANGED <<log, content, mine, other>>
    BY <1>4 DEF RollRead, threads
  <2> QED
    BY <1>1, <2>1, <2>2
<1>5. CASE RollAppend
  <2>1. rolling \in Session /\ Parsed(log') \subseteq Parsed(log) \cup {rolling}
    <3>1. rolling \in Session /\ IsLog(log, Session)
      BY <1>0, <1>5 DEF RollAppend, Control
    <3>2. Parsed(Extended(log, rolling)) \subseteq Parsed(log) \cup {rolling}
      BY <3>1, ExtendedKeeps DEF Keeps
    <3>3. \A new \in CutShort(log, rolling) : Parsed(new) \subseteq Parsed(log) \cup {rolling}
      BY <3>1, CutShortKeeps DEF Keeps
    <3> QED
      BY <1>5, <3>1, <3>2, <3>3 DEF RollAppend
  <2>2. UNCHANGED <<content, mine, other>> /\ rolling' = Empty
    BY <1>5 DEF RollAppend, threads, disk
  <2> QED
    BY <1>1, <2>1, <2>2
<1>6. CASE RollReadFails \/ RollUnlink
  <2>1. UNCHANGED <<log, rolling, mine, other>> /\ \A f \in Files : content'[f] \in {content[f], Empty}
    BY <1>6 DEF RollReadFails, RollUnlink, Freed, threads
  <2> QED
    BY <1>1, <2>1
<1>7. CASE WriteOpen
  <2>1. /\ UNCHANGED <<log, rolling, other>> /\ pc = "open" /\ Made = {Current(closing)}
        /\ Current(closing) \in Session /\ mine = Idle
    BY <1>0, <1>7, CurrentSession DEF WriteOpen, Control, Threads, Made
  <2> DEFINE o == Opened(Current(closing))
  <2>2. (mine' = o.thread /\ content' = o.content) \/ (mine' = mine /\ content' = content)
    BY <1>7 DEF WriteOpen
  <2>3. /\ o.thread = [step |-> "write", session |-> Current(closing), file |-> o.tmp]
        /\ o.content = [content EXCEPT ![o.tmp] = Empty]
    BY <1>0, <2>1, OpenedFile DEF Idle
  <2> HIDE DEF o
  <2>4. mine'.session \in {mine.session} \cup Made
    BY <2>1, <2>2, <2>3
  <2>5. \A f \in Files : content'[f] \in {content[f], Empty}
    BY <1>0, <2>2, <2>3 DEF Names
  <2> QED
    BY <1>1, <2>1, <2>4, <2>5
<1>8. CASE Write
  <2>1. UNCHANGED <<log, rolling, mine, other>> /\ mine.session \in Session /\ Written(mine)
    BY <1>0, <1>8 DEF Write, Threads, Ours, threads
  <2>2. \A f \in Files : content'[f] = IF f = mine.file THEN mine.session ELSE content[f]
    BY <1>0, <2>1, FileSteps
  <2> QED
    BY <1>1, <2>1, <2>2, MarkAssumption
<1>9. CASE WriteReplace
  <2>1. UNCHANGED <<log, rolling, other>> /\ mine' = Idle /\ Replaced
    BY <1>9 DEF WriteReplace
  <2>2. \A f \in Files : content'[f] \in {content[f], Empty}
    BY <2>1 DEF Replaced, Freed, disk
  <2> QED
    BY <1>0, <1>1, <2>1, <2>2
<1>10. CASE Touch
  <2>1. UNCHANGED <<log, content, rolling, mine>> /\ other'.session = Current(FALSE) /\ Made = {Current(closing)} /\ ~closing
    BY <1>0, <1>10 DEF Touch, Made, Control, control, disk
  <2>2. closing = FALSE
    BY <1>0, <2>1, Zenon DEF Control
  <2> QED
    BY <1>1, <2>1, <2>2
<1>11. CASE TouchOpen
  <2>1. /\ UNCHANGED <<log, rolling, mine>> /\ other # Idle /\ other.session \in Session /\ other.file = 0
        /\ other' = Opened(other.session).thread /\ content' = Opened(other.session).content
    BY <1>0, <1>11 DEF TouchOpen, Threads, Ours, control, Idle
  <2>2. /\ other' = [step |-> "write", session |-> other.session, file |-> Opened(other.session).tmp]
        /\ content' = [content EXCEPT ![Opened(other.session).tmp] = Empty]
    BY <1>0, <2>1, OpenedFile
  <2>3. other'.session = other.session /\ \A f \in Files : content'[f] \in {content[f], Empty}
    BY <1>0, <2>2 DEF Names
  <2> QED
    BY <1>1, <2>1, <2>3
<1>12. CASE TouchWrite
  <2>1. /\ UNCHANGED <<log, rolling, mine>> /\ other.session \in Session /\ Written(other)
        /\ other' = [step |-> "replace", session |-> other.session, file |-> other.file]
    BY <1>0, <1>12 DEF TouchWrite, Threads, Ours, control, Idle
  <2>2. \A f \in Files : content'[f] = IF f = other.file THEN other.session ELSE content[f]
    BY <1>0, <2>1, FileSteps
  <2> QED
    BY <1>1, <2>1, <2>2, MarkAssumption
<1>13. CASE TouchReplace
  <2>1. UNCHANGED <<log, rolling, mine>> /\ other' = Idle /\ Replaced
    BY <1>13 DEF TouchReplace, control
  <2>2. \A f \in Files : content'[f] \in {content[f], Empty}
    BY <2>1 DEF Replaced, Freed, disk
  <2> QED
    BY <1>0, <1>1, <2>1, <2>2
<1>14. CASE Stop \/ Exit \/ Tick \/ UNCHANGED vars
  <2>1. UNCHANGED <<log, content, rolling, mine, other>>
    BY <1>14 DEF Stop, Exit, Tick, vars, control, threads, disk
  <2> QED
    BY <1>1, <2>1
<1>15. CASE Kill
  <2>1. UNCHANGED content /\ rolling' = Empty /\ mine' = Idle /\ other' = Idle
    BY <1>15 DEF Kill, disk
  <2>2. log' = log \/ (rolling \in Session /\ log' \in CutShort(log, rolling))
    BY <1>0, <1>15 DEF Kill, Control
  <2>3. rolling \in Session => \A new \in CutShort(log, rolling) : Parsed(new) \subseteq Parsed(log) \cup {rolling}
    BY <1>0, CutShortKeeps DEF Keeps, Control
  <2> QED
    BY <1>0, <1>1, <2>1, <2>2, <2>3
<1> QED
  BY <1>2, <1>3, <1>4, <1>5, <1>6, <1>7, <1>8, <1>9, <1>10, <1>11, <1>12, <1>13, <1>14, <1>15 DEF Next

\* What is read of the log and the marker is somewhere.
LEMMA LoadedIsThere == ASSUME Inv PROVE Loaded \subseteq Everywhere \cap Session
<1>0. Parsed(log) \subseteq Session
  <2>1. log.rows \in Seq(Session \cup {Torn})
    BY DEF Inv, Control, IsLog
  <2>2. \A i \in DOMAIN log.rows : log.rows[i] \in Session \cup {Torn}
    BY <2>1, ElementOfSeq, LenProperties
  <2> QED
    BY <2>2 DEF Parsed, ToSet
<1>1. CASE IsMarked
  <2>1. content[marker] \in Session /\ content[marker] \in Everywhere
    BY <1>1 DEF IsMarked, Inv, Disk, Names, Everywhere
  <2> QED
    BY <1>0, <1>1, <2>1, LoadedFrom DEF Inv, Everywhere
<1>2. CASE ~IsMarked
  BY <1>0, <1>2, LoadedFrom DEF Inv, Everywhere
<1> QED
  BY <1>1, <1>2

LEMMA NothingAtFirst == Init => Everywhere = {}
<1>1. Init => Parsed(log) = {}
  BY DEF Init, NewLog, Parsed, ToSet
<1>2. Init => \A x \in Everywhere \ Parsed(log) : x = Empty /\ x # Empty
  BY DEF Init, Idle, Everywhere
<1> QED
  BY <1>1, <1>2

\* A run that is recorded as clean was stopped, never killed before
\* (Sessions!CleanMeansStopped).
THEOREM CleanRunsWereStopped == Spec => []CleanMeansStopped
<1>1. Init => CleanStopped
  BY NothingAtFirst DEF Init, CleanStopped
<1>2. Inv /\ CleanStopped /\ [Next]_vars => CleanStopped'
  <2> SUFFICES ASSUME Inv, CleanStopped, [Next]_vars PROVE CleanStopped'
    OBVIOUS
  <2>1. stopped \subseteq stopped'
    <3>1. ASSUME NEW c \in Configs, Boot(c) PROVE stopped' = stopped
      BY <3>1 DEF Boot, ghost
    <3>2. Register \/ RollRead \/ RollReadFails \/ RollAppend \/ RollUnlink \/ WriteOpen \/ Write \/ WriteReplace => stopped' = stopped
      BY DEF Register, RollRead, RollReadFails, RollAppend, RollUnlink, WriteOpen, Write, WriteReplace, ghost
    <3>3. Touch \/ TouchOpen \/ TouchWrite \/ TouchReplace \/ Exit \/ Kill \/ Tick \/ UNCHANGED vars => stopped' = stopped
      BY DEF Touch, TouchOpen, TouchWrite, TouchReplace, Exit, Kill, Tick, vars, ghost
    <3>4. Stop => stopped \subseteq stopped'
      BY DEF Stop
    <3> QED
      BY <3>1, <3>2, <3>3, <3>4 DEF Next
  <2>2. \A s \in Made : s.clean => s.run \in stopped
    <3>1. \A s \in Made : s.clean = closing /\ s.run = run
      BY CurrentSession DEF Made, Inv, Control
    <3> QED
      BY <3>1 DEF CleanStopped
  <2>3. \A s \in Everywhere' : s.clean => s.run \in stopped'
    BY <2>1, <2>2, Sources DEF CleanStopped
  <2>4. closing' => run' \in stopped'
    <3>1. ASSUME NEW c \in Configs, Boot(c) PROVE ~closing'
      BY <3>1 DEF Boot, Inv, Control
    <3>2. Register \/ RollRead \/ RollReadFails \/ RollAppend \/ RollUnlink \/ WriteOpen \/ Write \/ WriteReplace
             => closing' = closing /\ run' = run
      BY DEF Register, RollRead, RollReadFails, RollAppend, RollUnlink, WriteOpen, Write, WriteReplace, process
    <3>3. Touch \/ TouchOpen \/ TouchWrite \/ TouchReplace \/ Tick \/ UNCHANGED vars => closing' = closing /\ run' = run
      BY DEF Touch, TouchOpen, TouchWrite, TouchReplace, Tick, vars, process, control
    <3>4. Stop => run' \in stopped'
      BY DEF Stop, process
    <3>5. Exit \/ Kill => ~closing'
      BY DEF Exit, Kill
    <3> QED
      BY <2>1, <3>1, <3>2, <3>3, <3>4, <3>5 DEF Next, CleanStopped
  <2> QED
    BY <2>3, <2>4 DEF CleanStopped
<1>3. Inv /\ CleanStopped => CleanMeansStopped
  BY LoadedIsThere DEF CleanStopped, CleanMeansStopped
<1> QED
  BY <1>1, <1>2, <1>3, InvHolds, PTL DEF Spec

\* The parameters of every recorded run can be looked up, unless the disk refused
\* the registry's row or cut it short (Sessions!Attributable).
THEOREM RunsHaveTheirParameters == Spec => []Attributable
<1>1. Init => Registered
  <2>1. Init => Parsed(registry) = {} /\ pc = "down"
    BY DEF Init, NewLog, Parsed, ToSet
  <2> QED
    BY <2>1, NothingAtFirst DEF Registered
<1>2. Inv /\ Registered /\ [Next]_vars => Registered'
  <2> SUFFICES ASSUME Inv, Registered, [Next]_vars PROVE Registered'
    OBVIOUS
  <2>0. /\ IsLog(registry, Configs) /\ config \in Configs
        /\ Parsed(registry) \subseteq Known /\ (pc \notin {"down", "register"} => config \in Known)
    BY DEF Inv, Control, Registered
  <2>1. /\ Known \subseteq Known' /\ Parsed(registry') \subseteq Known'
        /\ pc' \notin {"down", "register"} => config' \in Known'
    <3>1. CASE Register
      <4>1. /\ Keeps(registry, Extended(registry, config), config, Configs)
            /\ ~registry.open => config \in Safe(Extended(registry, config))
            /\ Parsed(Extended(registry, config)) \subseteq Safe(Extended(registry, config))
        BY <2>0, ExtendedKeeps
      <4>2. \A new \in CutShort(registry, config) :
                 /\ Keeps(registry, new, config, Configs)
                 /\ new = registry \/ Parsed(new) \subseteq Safe(new) \cup {config}
        BY <2>0, CutShortKeeps
      <4>3. CASE IsRegistered /\ UNCHANGED <<registry, unregistered>>
        BY <2>0, <3>1, <4>3 DEF IsRegistered, Known, Register
      <4>4. CASE /\ registry' = Extended(registry, config)
                 /\ unregistered' = IF registry.open THEN unregistered \cup {config} ELSE unregistered
        BY <2>0, <3>1, <4>1, <4>4 DEF Known, Register, Keeps
      <4>5. CASE registry' \in CutShort(registry, config) /\ unregistered' = unregistered \cup {config}
        BY <2>0, <3>1, <4>2, <4>5 DEF Known, Register, Keeps
      <4> QED
        BY <3>1, <4>3, <4>4, <4>5 DEF Register
    <3>2. CASE Kill
      <4>1. pc' = "down"
        BY <3>2 DEF Kill
      <4>2. CASE registry' = registry
        BY <2>0, <3>2, <4>1, <4>2 DEF Kill, Known
      <4>3. CASE registry' # registry
        <5>1. registry' \in CutShort(registry, config) /\ unregistered' = unregistered \cup {config}
          BY <3>2, <4>3 DEF Kill
        <5>2. Safe(registry) \subseteq Safe(registry') /\ Parsed(registry') \subseteq Safe(registry') \cup {config}
          BY <2>0, <4>3, <5>1, CutShortKeeps DEF Keeps
        <5> QED
          BY <4>1, <5>1, <5>2 DEF Known
      <4> QED
        BY <4>2, <4>3
    <3>3. CASE UNCHANGED <<registry, unregistered>> /\ (pc' \in {"down", "register"} \/ (config' = config /\ pc \notin {"down", "register"}))
      BY <2>0, <3>3 DEF Known
    <3>4. ASSUME NEW c \in Configs, Boot(c)
          PROVE  UNCHANGED <<registry, unregistered>> /\ pc' = "register"
      BY <3>4 DEF Boot, ghost
    <3>5. RollRead \/ RollReadFails \/ RollAppend \/ RollUnlink \/ WriteOpen \/ Write \/ WriteReplace
             => UNCHANGED <<registry, unregistered, config>> /\ pc \notin {"down", "register"}
      BY DEF RollRead, RollReadFails, RollAppend, RollUnlink, WriteOpen, Write, WriteReplace, process, ghost
    <3>6. TouchOpen \/ TouchWrite \/ TouchReplace \/ Touch \/ Tick \/ UNCHANGED vars
             => UNCHANGED <<registry, unregistered, config, pc>>
      BY DEF Touch, TouchOpen, TouchWrite, TouchReplace, Tick, vars, process, control, ghost
    <3>7. Stop \/ Exit => UNCHANGED <<registry, unregistered, config>> /\ pc \notin {"down", "register"}
      BY DEF Stop, Exit, process, ghost
    <3> QED
      BY <3>1, <3>2, <3>3, <3>4, <3>5, <3>6, <3>7 DEF Next
  <2>2. \A s \in Made : s.config \in Known
    <3>1. \A s \in Made : s.config = config /\ pc \notin {"down", "register"}
      BY CurrentSession DEF Made, Inv, Control
    <3> QED
      BY <2>0, <3>1
  <2>3. \A s \in Everywhere' : s.config \in Known'
    BY <2>1, <2>2, Sources DEF Registered
  <2> QED
    BY <2>1, <2>3 DEF Registered
<1>3. Inv /\ Registered => Attributable
  <2> SUFFICES ASSUME Inv, Registered, NEW s \in Loaded PROVE s.config \in Parsed(registry) \cup unregistered
    BY DEF Attributable
  <2>1. s.config \in Known /\ s.config \in Configs
    BY LoadedIsThere DEF Registered, Session
  <2>2. Safe(registry) \subseteq ToSet(registry.rows)
    BY Shortened DEF Safe, Inv, Control, IsLog
  <2> QED
    BY <2>1, <2>2, MarkAssumption DEF Known, Parsed
<1> QED
  BY <1>1, <1>2, <1>3, InvHolds, PTL DEF Spec

-----------------------------------------------------------------------------
(* Loops: what a function on 0..N that is defined step by step is. *)

LEMMA LeastNumber ==
    ASSUME NEW S, S \subseteq Nat, S # {}
    PROVE  \E x \in S : \A y \in S : x <= y
<1> DEFINE L == OpToRel(<, Nat)
<1>1. \E x \in S : \A y \in S : ~(<<y, x>> \in L)
  <2>1. IsWellFoundedOn(L, Nat)
    BY NatLessThanWellFounded
  <2> HIDE DEF L
  <2> QED
    BY <2>1, WFMin
<1>2. \A x, y \in Nat : x < y => <<x, y>> \in L
  BY DEF OpToRel
<1> HIDE DEF L
<1>3. PICK x \in S : \A y \in S : ~(<<y, x>> \in L)
  BY <1>1
<1>4. \A y \in S : x <= y
  <2> TAKE y \in S
  <2>1. x \in Nat /\ y \in Nat /\ ~(<<y, x>> \in L)
    BY <1>3
  <2>2. ~(y < x)
    BY <1>2, <2>1
  <2> QED
    BY <2>1, <2>2
<1> QED
  BY <1>4

\* What holds of 0, and of each number after the one before it.
LEMMA UpTo ==
    ASSUME NEW N \in Nat, NEW G, 0 \in G, \A n \in 1..N : n - 1 \in G => n \in G
    PROVE  0..N \subseteq G
<1> DEFINE Bad == (0..N) \ G
<1> SUFFICES ASSUME Bad # {} PROVE FALSE
  OBVIOUS
<1>1. Bad \subseteq Nat /\ \A n \in 0..N : n \in Bad <=> n \notin G
  OBVIOUS
<1>2. PICK m \in Bad : \A y \in Bad : m <= y
  <2> HIDE DEF Bad
  <2> QED
    BY <1>1, LeastNumber
<1>3. m \in 1..N
  OBVIOUS
<1>4. m - 1 \in 0..N /\ m - 1 \in Nat /\ ~(m <= m - 1)
  BY <1>3
<1>5. m - 1 \in G
  <2> HIDE DEF Bad
  <2> QED
    BY <1>1, <1>2, <1>4
<1> QED
  BY <1>3, <1>5

\* A loop: each turn F[n] leads from the (n - 1)-th of the sets T to the n-th.
IsLoop(N, T, base, F) == base \in T[0] /\ \A n \in 1..N : \A x \in T[n - 1] : F[n][x] \in T[n]
RunsAs(f, N, T, base, F) ==
    /\ f[0] = base /\ \A n \in 1..N : f[n] = F[n][f[n - 1]]
    /\ \A n \in 0..N : f[n] \in T[n]

LEMMA LoopExists ==
    ASSUME NEW N \in Nat, NEW T, NEW base, NEW F, IsLoop(N, T, base, F)
    PROVE  \E f : RunsAs(f, N, T, base, F)
<1> USE DEF IsLoop
<1> DEFINE Runs(f, m) == /\ f[0] = base /\ \A n \in 1..m : f[n] = F[n][f[n - 1]]
                         /\ \A n \in 0..m : f[n] \in T[n]
           G == {m \in 0..N : \E f : Runs(f, m)}
<1>1. 0 \in G
  <2> DEFINE f == [n \in {0} |-> base]
  <2>1. f[0] = base
    OBVIOUS
  <2> HIDE DEF f
  <2>2. Runs(f, 0)
    BY <2>1
  <2> HIDE DEF Runs
  <2> QED
    BY <2>2
<1>2. ASSUME NEW m \in 1..N, m - 1 \in G PROVE m \in G
  <2>1. PICK f : Runs(f, m - 1)
    BY <1>2
  <2> DEFINE g == [n \in 0..m |-> IF n = m THEN F[m][f[m - 1]] ELSE f[n]]
  <2>2. g[m] = F[m][f[m - 1]] /\ \A n \in 0..(m - 1) : g[n] = f[n]
    OBVIOUS
  <2>3. 0 \in 0..(m - 1) /\ m - 1 \in 0..(m - 1) /\ \A n \in 1..(m - 1) : n - 1 \in 0..(m - 1) /\ n \in 0..(m - 1)
    OBVIOUS
  <2> HIDE DEF g
  <2>4. g[0] = base /\ \A n \in 1..(m - 1) : g[n] = F[n][g[n - 1]]
    BY <2>1, <2>2, <2>3
  <2>5. g[m] = F[m][g[m - 1]]
    BY <2>2, <2>3
  <2>6. \A n \in 0..(m - 1) : g[n] \in T[n]
    BY <2>1, <2>2
  <2>7. g[m] \in T[m]
    BY <2>3, <2>5, <2>6
  <2>8. \A n \in 1..m : n = m \/ n \in 1..(m - 1)
    OBVIOUS
  <2>9. \A n \in 0..m : n = m \/ n \in 0..(m - 1)
    OBVIOUS
  <2>10. Runs(g, m)
    BY <2>4, <2>5, <2>6, <2>7, <2>8, <2>9
  <2> HIDE DEF Runs
  <2> QED
    BY <2>10
<1>3. N \in G
  <2> HIDE DEF G
  <2> QED
    BY <1>1, <1>2, UpTo
<1> QED
  BY <1>3 DEF RunsAs

\* What a loop's turns keep to.
LEMMA LoopIs ==
    ASSUME NEW N \in Nat, NEW T, NEW f, f[0] \in T[0],
           \A n \in 1..N : f[n - 1] \in T[n - 1] => f[n] \in T[n]
    PROVE  \A n \in 0..N : f[n] \in T[n]
<1> DEFINE G == {n \in 0..N : f[n] \in T[n]}
<1>1. 0 \in G /\ \A n \in 1..N : n - 1 \in G => n \in G
  OBVIOUS
<1>2. 0..N \subseteq G
  <2> HIDE DEF G
  <2> QED
    BY <1>1, UpTo
<1> QED
  BY <1>2

-----------------------------------------------------------------------------
(* Spans. *)

\* The moments of the first n spans, and of all.
During(span) == span[1]..(span[2] - 1)
Moments(spans, n) == UNION {During(spans[k]) : k \in 1..n}

\* Spans in order that do not meet.
Apart(spans) ==
    /\ \A k \in 1..Len(spans) : spans[k][1] <= spans[k][2]
    /\ \A k, l \in 1..Len(spans) : k < l => spans[k][2] < spans[l][1]

LEMMA MomentsGrow ==
    ASSUME NEW m, NEW n \in Nat \ {0}
    PROVE  Moments(m, n) = Moments(m, n - 1) \cup During(m[n])
<1>1. 1..n = (1..(n - 1)) \cup {n}
  OBVIOUS
<1> QED
  BY <1>1 DEF Moments

LEMMA MomentsAgree ==
    ASSUME NEW m, NEW new, NEW n, \A k \in 1..n : new[k] = m[k]
    PROVE  Moments(new, n) = Moments(m, n)
BY DEF Moments

LEMMA OneMore ==
    ASSUME NEW S, NEW s \in Seq(S), NEW x \in S
    PROVE  /\ Append(s, x) \in Seq(S) /\ Append(s, x) # <<>> /\ Len(s) \in Nat
           /\ Len(Append(s, x)) = Len(s) + 1 /\ Append(s, x)[Len(s) + 1] = x
           /\ \A k \in 1..Len(s) : Append(s, x)[k] = s[k]
BY AppendProperties, LenProperties, Appended

\* Merging a span that starts no earlier than any.
LEMMA MergeKeeps ==
    ASSUME NEW m \in Seq(Nat \X Nat), Apart(m), NEW a \in Nat, NEW b \in Nat, a <= b,
           \A k \in 1..Len(m) : m[k][1] <= a
    PROVE  LET new == Merge(m, <<a, b>>) IN
           /\ new \in Seq(Nat \X Nat) /\ new # <<>> /\ Apart(new)
           /\ Moments(new, Len(new)) = Moments(m, Len(m)) \cup During(<<a, b>>)
           /\ \A k \in 1..Len(new) : new[k][1] <= a
<1> DEFINE P == Nat \X Nat
<1>0. /\ Len(m) \in Nat /\ \A k \in 1..Len(m) : m[k] \in P /\ m[k][1] \in Nat /\ m[k][2] \in Nat
      /\ <<a, b>> \in P /\ <<a, b>>[1] = a /\ <<a, b>>[2] = b
  BY LenProperties, ElementOfSeq
<1>01. m \in Seq(P)
  OBVIOUS
<1> HIDE DEF P
<1>1. CASE m = <<>> \/ ~(a <= Last(m)[2])
  <2> DEFINE new == Append(m, <<a, b>>)
             n == Len(m) + 1
  <2>1. Merge(m, <<a, b>>) = new
    BY <1>1 DEF Merge
  <2>2. /\ new \in Seq(P) /\ Len(new) = n /\ new[n] = <<a, b>> /\ new # <<>>
        /\ \A k \in 1..Len(m) : new[k] = m[k]
    BY <1>0, <1>01, OneMore, SMTT(30)
  <2> HIDE DEF new
  <2>3. n \in Nat /\ n \in 1..n /\ \A k \in 1..n : k = n \/ k \in 1..Len(m)
    BY <1>0
  <2>4. \A k \in 1..Len(m) : m[k][2] < a /\ k < n /\ k \in 1..n
    <3> SUFFICES ASSUME NEW k \in 1..Len(m) PROVE m[k][2] < a
      BY <1>0
    <3>1. m # <<>> /\ Last(m) = m[Len(m)] /\ Len(m) \in 1..Len(m)
      BY <1>0, EmptySeq DEF Last
    <3>2. m[Len(m)][2] < a
      BY <1>0, <1>1, <3>1
    <3>3. CASE k = Len(m)
      BY <3>2, <3>3
    <3>4. CASE k # Len(m)
      <4>1. m[k][2] < m[Len(m)][1]
        BY <1>0, <3>1, <3>4 DEF Apart
      <4>2. m[Len(m)][1] <= m[Len(m)][2]
        BY <3>1 DEF Apart
      <4> QED
        BY <1>0, <3>1, <3>2, <4>1, <4>2
    <3> QED
      BY <3>3, <3>4
  <2>5. \A k \in 1..Len(new) : new[k][1] <= new[k][2] /\ new[k][1] <= a
    <3> SUFFICES ASSUME NEW k \in 1..n PROVE new[k][1] <= new[k][2] /\ new[k][1] <= a
      BY <2>2
    <3>1. CASE k = n
      BY <1>0, <2>2, <3>1
    <3>2. CASE k # n
      <4>1. k \in 1..Len(m) /\ new[k] = m[k]
        BY <2>2, <2>3, <3>2
      <4> QED
        BY <4>1 DEF Apart
    <3> QED
      BY <3>1, <3>2
  <2>6. \A k, l \in 1..Len(new) : k < l => new[k][2] < new[l][1]
    <3> SUFFICES ASSUME NEW k \in 1..n, NEW l \in 1..n, k < l PROVE new[k][2] < new[l][1]
      BY <2>2
    <3>1. k \in 1..Len(m)
      BY <1>0
    <3>11. new[k] = m[k]
      BY <2>2, <3>1
    <3>2. CASE l = n
      BY <1>0, <2>2, <2>4, <3>1, <3>11, <3>2
    <3>3. CASE l # n
      BY <2>2, <2>3, <3>1, <3>11, <3>3 DEF Apart
    <3> QED
      BY <3>2, <3>3
  <2>7. Moments(new, Len(new)) = Moments(m, Len(m)) \cup During(<<a, b>>)
    <3>1. n \in Nat \ {0} /\ n - 1 = Len(m)
      BY <1>0
    <3> HIDE DEF n
    <3>2. Moments(new, n) = Moments(new, n - 1) \cup During(new[n])
      BY <3>1, MomentsGrow
    <3>3. Moments(new, Len(m)) = Moments(m, Len(m))
      BY <2>2, MomentsAgree
    <3> QED
      BY <2>2, <3>1, <3>2, <3>3
  <2> QED
    BY <2>1, <2>2, <2>5, <2>6, <2>7 DEF Apart, P
<1>2. CASE m # <<>> /\ a <= Last(m)[2]
  <2>1. PICK r \in Seq(P), x \in P : m = Append(r, x)
    BY <1>01, <1>2, SequenceEmptyOrAppend
  <2> DEFINE n == Len(m)
             c == x[1]
             e == x[2]
             top == IF b > e THEN b ELSE e
             new == Append(r, <<c, top>>)
  <2>2. /\ Front(m) = r /\ Len(m) = Len(r) + 1 /\ m[n] = x /\ Len(r) \in Nat
        /\ \A k \in 1..Len(r) : m[k] = r[k]
    BY <2>1, Appended, AppendProperties, LenProperties
  <2>3. Last(m) = x /\ n \in 1..n /\ n \in Nat /\ \A k \in 1..n : k = n \/ k \in 1..Len(r)
    BY <2>2 DEF Last
  <2>4. Merge(m, <<a, b>>) = new
    BY <1>2, <2>2, <2>3 DEF Merge
  <2>51. c = m[n][1] /\ e = m[n][2]
    BY <2>2
  <2>5. /\ c \in Nat /\ e \in Nat /\ c <= a /\ a <= e /\ c <= e
    BY <1>0, <1>2, <2>2, <2>3 DEF Apart
  <2>6. top \in Nat /\ e <= top /\ b <= top /\ (top = b \/ top = e) /\ <<c, top>> \in P
    BY <2>5 DEF P
  <2> HIDE DEF top
  <2>7. /\ new \in Seq(P) /\ Len(new) = n /\ new[n] = <<c, top>> /\ new # <<>>
        /\ \A k \in 1..Len(r) : new[k] = m[k]
    BY <2>2, <2>6, OneMore, SMTT(30)
  <2> HIDE DEF new
  <2>8. \A k \in 1..n : new[k][1] = m[k][1] /\ (k # n => new[k] = m[k])
    BY <2>2, <2>3, <2>7
  <2>9. \A k \in 1..Len(new) : new[k][1] <= new[k][2] /\ new[k][1] <= a
    <3> SUFFICES ASSUME NEW k \in 1..n PROVE new[k][1] <= new[k][2] /\ new[k][1] <= a
      BY <2>7
    <3>1. CASE k = n
      BY <2>5, <2>6, <2>7, <3>1
    <3>2. CASE k # n
      BY <2>8, <3>2 DEF Apart
    <3> QED
      BY <3>1, <3>2
  <2>10. \A k, l \in 1..Len(new) : k < l => new[k][2] < new[l][1]
    <3> SUFFICES ASSUME NEW k \in 1..n, NEW l \in 1..n, k < l PROVE new[k][2] < new[l][1]
      BY <2>7
    <3>1. k # n
      BY <2>3
    <3> QED
      BY <2>8, <3>1 DEF Apart
  <2>11. During(<<c, top>>) = During(x) \cup During(<<a, b>>)
    <3>1. During(<<c, top>>) = c..(top - 1) /\ During(x) = c..(e - 1) /\ During(<<a, b>>) = a..(b - 1)
      BY DEF During
    <3> HIDE DEF c, e
    <3>2. \A t \in Int : (c <= t /\ t <= top - 1) <=> ((c <= t /\ t <= e - 1) \/ (a <= t /\ t <= b - 1))
      BY <2>5, <2>6
    <3> QED
      BY <2>5, <2>6, <3>1, <3>2
  <2>12. Moments(new, n) = Moments(r, Len(r)) \cup During(<<c, top>>)
    <3>1. n \in Nat \ {0} /\ n - 1 = Len(r)
      BY <2>2, <2>3
    <3> HIDE DEF n
    <3>2. Moments(new, n) = Moments(new, n - 1) \cup During(new[n])
      BY <3>1, MomentsGrow
    <3>3. \A k \in 1..Len(r) : new[k] = r[k]
      BY <2>2, <2>7
    <3>4. Moments(new, Len(r)) = Moments(r, Len(r))
      BY <3>3, MomentsAgree
    <3> QED
      BY <2>7, <3>1, <3>2, <3>4
  <2>13. Moments(m, n) = Moments(r, Len(r)) \cup During(x)
    <3>1. n \in Nat \ {0} /\ n - 1 = Len(r)
      BY <2>2, <2>3
    <3> HIDE DEF n
    <3>2. Moments(m, n) = Moments(m, n - 1) \cup During(m[n])
      BY <3>1, MomentsGrow
    <3>3. Moments(m, Len(r)) = Moments(r, Len(r))
      BY <2>2, MomentsAgree
    <3> QED
      BY <2>2, <3>1, <3>2, <3>3
  <2>14. Moments(new, Len(new)) = Moments(m, Len(m)) \cup During(<<a, b>>)
    <3>1. Len(new) = n /\ Len(m) = n
      BY <2>7
    <3> HIDE DEF n
    <3> QED
      BY <2>11, <2>12, <2>13, <3>1
  <2> QED
    BY <2>4, <2>7, <2>9, <2>10, <2>14 DEF Apart, P
<1> QED
  BY <1>1, <1>2

\* Spans that do not meet are as long together as there are moments in them, and
\* no longer than from the first one's start to the last one's end.
LEMMA LengthCounts ==
    ASSUME NEW m \in Seq(Nat \X Nat), Apart(m)
    PROVE  /\ Length(m) = Cardinality(Moments(m, Len(m)))
           /\ m # <<>> => Length(m) <= Last(m)[2] - m[1][1]
<1> DEFINE N == Len(m)
<1>0. N \in Nat /\ \A k \in 1..N : m[k][1] \in Nat /\ m[k][2] \in Nat
  BY LenProperties, ElementOfSeq
<1> HIDE DEF N
<1>00. N = Len(m)
  BY DEF N
<1>1. /\ IsFiniteSet(Moments(m, 0)) /\ Cardinality(Moments(m, 0)) = 0 /\ Cardinality({}) = 0
  <2>1. \A k : k \notin 1..0
    OBVIOUS
  <2>2. Moments(m, 0) = {}
    BY <2>1, Zenon DEF Moments
  <2> QED
    BY <2>2, FS_EmptySet, Zenon
<1>2. ASSUME NEW n \in 1..N, IsFiniteSet(Moments(m, n - 1))
      PROVE  /\ IsFiniteSet(Moments(m, n))
             /\ Cardinality(Moments(m, n)) = Cardinality(Moments(m, n - 1)) + m[n][2] - m[n][1]
  <2> DEFINE U == Moments(m, n - 1)
             I == During(m[n])
  <2>1. Moments(m, n) = U \cup I
    BY <1>0, MomentsGrow
  <2>2. U \cap I = {}
    <3>1. \A k \in 1..(n - 1) : k \in 1..N /\ m[k][2] < m[n][1]
      BY <1>0, <1>00 DEF Apart
    <3>2. \A a, b, c, d \in Nat : b < c => (a..(b - 1)) \cap (c..(d - 1)) = {}
      OBVIOUS
    <3>3. \A k \in 1..N : m[k][1] \in Nat /\ m[k][2] \in Nat /\ During(m[k]) = m[k][1]..(m[k][2] - 1)
      BY <1>0 DEF During
    <3>4. ASSUME NEW k \in 1..(n - 1) PROVE During(m[k]) \cap During(m[n]) = {}
      <4>1. /\ m[k][1] \in Nat /\ m[k][2] \in Nat /\ During(m[k]) = m[k][1]..(m[k][2] - 1)
            /\ m[n][1] \in Nat /\ m[n][2] \in Nat /\ During(m[n]) = m[n][1]..(m[n][2] - 1)
            /\ m[k][2] < m[n][1]
        BY <3>1, <3>3
      <4> QED
        BY <3>2, <4>1, Zenon
    <3> QED
      BY <3>4 DEF Moments
  <2>3. IsFiniteSet(I) /\ Cardinality(I) = m[n][2] - m[n][1]
    <3>1. m[n][1] \in Nat /\ m[n][2] \in Nat /\ m[n][1] <= m[n][2] /\ I = m[n][1]..(m[n][2] - 1)
      BY <1>0, <1>00 DEF Apart, During
    <3> DEFINE p == m[n][1]
               q == m[n][2]
    <3> HIDE DEF p, q
    <3>2. p \in Nat /\ q \in Nat /\ p <= q /\ I = p..(q - 1)
      BY <3>1 DEF p, q
    <3> HIDE DEF I
    <3>3. IsFiniteSet(I) /\ Cardinality(I) = IF p > q - 1 THEN 0 ELSE (q - 1) - p + 1
      BY <3>2, FS_Interval
    <3>4. Cardinality(I) = q - p
      BY <3>2, <3>3
    <3> QED
      BY <3>3, <3>4 DEF p, q
  <2> HIDE DEF U, I
  <2>4. IsFiniteSet(U \cup I) /\ Cardinality(U \cup I) = Cardinality(U) + Cardinality(I) - Cardinality(U \cap I)
    BY <1>2, <2>3, FS_Union DEF U
  <2>5. Cardinality(U \cap I) = 0 /\ Cardinality(U) \in Nat
    BY <1>1, <1>2, <2>2, FS_CardinalityType DEF U
  <2>6. m[n][1] \in Nat /\ m[n][2] \in Nat
    BY <1>0
  <2>7. Cardinality(U \cup I) = Cardinality(U) + m[n][2] - m[n][1]
    BY <2>3, <2>4, <2>5, <2>6
  <2> QED
    BY <2>1, <2>4, <2>7 DEF U
<1>3. \A n \in 0..N : IsFiniteSet(Moments(m, n)) /\ Cardinality(Moments(m, n)) \in Nat
  <2> DEFINE G == {n \in 0..N : IsFiniteSet(Moments(m, n))}
  <2>1. 0 \in G
    <3>1. 0 \in 0..N /\ IsFiniteSet(Moments(m, 0))
      BY <1>0, <1>1
    <3> QED
      BY <3>1
  <2>11. ASSUME NEW n \in 1..N, n - 1 \in G PROVE n \in G
    <3>1. IsFiniteSet(Moments(m, n - 1))
      BY <2>11
    <3>2. IsFiniteSet(Moments(m, n)) /\ n \in 0..N
      BY <1>0, <1>2, <3>1
    <3> QED
      BY <3>2
  <2>2. 0..N \subseteq G
    <3> HIDE DEF G
    <3> QED
      BY <1>0, <2>1, <2>11, UpTo
  <2> QED
    BY <2>2, FS_CardinalityType
<1> DEFINE T == [n \in 0..N |-> {Cardinality(Moments(m, n))}]
           F == [n \in 1..N |-> [x \in Int |-> x + m[n][2] - m[n][1]]]
           Body(f) == [n \in 0..N |-> IF n = 0 THEN 0 ELSE f[n - 1] + m[n][2] - m[n][1]]
           sum == CHOOSE f : f = Body(f)
<1>4. \A n \in 0..N : \A x : x \in T[n] <=> x = Cardinality(Moments(m, n))
  OBVIOUS
<1>5. \A n \in 1..N : \A x \in Int : F[n][x] = x + m[n][2] - m[n][1]
  OBVIOUS
<1>6. \A n \in 1..N : n - 1 \in 0..N /\ n \in 0..N /\ 0 \in 0..N
  BY <1>0
<1> HIDE DEF T, F
<1>7. 0 \in T[0]
  <2>1. 0 \in 0..N /\ Cardinality(Moments(m, 0)) = 0
    BY <1>0, <1>1
  <2> QED
    BY <1>4, <2>1
<1>8. \A n \in 1..N : \A x \in T[n - 1] : x \in Int /\ x + m[n][2] - m[n][1] \in T[n]
  <2> SUFFICES ASSUME NEW n \in 1..N, NEW x \in T[n - 1] PROVE x \in Int /\ x + m[n][2] - m[n][1] \in T[n]
    OBVIOUS
  <2>1. n - 1 \in 0..N /\ n \in 0..N
    BY <1>6
  <2>2. x = Cardinality(Moments(m, n - 1)) /\ x \in Nat /\ IsFiniteSet(Moments(m, n - 1))
    BY <1>3, <1>4, <2>1
  <2>3. Cardinality(Moments(m, n)) = x + m[n][2] - m[n][1]
    BY <1>2, <2>2
  <2> QED
    BY <1>4, <2>1, <2>2, <2>3
<1>9. \E f : f = Body(f)
  <2>1. PICK f : RunsAs(f, N, T, 0, F)
    <3>1. IsLoop(N, T, 0, F)
      BY <1>5, <1>7, <1>8 DEF IsLoop
    <3>2. N \in Nat
      BY <1>0
    <3> QED
      BY <3>1, <3>2, LoopExists
  <2> DEFINE g == [n \in 0..N |-> f[n]]
             h == Body(g)
  <2>2. \A n \in 0..N : g[n] = f[n]
    OBVIOUS
  <2>3. \A n \in 0..N : h[n] = IF n = 0 THEN 0 ELSE g[n - 1] + m[n][2] - m[n][1]
    <3> HIDE DEF g
    <3> QED
      OBVIOUS
  <2>4. g = [n \in 0..N |-> g[n]] /\ h = [n \in 0..N |-> h[n]]
    OBVIOUS
  <2> HIDE DEF g, h
  <2>5. ASSUME NEW n \in 0..N PROVE g[n] = h[n]
    <3>1. CASE n = 0
      BY <2>1, <2>2, <2>3, <3>1 DEF RunsAs
    <3>2. CASE n # 0
      <4>1. n \in 1..N /\ n - 1 \in 0..N
        BY <1>0, <3>2
      <4>2. f[n] = f[n - 1] + m[n][2] - m[n][1]
        <5>1. f[n - 1] \in T[n - 1] /\ f[n] = F[n][f[n - 1]]
          BY <2>1, <4>1 DEF RunsAs
        <5>2. f[n - 1] \in Int
          BY <1>8, <4>1, <5>1
        <5> QED
          BY <1>5, <4>1, <5>1, <5>2
      <4> QED
        BY <2>2, <2>3, <3>2, <4>1, <4>2
    <3> QED
      BY <3>1, <3>2
  <2>6. g = h
    BY <2>4, <2>5
  <2> HIDE DEF Body
  <2> QED
    BY <2>6 DEF h
<1>10. sum = Body(sum)
  <2> HIDE DEF Body
  <2> QED
    BY <1>9
<1>11. sum[0] = 0 /\ \A n \in 1..N : sum[n] = sum[n - 1] + m[n][2] - m[n][1]
  <2> DEFINE h == Body(sum)
  <2> HIDE DEF sum
  <2>1. \A n \in 0..N : h[n] = IF n = 0 THEN 0 ELSE sum[n - 1] + m[n][2] - m[n][1]
    OBVIOUS
  <2>2. sum = h
    BY <1>10
  <2> HIDE DEF h, Body
  <2>3. 0 \in 0..N /\ \A n \in 1..N : n \in 0..N /\ n # 0
    BY <1>0
  <2> QED
    BY <2>1, <2>2, <2>3
<1>12. Length(m) = sum[N]
  BY <1>00 DEF Length, N
<1> HIDE DEF sum, Body
<1>13. \A n \in 0..N : sum[n] \in T[n]
  <2>1. sum[0] \in T[0] /\ \A n \in 1..N : sum[n - 1] \in T[n - 1] => sum[n] \in T[n]
    BY <1>7, <1>8, <1>11
  <2> QED
    BY <1>0, <2>1, LoopIs
<1>14. Length(m) = Cardinality(Moments(m, N))
  BY <1>0, <1>4, <1>12, <1>13
<1>15. ASSUME m # <<>> PROVE Length(m) <= Last(m)[2] - m[1][1]
  <2>1. N >= 1 /\ Last(m) = m[N]
    BY <1>0, <1>00, <1>15, EmptySeq DEF Last
  <2>2. 1 \in 1..N /\ N \in 1..N
    BY <1>0, <2>1
  <2> DEFINE p == m[1][1]
             q == m[N][2]
  <2>3. p \in Nat /\ q \in Nat
    BY <1>0, <2>2
  <2>4. \A k \in 1..N : p <= m[k][1] /\ m[k][2] <= q
    <3> SUFFICES ASSUME NEW k \in 1..N PROVE p <= m[k][1] /\ m[k][2] <= q
      OBVIOUS
    <3>1. \A l \in 1..N : m[l][1] <= m[l][2]
      BY <1>00 DEF Apart
    <3>2. k # 1 => m[1][2] < m[k][1]
      BY <1>0, <1>00, <2>2 DEF Apart
    <3>3. k # N => m[k][2] < m[N][1]
      BY <1>0, <1>00, <2>2 DEF Apart
    <3>4. p <= m[k][1]
      BY <1>0, <2>2, <3>1, <3>2
    <3>5. m[k][2] <= q
      BY <1>0, <2>2, <3>1, <3>3
    <3> QED
      BY <3>4, <3>5
  <2>5. p <= q
    BY <1>0, <1>00, <2>2, <2>4 DEF Apart
  <2> HIDE DEF p, q
  <2>6. Moments(m, N) \subseteq p..(q - 1)
    BY <1>0, <2>3, <2>4 DEF Moments, During
  <2>7. IsFiniteSet(p..(q - 1)) /\ Cardinality(p..(q - 1)) = q - p
    <3>1. /\ IsFiniteSet(p..(q - 1))
          /\ Cardinality(p..(q - 1)) = IF p > q - 1 THEN 0 ELSE (q - 1) - p + 1
      BY <2>3, FS_Interval
    <3> QED
      BY <2>3, <2>5, <3>1, SMTT(30)
  <2>8. Cardinality(Moments(m, N)) <= q - p
    BY <2>6, <2>7, FS_Subset
  <2> QED
    BY <1>14, <2>1, <2>8 DEF p, q
<1> QED
  BY <1>14, <1>15, <1>00

\* Sessions, each seen no earlier than it started.
AreSessions(s) ==
    /\ IsFiniteSet(DOMAIN s)
    /\ \A i \in DOMAIN s : s[i].start \in Nat /\ s[i].seen \in Nat /\ s[i].start <= s[i].seen

LEMMA EarliestStarts ==
    ASSUME NEW s, AreSessions(s), NEW left \in SUBSET (DOMAIN s), left # {}
    PROVE  /\ Earliest(s, left) \in left
           /\ \A j \in left : s[Earliest(s, left)].start <= s[j].start
<1>0. \A i \in left : /\ s[i].start \in Nat /\ s[i].seen \in Nat
                      /\ Span(s[i])[1] = s[i].start /\ Span(s[i])[2] = s[i].seen
  BY DEF AreSessions, Span
<1> DEFINE Starts == {s[i].start : i \in left}
<1>1. Starts \subseteq Nat /\ Starts # {}
  BY <1>0
<1>2. PICK a \in Starts : \A b \in Starts : a <= b
  <2> HIDE DEF Starts
  <2> QED
    BY <1>1, LeastNumber
<1>3. a \in Nat /\ \A i \in left : a <= s[i].start
  BY <1>1, <1>2
<1> DEFINE First == {i \in left : s[i].start = a}
           Ends == {s[i].seen : i \in First}
<1>4. Ends \subseteq Nat /\ Ends # {}
  BY <1>0, <1>2
<1>5. PICK e \in Ends : \A b \in Ends : e <= b
  <2> HIDE DEF Ends
  <2> QED
    BY <1>4, LeastNumber
<1>6. PICK i \in left : s[i].start = a /\ s[i].seen = e
  BY <1>5
<1>7. \A j \in left : Earlier(Span(s[i]), Span(s[j]))
  <2> SUFFICES ASSUME NEW j \in left PROVE Earlier(Span(s[i]), Span(s[j]))
    OBVIOUS
  <2>1. CASE s[j].start = a
    <3>1. s[j].seen \in Ends
      BY <2>1
    <3>2. e <= s[j].seen
      BY <1>5, <3>1
    <3> QED
      BY <1>0, <1>6, <2>1, <3>2 DEF Earlier
  <2>2. CASE s[j].start # a
    <3>1. a < s[j].start
      BY <1>0, <1>3, <2>2
    <3> QED
      BY <1>0, <1>6, <3>1 DEF Earlier
  <2> QED
    BY <2>1, <2>2
<1> DEFINE E == Earliest(s, left)
<1>8. E \in left /\ \A j \in left : Earlier(Span(s[E]), Span(s[j]))
  <2>1. \E k \in left : \A j \in left : Earlier(Span(s[k]), Span(s[j]))
    BY <1>7
  <2> QED
    BY <2>1 DEF Earliest
<1> HIDE DEF E
<1>9. \A j \in left : s[E].start <= s[j].start
  BY <1>0, <1>8 DEF Earlier
<1> QED
  BY <1>8, <1>9 DEF E

\* Where the loop is: the places that are left, and the spans merged so far.
Turns(s) == [left : SUBSET (DOMAIN s), merged : Seq(Nat \X Nat)]
Spanned(s, places) == UNION {During(Span(s[i])) : i \in places}

SoFar(s, x) ==
    /\ Apart(x.merged)
    /\ Moments(x.merged, Len(x.merged)) = Spanned(s, DOMAIN s \ x.left)
    /\ \A k \in 1..Len(x.merged) : \A i \in x.left : x.merged[k][1] <= s[i].start
    /\ x.left # DOMAIN s => x.merged # <<>>

LEMMA TurnKeeps ==
    ASSUME NEW s, AreSessions(s), NEW x \in Turns(s), SoFar(s, x), x.left # {}
    PROVE  /\ Turn(s, x) \in Turns(s) /\ SoFar(s, Turn(s, x))
           /\ Cardinality(Turn(s, x).left) = Cardinality(x.left) - 1
<1> DEFINE i == Earliest(s, x.left)
           a == s[i].start
           b == s[i].seen
           new == Merge(x.merged, <<a, b>>)
           y == [left |-> x.left \ {i}, merged |-> new]
<1>0. x.left \in SUBSET (DOMAIN s) /\ x.merged \in Seq(Nat \X Nat)
  BY DEF Turns
<1>1. i \in x.left /\ \A j \in x.left : a <= s[j].start
  BY <1>0, EarliestStarts
<1> HIDE DEF i
<1>2. a \in Nat /\ b \in Nat /\ a <= b
  BY <1>0, <1>1 DEF AreSessions
<1>3. Turn(s, x) = y
  BY DEF Turn, Span, i
<1>4. /\ new \in Seq(Nat \X Nat) /\ new # <<>> /\ Apart(new)
      /\ Moments(new, Len(new)) = Moments(x.merged, Len(x.merged)) \cup During(<<a, b>>)
      /\ \A k \in 1..Len(new) : new[k][1] <= a
  <2>1. Apart(x.merged) /\ \A k \in 1..Len(x.merged) : x.merged[k][1] <= a
    BY <1>1 DEF SoFar
  <2> HIDE DEF a, b
  <2> QED
    BY <1>0, <1>2, <2>1, MergeKeeps
<1> HIDE DEF new
<1>5. y \in Turns(s)
  BY <1>0, <1>4 DEF Turns
<1>6. \A k \in 1..Len(new) : \A j \in x.left : new[k][1] <= s[j].start
  <2> SUFFICES ASSUME NEW k \in 1..Len(new), NEW j \in x.left PROVE new[k][1] <= s[j].start
    OBVIOUS
  <2>1. new[k] \in Nat \X Nat
    BY <1>4, ElementOfSeq
  <2>2. new[k][1] \in Nat /\ s[j].start \in Nat /\ new[k][1] <= a /\ a <= s[j].start
    BY <1>0, <1>1, <1>4, <2>1 DEF AreSessions
  <2> HIDE DEF a
  <2> QED
    BY <1>2, <2>2
<1>7. Moments(new, Len(new)) = Spanned(s, DOMAIN s \ (x.left \ {i}))
  <2>1. DOMAIN s \ (x.left \ {i}) = (DOMAIN s \ x.left) \cup {i}
    BY <1>0, <1>1
  <2>2. Spanned(s, (DOMAIN s \ x.left) \cup {i}) = Spanned(s, DOMAIN s \ x.left) \cup During(Span(s[i]))
    BY DEF Spanned
  <2>3. Span(s[i]) = <<a, b>>
    BY DEF Span
  <2> QED
    BY <1>4, <2>1, <2>2, <2>3 DEF SoFar
<1>8. SoFar(s, y)
  BY <1>4, <1>6, <1>7 DEF SoFar
<1>9. Cardinality(x.left \ {i}) = Cardinality(x.left) - 1
  <2>1. IsFiniteSet(x.left)
    BY <1>0, FS_Subset DEF AreSessions
  <2> QED
    BY <1>1, <2>1, FS_RemoveElement
<1> QED
  BY <1>3, <1>5, <1>8, <1>9

\* The merged spans are apart, and their moments are those of the sessions.
LEMMA MergedIsApart ==
    ASSUME NEW s, AreSessions(s)
    PROVE  /\ Merged(s) \in Seq(Nat \X Nat) /\ Apart(Merged(s))
           /\ Moments(Merged(s), Len(Merged(s))) = Spanned(s, DOMAIN s)
           /\ DOMAIN s # {} => Merged(s) # <<>>
<1> DEFINE N == Cardinality(DOMAIN s)
           base == [left |-> DOMAIN s, merged |-> <<>>]
           At(n) == {x \in Turns(s) : SoFar(s, x) /\ Cardinality(x.left) = N - n}
           T == [n \in 0..N |-> At(n)]
           F == [n \in 1..N |-> [x \in Turns(s) |-> Turn(s, x)]]
           Body(f) == [n \in 0..N |-> IF n = 0 THEN base ELSE Turn(s, f[n - 1])]
           turns == CHOOSE f : f = Body(f)
<1>0. N \in Nat
  BY FS_CardinalityType DEF AreSessions
<1>1. base \in At(0)
  <2>1. base \in Turns(s)
    BY EmptySeq DEF Turns
  <2>2. Len(base.merged) = 0 /\ base.merged = <<>> /\ base.left = DOMAIN s
    OBVIOUS
  <2>3. \A k : k \notin 1..0
    OBVIOUS
  <2>4. Moments(base.merged, 0) = {} /\ Spanned(s, {}) = {}
    BY <2>3, Zenon DEF Moments, Spanned
  <2> HIDE DEF base
  <2>5. SoFar(s, base)
    BY <2>2, <2>3, <2>4 DEF SoFar, Apart
  <2>6. Cardinality(base.left) = N - 0
    BY <1>0, <2>2
  <2> QED
    BY <2>1, <2>5, <2>6
<1>2. ASSUME NEW n \in 1..N, NEW x \in At(n - 1) PROVE x \in Turns(s) /\ Turn(s, x) \in At(n)
  <2>1. x \in Turns(s) /\ SoFar(s, x) /\ Cardinality(x.left) = N - (n - 1)
    OBVIOUS
  <2>2. Cardinality(x.left) # 0
    <3> HIDE DEF N
    <3> QED
      BY <1>0, <2>1
  <2>3. x.left # {}
    BY <2>2, FS_EmptySet
  <2>4. /\ Turn(s, x) \in Turns(s) /\ SoFar(s, Turn(s, x))
        /\ Cardinality(Turn(s, x).left) = Cardinality(x.left) - 1
    BY <2>1, <2>3, TurnKeeps
  <2>5. Cardinality(Turn(s, x).left) = N - n
    <3> HIDE DEF N
    <3> QED
      BY <1>0, <2>1, <2>4
  <2> QED
    BY <2>1, <2>4, <2>5
<1> HIDE DEF N, base
<1>3. /\ \A n \in 0..N : T[n] = At(n)
      /\ \A n \in 1..N : \A x \in Turns(s) : F[n][x] = Turn(s, x)
      /\ 0 \in 0..N /\ \A n \in 1..N : n \in 0..N /\ n - 1 \in 0..N /\ n # 0
  <2> HIDE DEF At
  <2> QED
    BY <1>0
<1> HIDE DEF T, F, At
<1>4. base \in T[0] /\ \A n \in 1..N : \A x \in T[n - 1] : x \in Turns(s) /\ Turn(s, x) \in T[n]
  BY <1>1, <1>2, <1>3
<1>5. \E f : f = Body(f)
  <2>1. PICK f : RunsAs(f, N, T, base, F)
    <3>1. IsLoop(N, T, base, F)
      BY <1>3, <1>4 DEF IsLoop
    <3> QED
      BY <1>0, <3>1, LoopExists
  <2> DEFINE g == [n \in 0..N |-> f[n]]
             h == Body(g)
  <2>2. \A n \in 0..N : g[n] = f[n]
    OBVIOUS
  <2>3. \A n \in 0..N : h[n] = IF n = 0 THEN base ELSE Turn(s, g[n - 1])
    <3> HIDE DEF g
    <3> QED
      OBVIOUS
  <2>4. g = [n \in 0..N |-> g[n]] /\ h = [n \in 0..N |-> h[n]]
    OBVIOUS
  <2> HIDE DEF g, h
  <2>5. ASSUME NEW n \in 0..N PROVE g[n] = h[n]
    <3>1. CASE n = 0
      BY <2>1, <2>2, <2>3, <3>1 DEF RunsAs
    <3>2. CASE n # 0
      <4>1. n \in 1..N /\ n - 1 \in 0..N
        BY <1>0, <3>2
      <4>2. f[n - 1] \in T[n - 1] /\ f[n] = F[n][f[n - 1]]
        BY <2>1, <4>1 DEF RunsAs
      <4>3. f[n] = Turn(s, f[n - 1])
        BY <1>3, <1>4, <4>1, <4>2
      <4> QED
        BY <2>2, <2>3, <3>2, <4>1, <4>3
    <3> QED
      BY <3>1, <3>2
  <2>6. g = h
    BY <2>4, <2>5
  <2> HIDE DEF Body
  <2> QED
    BY <2>6 DEF h
<1>6. turns = Body(turns)
  <2> HIDE DEF Body
  <2> QED
    BY <1>5
<1>7. turns[0] = base /\ \A n \in 1..N : turns[n] = Turn(s, turns[n - 1])
  <2> DEFINE h == Body(turns)
  <2> HIDE DEF turns
  <2>1. \A n \in 0..N : h[n] = IF n = 0 THEN base ELSE Turn(s, turns[n - 1])
    OBVIOUS
  <2>2. turns = h
    BY <1>6
  <2> HIDE DEF h, Body
  <2> QED
    BY <1>3, <2>1, <2>2
<1>8. Merged(s) = turns[N].merged
  BY DEF Merged, N, base
<1> HIDE DEF turns, Body
<1>9. \A n \in 0..N : turns[n] \in T[n]
  <2>1. turns[0] \in T[0] /\ \A n \in 1..N : turns[n - 1] \in T[n - 1] => turns[n] \in T[n]
    BY <1>4, <1>7
  <2> QED
    BY <1>0, <2>1, LoopIs
<1>10. turns[N] \in Turns(s) /\ SoFar(s, turns[N]) /\ Cardinality(turns[N].left) = 0
  <2>1. N \in 0..N /\ N - N = 0
    BY <1>0
  <2>2. turns[N] \in At(N)
    BY <1>3, <1>9, <2>1
  <2> QED
    BY <2>1, <2>2 DEF At
<1>11. turns[N].left = {}
  <2>1. IsFiniteSet(turns[N].left)
    BY <1>10, FS_Subset DEF Turns, AreSessions
  <2> QED
    BY <1>10, <2>1, FS_EmptySet
<1>12. DOMAIN s \ {} = DOMAIN s
  OBVIOUS
<1> QED
  BY <1>8, <1>10, <1>11, <1>12 DEF SoFar, Turns

-----------------------------------------------------------------------------
\* A session is seen no earlier than it starts.
Started == \A x \in Everywhere : x.start <= x.seen

\* Coverage counts every moment once, whatever sessions are read, and is never
\* more than the span observed (Sessions!CoverageCountsOnce).
THEOREM CoverageIsExact == Spec => []CoverageCountsOnce
<1>1. Init => Started
  BY NothingAtFirst DEF Started
<1>2. Inv /\ Started /\ [Next]_vars => Started'
  <2> SUFFICES ASSUME Inv, Started, [Next]_vars, NEW x \in Everywhere' PROVE x.start <= x.seen
    BY DEF Started
  <2>1. CASE x \in Everywhere
    BY <2>1 DEF Started
  <2>2. CASE x \in Made
    <3>1. x = Current(closing)
      BY <2>2 DEF Made
    <3>2. x.start = startedAt /\ x.seen = now
      BY <3>1 DEF Current
    <3> QED
      BY <3>2, BoundAssumption DEF Inv, Control
  <2> QED
    BY <2>1, <2>2, Sources
<1>3. Inv /\ Started => CoverageCountsOnce
  <2> SUFFICES ASSUME Inv, Started PROVE CoverageCountsOnce
    OBVIOUS
  <2> DEFINE s == LoadSessions
  <2>1. DOMAIN s = Places /\ IsFiniteSet(Places)
    BY LoadedFrom DEF Inv
  <2>2. Loaded = {s[i] : i \in Places}
    BY DEF Loaded
  <2> HIDE DEF s
  <2>3. \A i \in Places : s[i] \in Everywhere /\ s[i] \in Session
    BY <2>2, LoadedIsThere
  <2>4. AreSessions(s)
    BY <2>1, <2>3 DEF AreSessions, Session, Started
  <2> DEFINE m == Merged(s)
  <2>5. /\ m \in Seq(Nat \X Nat) /\ Apart(m)
        /\ Moments(m, Len(m)) = Spanned(s, Places)
        /\ Places # {} => m # <<>>
    BY <2>1, <2>4, MergedIsApart
  <2> HIDE DEF m
  <2>6. /\ Length(m) = Cardinality(Moments(m, Len(m)))
        /\ m # <<>> => Length(m) <= Last(m)[2] - m[1][1]
    BY <2>5, LengthCounts
  <2>7. Spanned(s, Places) = UNION {x.start..(x.seen - 1) : x \in Loaded}
    <3>1. \A i \in Places : During(Span(s[i])) = s[i].start..(s[i].seen - 1)
      BY DEF During, Span
    <3> QED
      BY <2>2, <3>1 DEF Spanned
  <2>8. Covered(s) = Length(m) /\ Observed(s) = Last(m)[2] - m[1][1]
    BY DEF Covered, Observed, m
  <2> QED
    BY <2>5, <2>6, <2>7, <2>8 DEF CoverageCountsOnce, s
<1> QED
  BY <1>1, <1>2, <1>3, InvHolds, PTL DEF Spec
=================================================================================
