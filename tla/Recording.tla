------------------------------- MODULE Recording -------------------------------
(***************************************************************************)
(* The recordings on disk: the recorder that appends each flush to the     *)
(* files of the days its events are dated, a crash in the middle of a      *)
(* write, the nightly compaction that runs beside it in a process of its   *)
(* own, and what a replay reads.                                           *)
(*                                                                         *)
(* A file is a sequence of tokens: an event is its number, and a line is   *)
(* readable when its event stands alone between newlines.                  *)
(***************************************************************************)
EXTENDS Integers, SequencesExt

CONSTANTS
    FlushLines,   \* flush_every: lines the recorder buffers
    Late,         \* how many days old an event may be when it comes
    MaxDay,       \* bound: days
    MaxLines,     \* bound: events
    MaxFaults     \* bound: crashes of the bot and of the compaction

ASSUME RecordingAssumption ==
    /\ FlushLines \in Nat \ {0} /\ MaxDay \in Nat \ {0}
    /\ Late \in Nat /\ MaxLines \in Nat /\ MaxFaults \in Nat

VARIABLES
    today,     \* the host's date
    dates,     \* the date of each event, in the order they came
    unflushed, \* EventRecorder._buffer
    job,       \* what the recorder's thread has still to append
    handle,    \* the file it has open
    dir,       \* the directory: name -> content
    written,   \* ghost: all that was ever appended to a day's file
    acked,     \* ghost: events whose write returned
    raced,     \* ghost: events appended while their day's archive was being finished
    tears,     \* ghost: writes that stopped before their last newline
    pc, at, size,   \* the compaction: its next step, its day, original_size
    faults

clock == <<today, faults>>
bot   == <<dates, unflushed, job, handle>>
ghost == <<written, acked, raced, tears>>
cron  == <<pc, at, size>>
recording == <<clock, bot, dir, ghost, cron>>

Days == 1..MaxDay
NL   == 0
Torn == -1
Closed == [day |-> 0, linked |-> FALSE]

Plain(d)   == <<"jsonl", d>>
Archive(d) == <<"gz", d>>
Partial(d) == <<"part", d>>
Has(name)  == name \in DOMAIN dir
With(f, name, content) == [x \in DOMAIN f \cup {name} |-> IF x = name THEN content ELSE f[x]]
Without(f, name) == [x \in DOMAIN f \ {name} |-> f[x]]
Content(name) == IF Has(name) THEN dir[name] ELSE <<>>

\* replay_file: the rows that parse, and what they say.
Whole(f, i) ==
    /\ f[i] \notin {NL, Torn}
    /\ i = 1 \/ f[i - 1] = NL
    /\ i = Len(f) \/ f[i + 1] = NL
Rows(f)     == {i \in DOMAIN f : Whole(f, i)}
Readable(f) == {f[i] : i \in Rows(f)}

\* recording_files: when a day exists in both forms the plain file wins.
BothForms(d)     == Content(Archive(d)) \o Content(Plain(d))   \* mutant: both are read
RecordingFile(d) == IF Has(Plain(d)) THEN dir[Plain(d)] ELSE Content(Archive(d))

-----------------------------------------------------------------------------
(* The recorder. *)

\* _append_lines.
NoLastNewline(lines) == [k \in 1..(2 * Len(lines) - 1) |-> IF k % 2 = 1 THEN lines[(k + 1) \div 2] ELSE NL]  \* mutant
Text(lines) == [k \in 1..(2 * Len(lines)) |-> IF k % 2 = 1 THEN lines[(k + 1) \div 2] ELSE NL]

\* The lines of those events, in their order.
Only(lines, events) ==
    LET only[i \in 0..Len(lines)] ==
            IF i = 0 THEN <<>>
            ELSE IF lines[i] \in events THEN Append(only[i - 1], lines[i]) ELSE only[i - 1]
    IN  only[Len(lines)]

\* _flush_locked groups the lines by date, in the order the dates come up; the
\* thread appends one group after the other.
GroupDay    == dates[Head(job)]
FirstGroup  == Only(job, {n \in ToSet(job) : dates[n] = GroupDay})
OtherGroups == Only(job, {n \in ToSet(job) : dates[n] # GroupDay})

\* A trade is dated by the exchange, so an event of an earlier day may come.
Record(d) ==
    /\ job = <<>> /\ Len(dates) < MaxLines
    /\ d <= today /\ d + Late >= today
    /\ dates' = Append(dates, d)
    /\ LET lines == Append(unflushed, Len(dates')) IN
       IF Len(lines) >= FlushLines
       THEN unflushed' = <<>> /\ job' = lines
       ELSE unflushed' = lines /\ UNCHANGED job
    /\ UNCHANGED <<clock, handle, dir, ghost, cron>>

\* close() at a graceful stop.
Flush ==
    /\ job = <<>> /\ unflushed # <<>>
    /\ unflushed' = <<>> /\ job' = unflushed
    /\ UNCHANGED <<clock, dates, handle, dir, ghost, cron>>

OpenFile ==
    /\ job # <<>> /\ handle = Closed
    /\ handle' = [day |-> GroupDay, linked |-> TRUE]
    /\ dir' = IF Has(Plain(GroupDay)) THEN dir ELSE With(dir, Plain(GroupDay), <<>>)
    /\ UNCHANGED <<clock, dates, unflushed, job, ghost, cron>>

\* The bytes reach the file that was opened, or the one that was unlinked since.
Appended(tokens) ==
    /\ dir' = IF handle.linked THEN [dir EXCEPT ![Plain(handle.day)] = @ \o tokens] ELSE dir
    /\ written' = [written EXCEPT ![handle.day] = @ \o tokens]

Finishing(d) == pc \in {"verify", "replace", "unlink"} /\ at = d

WriteOut ==
    /\ handle # Closed
    /\ LET new == ToSet(FirstGroup) IN
       /\ Appended(Text(FirstGroup))
       /\ acked' = acked \cup new
       /\ raced' = IF Finishing(handle.day) \/ ~handle.linked THEN raced \cup new ELSE raced
    /\ job' = OtherGroups /\ handle' = Closed
    /\ UNCHANGED <<clock, dates, unflushed, tears, cron>>

\* What a write that stops early leaves: whole tokens, then perhaps part of an event.
CutShort(tokens) ==
    LET Cut(k) == SubSeq(tokens, 1, k)
    IN  {Cut(k) : k \in 0..Len(tokens)}
        \cup {Append(Cut(k), Torn) : k \in {j \in 0..(Len(tokens) - 1) : tokens[j + 1] # NL}}

\* The process is killed, or the write fails: then the fan-out that awaited it
\* ends, and nothing is recorded until the bot is started again.
Crash ==
    /\ faults < MaxFaults /\ faults' = faults + 1
    /\ IF handle = Closed THEN UNCHANGED <<dir, written, tears>>
       ELSE \E tokens \in CutShort(Text(FirstGroup)) :
               /\ Appended(tokens)
               /\ tears' = IF tokens = <<>> \/ Last(tokens) = NL THEN tears ELSE tears + 1
    /\ unflushed' = <<>> /\ job' = <<>> /\ handle' = Closed
    /\ UNCHANGED <<today, dates, acked, raced, cron>>

NextDay ==
    /\ today < MaxDay /\ today' = today + 1
    /\ UNCHANGED <<faults, bot, dir, ghost, cron>>

-----------------------------------------------------------------------------
(* The compaction, one file at a time. *)

NoPartial(d) == d < today /\ ~Has(Partial(d))              \* mutant: leftovers are skipped
Finished(d)  == d < today

Again(d) ==                                                \* mutant: an archive is made again
    /\ pc = "idle"
    /\ Finished(d) /\ Has(Plain(d))
    /\ pc' = "copy" /\ at' = d /\ size' = Len(dir[Plain(d)])
    /\ dir' = Without(dir, Partial(d))
    /\ UNCHANGED <<clock, bot, ghost>>

Begin(d) ==
    /\ pc = "idle"
    /\ Finished(d) /\ Has(Plain(d)) /\ ~Has(Archive(d))
    /\ pc' = "copy" /\ at' = d /\ size' = Len(dir[Plain(d)])
    /\ dir' = Without(dir, Partial(d))
    /\ UNCHANGED <<clock, bot, ghost>>

Copy ==
    /\ pc = "copy"
    /\ dir' = With(dir, Partial(at), dir[Plain(at)])
    /\ pc' = "verify"
    /\ UNCHANGED <<clock, bot, ghost, at, size>>

\* The archive is read back and compared with the size of the source.
Verify ==
    /\ pc = "verify"
    /\ IF Len(dir[Partial(at)]) = size
       THEN pc' = "replace" /\ UNCHANGED dir
       ELSE pc' = "idle" /\ dir' = Without(dir, Partial(at))
    /\ UNCHANGED <<clock, bot, ghost, at, size>>

Replace ==
    /\ pc = "replace"
    /\ dir' = Without(With(dir, Archive(at), dir[Partial(at)]), Partial(at))
    /\ pc' = "unlink"
    /\ UNCHANGED <<clock, bot, ghost, at, size>>

Unlink ==
    /\ pc = "unlink"
    /\ dir' = Without(dir, Plain(at))
    /\ handle' = IF handle.day = at THEN [handle EXCEPT !.linked = FALSE] ELSE handle
    /\ pc' = "idle"
    /\ UNCHANGED <<clock, dates, unflushed, job, ghost, at, size>>

\* --keep-plain.
Keep ==
    /\ pc = "unlink"
    /\ pc' = "idle"
    /\ UNCHANGED <<clock, bot, dir, ghost, at, size>>

\* It is interrupted: what it has made stays, a half-written archive included.
Interrupted ==
    /\ pc # "idle" /\ faults < MaxFaults /\ faults' = faults + 1
    /\ pc' = "idle"
    /\ dir' = IF pc = "copy" THEN With(dir, Partial(at), <<>>) ELSE dir
    /\ UNCHANGED <<today, bot, ghost, at, size>>

-----------------------------------------------------------------------------
RecordingInit ==
    /\ today = 1 /\ faults = 0
    /\ dates = <<>> /\ unflushed = <<>> /\ job = <<>> /\ handle = Closed
    /\ dir = <<>>
    /\ written = [d \in Days |-> <<>>] /\ acked = {} /\ raced = {} /\ tears = 0
    /\ pc = "idle" /\ at = 1 /\ size = 0

Compaction == Copy \/ Verify \/ Replace \/ Unlink \/ Keep

RecordingNext ==
    \/ \E d \in Days : Record(d) \/ Begin(d)
    \/ Flush \/ OpenFile \/ WriteOut \/ Crash \/ NextDay
    \/ Compaction \/ Interrupted

RecordingSpec == RecordingInit /\ [][RecordingNext]_recording

\* Cron starts the job every night, and a run that is not interrupted ends.
FairRecording == RecordingSpec /\ WF_recording(Compaction) /\ \A d \in Days : WF_recording(Begin(d))

-----------------------------------------------------------------------------
(* Properties. *)

Tokens == {NL, Torn} \cup (1..MaxLines)

RecordingTypeOK ==
    /\ today \in Days /\ faults \in 0..MaxFaults /\ tears \in 0..faults
    /\ dates \in Seq(Days) /\ Len(dates) <= MaxLines
    /\ unflushed \in Seq(1..Len(dates)) /\ job \in Seq(1..Len(dates))
    /\ handle \in [day : Days, linked : BOOLEAN] \cup {Closed}
    /\ handle # Closed => job # <<>> /\ handle.day = GroupDay
    /\ DOMAIN dir \subseteq {"jsonl", "gz", "part"} \X Days
    /\ \A name \in DOMAIN dir : dir[name] \in Seq(Tokens)
    /\ written \in [Days -> Seq(Tokens)]
    /\ acked \subseteq 1..Len(dates) /\ raced \subseteq acked
    /\ pc \in {"idle", "copy", "verify", "replace", "unlink"}
    /\ at \in Days /\ size \in Nat
    /\ pc # "idle" => Has(Plain(at))

\* Compaction loses nothing: a line that was readable in its day's file is
\* readable in the file or in the archive, through interruptions at any step,
\* unless it was appended after the archive had read the file.
CompactionLosesNothing ==
    \A d \in Days : (Readable(written[d]) \cap acked) \ raced
        \subseteq Readable(Content(Plain(d))) \cup Readable(Content(Archive(d)))

\* A replay yields the events of a day in the order they were recorded, each
\* once, also when a day exists in both forms.
ReplayInOrder ==
    \A d \in Days : LET file == RecordingFile(d) IN
        \A i, j \in Rows(file) : i < j => file[i] < file[j]

\* A write that stops early costs at most one line besides its own: the first
\* one appended after it, which joins the unfinished row.
OneLinePerTear ==
    Cardinality({n \in acked : n \notin Readable(written[dates[n]])}) <= tears

\* Every finished day is archived in the end, whatever interrupted runs left behind.
FinishedDaysArchived ==
    \A d \in Days : (d < today /\ Has(Plain(d))) ~> Has(Archive(d))

-----------------------------------------------------------------------------
(* What recording_files says of itself. *)

\* The plain file is the authoritative copy: it holds what the archive holds.
SourceIsAuthoritative ==
    \A d \in Days : Readable(Content(Archive(d))) \subseteq Readable(RecordingFile(d))
=============================================================================
