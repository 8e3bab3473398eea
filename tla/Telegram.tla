-------------------------------- MODULE Telegram --------------------------------
(***************************************************************************)
(* The command poller: updates wait at Telegram until a poll with a higher *)
(* offset confirms them; the worker answers the commands of a batch one    *)
(* after the other.                                                        *)
(***************************************************************************)
EXTENDS Integers, Sequences

CONSTANTS
    BackoffBase, BackoffMax,   \* in steps of the clock
    Overflow,                  \* the failures after which 2 ** n is no float any more: 1025
    MaxUpdates                 \* bound

VARIABLES
    arrived,    \* the updates sent so far: the id of each is its place
    kept,       \* Telegram: the first update it still holds
    offset,     \* _offset
    failures,   \* _consecutive_failures
    wait,       \* until _retry_at
    batch,      \* what the worker has yet to answer
    fetched,    \* ghost: the updates that a poll has brought
    handled     \* ghost: those answered by this process, in order

vars == <<arrived, kept, offset, failures, wait, batch, fetched, handled>>

None == 0

\* A command of the chat it listens to, or anything else.
Kinds == {"stats", "help", "other"}

-----------------------------------------------------------------------------
\* _note_failure: 15 s, twice that, ..., 900 s at most.
Delay(n) == LET d == BackoffBase * 2^(n - 1) IN IF d < BackoffMax THEN d ELSE BackoffMax

\* What a request asks for; the server forgets what is before it.
From == IF offset > kept THEN offset ELSE kept

\* _note_success: the delay is over by then.
NoteSuccess == failures' = 0 /\ wait' = wait

\* poll_commands.  The offset passes every update, the commands among them go to
\* the worker.
LastAgain(last) == last                                    \* mutant: the last update is asked again
NextOffset(last) == last + 1
Poll ==
    /\ batch = <<>>
    /\ wait = 0
    /\ LET last == Len(arrived)
           commands[i \in 0..last] ==
               IF i < From THEN <<>>
               ELSE IF arrived[i] = "other" THEN commands[i - 1] ELSE Append(commands[i - 1], i) IN
       /\ kept' = From
       /\ offset' = IF last < From THEN offset ELSE NextOffset(last)
       /\ batch' = commands[last]
       /\ fetched' = fetched \cup From..last
    /\ NoteSuccess
    /\ UNCHANGED <<arrived, handled>>

\* The request or its answer is lost, or is not JSON.  After Overflow failures in
\* a row _note_failure itself raises, and the next poll is not put off any more.
PollFails ==
    /\ batch = <<>>
    /\ wait = 0
    /\ kept' \in {kept, From}
    /\ failures' = IF failures < Overflow THEN failures + 1 ELSE failures
    /\ wait' = IF failures' < Overflow THEN Delay(failures') ELSE wait
    /\ UNCHANGED <<arrived, offset, batch, fetched, handled>>

\* Telegram answers that it is not ok.
PollRefused ==
    /\ batch = <<>>
    /\ wait = 0
    /\ NoteSuccess
    /\ UNCHANGED <<arrived, kept, offset, batch, fetched, handled>>

\* telegram_command_worker: one answer; whether it reaches the chat is not known.
Answer ==
    /\ batch # <<>>
    /\ handled' = Append(handled, Head(batch))
    /\ batch' = Tail(batch)
    /\ UNCHANGED <<arrived, kept, offset, failures, wait, fetched>>

\* load_closed_trades: a line of the journal that is no JSON or lacks a field is
\* skipped, one with a number that is none raises; the rest of the batch is then
\* not answered.
AnswerFails ==
    /\ batch # <<>>
    /\ arrived[Head(batch)] = "stats"
    /\ batch' = <<>>
    /\ UNCHANGED <<arrived, kept, offset, failures, wait, fetched, handled>>

Wait ==
    /\ wait > 0
    /\ wait' = wait - 1
    /\ UNCHANGED <<arrived, kept, offset, failures, batch, fetched, handled>>

Arrive ==
    /\ Len(arrived) < MaxUpdates
    /\ \E kind \in Kinds : arrived' = Append(arrived, kind)
    /\ UNCHANGED <<kept, offset, failures, wait, batch, fetched, handled>>

\* A new process has no offset.
Restart ==
    /\ offset' = None
    /\ failures' = 0
    /\ wait' = 0
    /\ batch' = <<>>
    /\ handled' = <<>>
    /\ UNCHANGED <<arrived, kept, fetched>>

Init ==
    /\ arrived = <<>>
    /\ kept = 1
    /\ offset = None
    /\ failures = 0
    /\ wait = 0
    /\ batch = <<>>
    /\ fetched = {}
    /\ handled = <<>>

Next == Poll \/ PollFails \/ PollRefused \/ Answer \/ AnswerFails \/ Wait \/ Arrive

-----------------------------------------------------------------------------
(* Properties. *)

\* A process answers its commands in their order and none twice, and Telegram
\* forgets only what a poll has brought: although polls and their answers are
\* lost, and a restart begins without an offset.
OnceEach ==
    /\ \A i, j \in DOMAIN handled : i < j => handled[i] < handled[j]
    /\ \A i \in DOMAIN handled, j \in DOMAIN batch : handled[i] < batch[j]
    /\ 1..(kept - 1) \subseteq fetched
=============================================================================
