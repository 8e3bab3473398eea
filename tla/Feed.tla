---------------------------------- MODULE Feed ----------------------------------
(***************************************************************************)
(* From the exchange's socket to the three consumers of the market: the    *)
(* listener with its reconnects and its queue that drops the oldest event, *)
(* the fan-out task with the recorder it awaits, the bounded queues of the *)
(* strategy, the position manager and the risk worker, and the shutdown    *)
(* that closes the recorder.  What a consumer does with an event is the    *)
(* matter of Strategy, Execution and KillSwitch; here it only takes time.  *)
(***************************************************************************)
EXTENDS Naturals, Sequences, SequencesExt

CONSTANTS
    Cap,          \* maxsize of the listener's queue (DEFAULT_QUEUE_MAXSIZE)
    QueueCap,     \* maxsize of the consumers' queues (QUEUE_MAXSIZE)
    FlushEvery,   \* lines the recorder buffers
    Backoff0,     \* BACKOFF_BASE_SECONDS, in tenths of a second
    BackoffMax,   \* BACKOFF_MAX_SECONDS, in tenths of a second
    DiskFails,    \* may a write of the recorder fail
    MaxSent       \* bound: events of the exchange

ASSUME SizeAssumption ==
    /\ Cap \in Nat \ {0} /\ QueueCap \in Nat \ {0} /\ FlushEvery \in Nat \ {0}
    /\ MaxSent \in Nat
\* Whole seconds.
ASSUME TimeAssumption ==
    /\ Backoff0 \in Nat \ {0} /\ BackoffMax \in Nat \ {0}
    /\ Backoff0 % 10 = 0 /\ BackoffMax % 10 = 0
ASSUME DiskAssumption == DiskFails \in BOOLEAN

VARIABLES
    conn,      \* the listener: connecting, subscribing, listening, waiting
    backoff,   \* _backoff_seconds
    feed,      \* ghost: the kinds of the events received, in order
    source,    \* its queue
    dropped,   \* ghost: events it has dropped
    carry,     \* the event the fan-out holds
    stage,     \* what the fan-out does: get, flush, or a consumer it puts to; or its end
    queues,    \* the queues of the consumers
    busy,      \* consumers that are handling an event
    got,       \* ghost: what each consumer took from its queue
    buffer,    \* EventRecorder._buffer
    writing,   \* lines the recorder's thread has in hand
    file,      \* lines in the day's file
    diskLost   \* ghost: a write has failed

listener == <<conn, backoff>>
fanout   == <<carry, stage>>
readers  == <<queues, busy, got>>
recorder == <<buffer, writing, file, diskLost>>
vars     == <<listener, feed, source, dropped, fanout, readers, recorder>>

Consumers == {"strategy", "position", "risk"}
Kinds     == {"trade", "ctx", "web"}
Event     == [n : 1..MaxSent, kind : Kinds]
NoEvent   == [n |-> 0, kind |-> "none"]

\* The kinds each consumer is sent, and those recorded.
Wants == [strategy |-> {"trade", "ctx"}, position |-> {"ctx"}, risk |-> {"web", "ctx"}]
Recorded == {"trade", "ctx"}

Numbers(s) == [i \in DOMAIN s |-> s[i].n]
Running == stage \notin {"stopped", "closed"}

-----------------------------------------------------------------------------
(* The listener. *)

MinOf(x, y) == IF x < y THEN x ELSE y

\* websockets.connect answers: the backoff starts again before the
\* subscriptions are sent.
Connect ==
    /\ Running /\ conn = "connecting"
    /\ conn' = "subscribing" /\ backoff' = Backoff0
    /\ UNCHANGED <<feed, source, dropped, fanout, readers, recorder>>

Subscribe ==
    /\ Running /\ conn = "subscribing"
    /\ conn' = "listening"
    /\ UNCHANGED <<backoff, feed, source, dropped, fanout, readers, recorder>>

\* _compute_backoff_delay: the waits it may draw, with a jitter of 0.8 to 1.2.
Delays == {MinOf((backoff * j) \div 10, BackoffMax) : j \in 8..12}
Kept     == backoff                                        \* mutant: not doubled
Doubled  == MinOf(backoff * 2, BackoffMax)

\* Refused, lost, or an error message: the loop closes the socket and waits.
Lose ==
    /\ Running /\ conn \in {"connecting", "subscribing", "listening"}
    /\ conn' = "waiting" /\ backoff' = Doubled
    /\ UNCHANGED <<feed, source, dropped, fanout, readers, recorder>>

Retry ==
    /\ Running /\ conn = "waiting"
    /\ conn' = "connecting"
    /\ UNCHANGED <<backoff, feed, source, dropped, fanout, readers, recorder>>

\* _put_event: a full queue loses its head.
Queued(s, e)    == Append(IF Len(s) < Cap THEN s ELSE Tail(s), e)

Receive(kind) ==
    /\ Running /\ conn = "listening" /\ Len(feed) < MaxSent
    /\ feed' = Append(feed, kind)
    /\ source' = Queued(source, [n |-> Len(feed'), kind |-> kind])
    /\ dropped' = dropped \cup ((ToSet(Numbers(source)) \cup {Len(feed')}) \ ToSet(Numbers(source')))
    /\ UNCHANGED <<listener, fanout, readers, recorder>>

-----------------------------------------------------------------------------
(* The fan-out.  It puts to the consumers one after the other, without giving up
   the loop while there is room, and waits at the first full queue. *)

Order == <<"strategy", "position", "risk">>
Place == [c \in Consumers |-> CHOOSE i \in 1..3 : Order[i] = c]

\* The event e goes to the consumers from the i-th on.
ServeOrSkip(i, e) ==                                       \* mutant: put_nowait, full queue skipped
    /\ queues' = [c \in Consumers |->
           IF Place[c] >= i /\ e.kind \in Wants[c] /\ Len(queues[c]) < QueueCap
           THEN Append(queues[c], e) ELSE queues[c]]
    /\ stage' = "get" /\ carry' = NoEvent
    /\ UNCHANGED <<busy, got>>

Serve(i, e) ==
    LET to   == {c \in Consumers : Place[c] >= i /\ e.kind \in Wants[c]}
        full == {c \in to : Len(queues[c]) >= QueueCap}
        done == {c \in to : \A f \in full : Place[c] < Place[f]}
    IN  /\ queues' = [c \in Consumers |-> IF c \in done THEN Append(queues[c], e) ELSE queues[c]]
        /\ IF full = {}
           THEN stage' = "get" /\ carry' = NoEvent
           ELSE /\ stage' = CHOOSE c \in full : \A f \in full : Place[c] <= Place[f]
                /\ carry' = e
        /\ UNCHANGED <<busy, got>>

\* record() starts a flush when the buffer is full.
NeverFull(lines) == FALSE                                  \* mutant: flushed at close only
Full(lines)      == Len(lines) >= FlushEvery

Take ==
    /\ stage = "get" /\ source # <<>>
    /\ source' = Tail(source)
    /\ LET e     == Head(source)
           lines == Append(buffer, e.n) IN
       \/ /\ e.kind \notin Recorded
          /\ Serve(1, e) /\ UNCHANGED recorder
       \/ /\ e.kind \in Recorded /\ ~Full(lines)
          /\ buffer' = lines
          /\ Serve(1, e) /\ UNCHANGED <<writing, file, diskLost>>
       \/ /\ e.kind \in Recorded /\ Full(lines)
          /\ buffer' = <<>> /\ writing' = lines
          /\ stage' = "flush" /\ carry' = e
          /\ UNCHANGED <<file, diskLost, readers>>
    /\ UNCHANGED <<listener, feed, dropped>>

\* Room at last in the queue the fan-out waits for.
NeverRoom(c)  == Len(queues[c]) + 1 < QueueCap             \* mutant: capacity off by one
Resumes(c)    == Len(queues[c]) < QueueCap

Resume(c) ==
    /\ stage = c /\ Resumes(c)
    /\ Serve(Place[c], carry)
    /\ UNCHANGED <<listener, feed, source, dropped, recorder>>

-----------------------------------------------------------------------------
(* The recorder's thread: the buffer is handed over before the lines are
   written, and an error reaches the task that awaits the flush. *)

Write ==
    /\ writing # <<>>
    /\ file' = file \o writing /\ writing' = <<>>
    /\ IF stage = "flush" THEN Serve(1, carry) ELSE UNCHANGED <<fanout, readers>>
    /\ UNCHANGED <<listener, feed, source, dropped, buffer, diskLost>>

\* The fan-out task has no handler: it ends, and nobody starts it again.
WriteFails ==
    /\ DiskFails /\ writing # <<>>
    /\ writing' = <<>> /\ diskLost' = TRUE
    /\ stage' = IF stage = "flush" THEN "failed" ELSE stage
    /\ UNCHANGED <<listener, feed, source, dropped, carry, readers, buffer, file>>

-----------------------------------------------------------------------------
(* The consumers.  The strategy handles an event without an await; the manager
   waits for its exits and files, the risk worker for the debounce. *)

Suspending == {"position", "risk"}

Get(c) ==
    /\ Running /\ c \notin busy /\ queues[c] # <<>>
    /\ queues' = [queues EXCEPT ![c] = Tail(@)]
    /\ got' = [got EXCEPT ![c] = Append(@, Head(queues[c]).n)]
    /\ busy' = IF c \in Suspending THEN busy \cup {c} ELSE busy
    /\ UNCHANGED <<listener, feed, source, dropped, fanout, recorder>>

\* Errors of a handler are caught: the worker goes on with the next event.
Done(c) ==
    /\ Running /\ c \in busy
    /\ busy' = busy \ {c}
    /\ UNCHANGED <<listener, feed, source, dropped, fanout, queues, got, recorder>>

-----------------------------------------------------------------------------
(* shutdown: the socket is closed and the tasks are cancelled at their awaits.
   A cancelled flush leaves its thread running.  close() then writes what the
   buffer holds, and the process waits for its threads. *)

Shutdown ==
    /\ Running
    /\ stage' = "stopped"
    /\ carry' = NoEvent
    /\ UNCHANGED <<listener, feed, source, dropped, readers, recorder>>

CloseForgets ==                                            \* mutant: no flush at close
    /\ stage = "stopped"
    /\ stage' = "closed"
    /\ UNCHANGED <<listener, feed, source, dropped, carry, readers, recorder>>

Close ==
    /\ stage = "stopped"
    /\ stage' = "closed"
    /\ IF buffer = <<>> THEN UNCHANGED recorder
       ELSE \/ buffer' = <<>> /\ file' = file \o buffer /\ UNCHANGED <<writing, diskLost>>
            \/ /\ DiskFails
               /\ buffer' = <<>> /\ diskLost' = TRUE /\ UNCHANGED <<writing, file>>
    /\ UNCHANGED <<listener, feed, source, dropped, carry, readers>>

Exited == stage = "closed" /\ writing = <<>> /\ UNCHANGED vars

-----------------------------------------------------------------------------
Init ==
    /\ conn = "connecting" /\ backoff = Backoff0
    /\ feed = <<>> /\ source = <<>> /\ dropped = {}
    /\ carry = NoEvent /\ stage = "get"
    /\ queues = [c \in Consumers |-> <<>>] /\ busy = {} /\ got = [c \in Consumers |-> <<>>]
    /\ buffer = <<>> /\ writing = <<>> /\ file = <<>> /\ diskLost = FALSE

Next ==
    \/ Connect \/ Subscribe \/ Lose \/ Retry
    \/ \E kind \in Kinds : Receive(kind)
    \/ Take \/ \E c \in Consumers : Resume(c)
    \/ Write \/ WriteFails
    \/ \E c \in Consumers : Get(c) \/ Done(c)
    \/ Shutdown \/ Close \/ Exited

Spec == Init /\ [][Next]_vars

FairSpec ==
    /\ Spec
    /\ WF_vars(Connect) /\ WF_vars(Subscribe) /\ WF_vars(Retry)
    /\ WF_vars(Take) /\ WF_vars(Write)
    /\ \A c \in Consumers : WF_vars(Resume(c)) /\ WF_vars(Get(c)) /\ WF_vars(Done(c))

-----------------------------------------------------------------------------
(* Properties. *)

TypeOK ==
    /\ conn \in {"connecting", "subscribing", "listening", "waiting"}
    /\ backoff \in Nat
    /\ feed \in Seq(Kinds) /\ source \in Seq(Event) /\ Len(source) <= Cap
    /\ dropped \subseteq 1..MaxSent
    /\ carry \in Event \cup {NoEvent}
    /\ stage \in Consumers \cup {"get", "flush", "failed", "stopped", "closed"}
    /\ \A c \in Consumers : queues[c] \in Seq(Event) /\ Len(queues[c]) <= QueueCap
    /\ busy \subseteq Consumers
    /\ \A lines \in {got[c] : c \in Consumers} \cup {buffer, writing, file} :
           lines \in Seq(1..MaxSent)
    /\ diskLost \in BOOLEAN

Alive == stage \in Consumers \cup {"get", "flush"}

\* What a consumer has handled or will, of what has left the listener's queue:
\* taken, queued, on its way.
Carried(c) ==
    IF /\ carry.kind \in Wants[c]
       /\ stage = "flush" \/ (stage \in Consumers /\ Place[stage] <= Place[c])
    THEN <<carry.n>> ELSE <<>>

Handed(c) == got[c] \o Numbers(queues[c]) \o Carried(c)

\* What it will be handed of the listener's queue, and what it should be in all.
Coming(c) == {e.n : e \in {x \in ToSet(source) : x.kind \in Wants[c]}}
Owed(c)   == {n \in DOMAIN feed : feed[n] \in Wants[c] /\ n \notin dropped}

Increasing(s) == \A i, j \in DOMAIN s : i < j => s[i] < s[j]

\* While the fan-out lives, the overflow of the listener's queue is the only
\* loss: every consumer gets every other event of its kinds, once and in the
\* order the exchange sent them, however slow the other consumers are.  And an
\* overflow costs old events only: Cap newer ones have come since.
NothingLostInside ==
    /\ Alive => \A c \in Consumers :
           /\ Increasing(Handed(c) \o Numbers(source))
           /\ ToSet(Handed(c)) \cup Coming(c) = Owed(c)
    /\ \A n \in dropped : n + Cap <= Len(feed)

\* A recording is what the strategy saw, in its order: a replay feeds a strategy
\* the same events.  A crash at any moment costs it less than a buffer of them,
\* since a flush is awaited before its event is passed on, and a graceful stop
\* leaves nothing in memory.
Recording == file \o writing \o (IF stage = "closed" THEN <<>> ELSE buffer)

RecordingFollowsStrategy ==
    ~diskLost => /\ IsPrefix(got["strategy"], Recording)
                 /\ Len(got["strategy"]) < Len(file) + FlushEvery

\* Without an accepted connection in between, each wait is longer than the one
\* before it until the waits are at their limit, whatever the jitter.
BackoffGrows ==
    [][conn = "connecting" /\ conn' = "waiting" =>
           \A before \in Delays, after \in Delays' :
               after > before \/ 10 * after >= 8 * BackoffMax]_vars

\* A mark in the listener's queue reaches the position manager, or is dropped
\* for newer events, unless the fan-out has ended.
Unserved(n) ==
    /\ n \in DOMAIN feed /\ feed[n] = "ctx"
    /\ n \notin dropped /\ n \notin ToSet(got["position"])

MarksServed == \A n \in 1..MaxSent : (Alive /\ Unserved(n)) ~> (~Alive \/ ~Unserved(n))

-----------------------------------------------------------------------------
(* What the recorder says of itself, and the fan-out makes untrue. *)

\* The hot market path is never blocked by disk I/O: a mark is served whatever
\* the disk does.
MarksServedWhateverTheDisk ==
    \A n \in 1..MaxSent : (Running /\ Unserved(n)) ~> (~Running \/ ~Unserved(n))
=============================================================================
