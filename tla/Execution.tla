----------------------------- MODULE Execution -----------------------------
(***************************************************************************)
(* The order path of the bot: OrderRouter, PositionManager,                *)
(* OpenPositionStore and the closed-trade journal, with the exchange they  *)
(* drive and the kill switch they obey.                                    *)
(*                                                                         *)
(* The process is one asyncio loop.  Two of its tasks change positions:    *)
(* the order router (OrderRouter.consume_signals) and the position manager *)
(* (PositionManager.consume_market_events).  Code between two awaits runs  *)
(* alone, so an action below is one stretch of a task from one suspension  *)
(* point to the next.  "pc" of a task names the await it is suspended in.  *)
(*                                                                         *)
(* Sizes are counted in lots of one entry order; prices are in module      *)
(* StopEngine and appear here only as the choice the position manager      *)
(* makes at a mark (hold, save, exit).                                     *)
(***************************************************************************)
EXTENDS Integers

CONSTANTS
    Coins,      \* symbols an account can hold
    NoCoin,     \* the coin field of an idle task
    WatchLists, \* the values BOT_SYMBOLS may have from one start to the next
    DryRuns,    \* the values settings.bot_dry_run may have
    MakerModes, \* the values settings.maker_entry_enabled may have
    MaxLots,    \* bound: lots of one coin at the exchange
    Faults      \* which of FaultKinds the environment may inject

FaultKinds == {"restart", "lost", "disk", "liquidation", "noprice"}

ASSUME CoinAssumption == NoCoin \notin Coins
ASSUME WatchAssumption == WatchLists \subseteq SUBSET Coins
ASSUME ModeAssumption == DryRuns \subseteq BOOLEAN /\ MakerModes \subseteq BOOLEAN
ASSUME LotAssumption == MaxLots \in Nat /\ MaxLots >= 1
ASSUME FaultAssumption == Faults \subseteq FaultKinds

VARIABLES
    phase,      \* "down", "recovering" (recover_positions), "running"
    dryRun,     \* settings.bot_dry_run, the same at every start
    makerEntry, \* settings.maker_entry_enabled, the same at every start
    watch,      \* settings.symbols of this process
    tripped,    \* KillSwitch._tripped
    positions,  \* PositionManager._positions: lots managed per coin, 0 = no entry
    pending,    \* OrderRouter._pending: "none", "sent", "resting" (arrived)
    cooling,    \* coins whose _last_exit_at is inside the re-entry window
    router,     \* the order router task
    pm,         \* the position manager task
    lock,       \* holder of OpenPositionStore._lock
    storeMem,   \* OpenPositionStore._positions
    disk,       \* the open-positions file
    rec,        \* locals of recover_positions
    exch,       \* lots the exchange holds per coin
    resting,    \* post-only orders resting at the exchange
    booked,     \* ghost: journal lines of the coin's current trade (0, 1, 2 = more)
    recent,     \* ghost: coins whose exit this process accepted inside the window
    blind,      \* ghost: coins the process was made to lose track of
    late        \* ghost: entries executed since the switch tripped (0, 1, 2 = more)

modes  == <<dryRun, makerEntry>>
memory == <<modes, watch, tripped, positions, pending, cooling>>
store  == <<lock, storeMem, disk>>
market == <<exch, resting>>
ghosts == <<booked, recent, blind, late>>
vars   == <<phase, memory, router, pm, store, rec, market, ghosts>>

None     == [c \in Coins |-> 0]
Held(f)  == {c \in Coins : f[c] > 0}
UpTo2(n) == IF n < 2 THEN n + 1 ELSE 2

IdleRouter == [pc |-> "idle", coin |-> NoCoin]
IdlePM     == [pc |-> "idle", coin |-> NoCoin, batch |-> {}]
NoRecovery == [live |-> None, saved |-> {}, todo |-> {}]

\* The modes in which an accepted order may not be filled yet.
Simulated == dryRun /\ makerEntry
Rests     == ~dryRun /\ makerEntry

-----------------------------------------------------------------------------
(* OpenPositionStore: a FIFO lock, a dictionary and a file replaced as a
   whole.  Each task has at most one operation outstanding, so the holder and
   the two pcs are the queue.  The dictionary changes and the file is written
   under the lock, which is why the two are one step. *)

RouterWaits == router.pc = "persist"
PMWaits     == pm.pc \in {"filling", "saving", "arming", "removing"}

Request(task) == lock' = IF lock = "free" THEN task ELSE lock

\* _write_file swallows an OSError: the file then keeps its old content.
WriteFile(content) ==
    disk' \in {content} \cup (IF "disk" \in Faults THEN {disk} ELSE {})

Upsert(c, lots) ==
    /\ storeMem' = [storeMem EXCEPT ![c] = lots]
    /\ WriteFile(storeMem')

RemoveForgotten(c) == UNCHANGED <<storeMem, disk>>      \* mutant: nothing removed

Remove(c) ==
    IF storeMem[c] = 0
    THEN UNCHANGED <<storeMem, disk>>
    ELSE Upsert(c, 0)

-----------------------------------------------------------------------------
(* The order router. *)

AnyCoin(c) == TRUE                                      \* mutant: a check dropped

AssertCanTrade(c) == ~tripped
NotTracked(c)     == positions[c] = 0
NotPending(c)     == pending[c] = "none"
NotInCooldown(c)  == c \notin cooling

\* route_entry up to its first await: every check reads the state of this
\* instant, the order is sent only after the collateral answer.  The confidence
\* floor and the feed warm-up may drop any signal, as may an idle strategy.
Gate(c) ==
    /\ phase = "running"
    /\ router.pc = "idle"
    /\ c \in watch
    /\ AssertCanTrade(c) /\ NotTracked(c) /\ NotPending(c) /\ NotInCooldown(c)
    /\ router' = [pc |-> "snapshot", coin |-> c]
    /\ UNCHANGED <<phase, memory, pm, store, rec, market, ghosts>>

\* A failed collateral read, a MarginSafetyError or a zero size ends the signal.
SizeRefused ==
    /\ router.pc = "snapshot"
    /\ router' = IdleRouter
    /\ UNCHANGED <<phase, memory, pm, store, rec, market, ghosts>>

\* register_position: the dictionary first, then the store.
Register(c) ==
    /\ positions' = [positions EXCEPT ![c] = 1]
    /\ booked' = [booked EXCEPT ![c] = 0]

CountLate == late' = IF tripped THEN UpTo2(late) ELSE late

\* Live: the order leaves for the exchange.
SendEntry ==
    /\ router.pc = "snapshot"
    /\ ~dryRun
    /\ router' = [router EXCEPT !.pc = "order"]
    /\ UNCHANGED <<phase, memory, pm, store, rec, market, ghosts>>

\* Dry run: place_order answers without suspending; a post-only entry is parked,
\* any other is registered at once.
SimulateEntry ==
    /\ router.pc = "snapshot"
    /\ dryRun
    /\ \/ /\ Simulated
          /\ pending' = [pending EXCEPT ![router.coin] = "sent"]
          /\ router' = IdleRouter
          /\ UNCHANGED <<positions, booked, lock, late>>
       \/ /\ ~Simulated
          /\ Register(router.coin)
          /\ router' = [router EXCEPT !.pc = "persist"]
          /\ Request("router")
          /\ CountLate
          /\ UNCHANGED pending
    /\ UNCHANGED <<phase, modes, watch, tripped, cooling, pm, storeMem, disk, rec, market,
                   recent, blind>>

\* The exchange takes the entry: it fills, or a post-only order comes to rest.
ExecuteEntry ==
    /\ router.pc = "order"
    /\ router' = [router EXCEPT !.pc = "filled"]
    /\ \/ /\ ~Rests /\ exch[router.coin] < MaxLots
          /\ exch' = [exch EXCEPT ![router.coin] = @ + 1]
          /\ UNCHANGED resting
       \/ /\ Rests
          /\ resting' = resting \cup {router.coin}
          /\ UNCHANGED exch
    /\ CountLate
    /\ UNCHANGED <<phase, memory, pm, store, rec, booked, recent, blind>>

EntryRejectionIgnored ==                                \* mutant: registered anyway
    /\ router.pc = "order"
    /\ Register(router.coin)
    /\ router' = [router EXCEPT !.pc = "persist"]
    /\ Request("router")
    /\ UNCHANGED <<phase, modes, watch, tripped, pending, cooling, pm, storeMem, disk, rec,
                   market, recent, blind, late>>

\* order_rejection found an error, or the request never arrived.
EntryRejected ==
    /\ router.pc = "order"
    /\ router' = IdleRouter
    /\ UNCHANGED <<phase, memory, pm, store, rec, market, ghosts>>

EntryNotStored ==                                       \* mutant: no upsert
    /\ router.pc = "filled"
    /\ Register(router.coin)
    /\ router' = IdleRouter
    /\ UNCHANGED <<phase, modes, watch, tripped, pending, cooling, pm, store, rec,
                   market, recent, blind, late>>

\* The answer of an accepted entry: _open_position.
EntryAccepted ==
    /\ router.pc = "filled"
    /\ Register(router.coin)
    /\ router' = [router EXCEPT !.pc = "persist"]
    /\ Request("router")
    /\ UNCHANGED <<phase, modes, watch, tripped, pending, cooling, pm, storeMem, disk, rec,
                   market, recent, blind, late>>

\* The order executed but place_order raised: consume_signals logs and goes on.
EntryAnswerLost ==
    /\ router.pc = "filled"
    /\ "lost" \in Faults
    /\ router' = IdleRouter
    /\ blind' = blind \cup {router.coin}
    /\ UNCHANGED <<phase, memory, pm, store, rec, market, booked, recent, late>>

\* The store finishes the router's upsert and hands the lock on.
RouterStored ==
    /\ RouterWaits
    /\ lock = "router"
    /\ Upsert(router.coin, 1)
    /\ lock' = IF PMWaits THEN "pm" ELSE "free"
    /\ router' = IdleRouter
    /\ UNCHANGED <<phase, memory, pm, rec, market, ghosts>>

RouterStep ==
    \/ \E c \in Coins : Gate(c)
    \/ SizeRefused \/ SendEntry \/ SimulateEntry
    \/ EntryRejected \/ EntryAccepted \/ EntryAnswerLost \/ RouterStored

-----------------------------------------------------------------------------
(* The position manager. *)

\* The position part of on_price_update: a new peak is saved, then an armed
\* break-even, then an exit starts with its journal line; each is optional and
\* each suspends the task.
SavePeak(c)     == pm' = [pm EXCEPT !.pc = "saving", !.coin = c] /\ Request("pm")
ArmBreakEven(c) == pm' = [pm EXCEPT !.pc = "arming", !.coin = c] /\ Request("pm")
StartExit(c)    == pm' = [pm EXCEPT !.pc = "journal", !.coin = c] /\ UNCHANGED lock
EndMark         == pm' = IdlePM /\ UNCHANGED lock

\* A fresh mark for a managed coin; only watched coins are subscribed.
Mark(c) ==
    /\ phase = "running"
    /\ pm.pc = "idle"
    /\ c \in watch
    /\ ~tripped
    /\ positions[c] > 0
    /\ SavePeak(c) \/ ArmBreakEven(c) \/ StartExit(c)
    /\ UNCHANGED <<phase, memory, router, storeMem, disk, rec, market, ghosts>>

\* OrderRouter.on_mark, called from on_price_update before the position logic.
PendingMark(c) ==
    /\ phase = "running"
    /\ pm.pc = "idle"
    /\ c \in watch
    /\ ~tripped
    /\ \/ /\ pending[c] = "sent"     \* the order arrives: rests, or would cross
          /\ \E s \in {"none", "resting"} : pending' = [pending EXCEPT ![c] = s]
          /\ UNCHANGED <<positions, booked, pm, lock>>
       \/ /\ pending[c] = "resting"  \* max_hold_seconds passed unfilled
          /\ pending' = [pending EXCEPT ![c] = "none"]
          /\ UNCHANGED <<positions, booked, pm, lock>>
       \/ /\ pending[c] = "resting"  \* the mark reached the limit
          /\ pending' = [pending EXCEPT ![c] = "none"]
          /\ Register(c)
          /\ pm' = [pm EXCEPT !.pc = "filling", !.coin = c]
          /\ Request("pm")
    /\ UNCHANGED <<phase, modes, watch, tripped, cooling, router, storeMem, disk, rec, market,
                   recent, blind, late>>

\* A mark while tripped: panic_close_all takes the list of positions once and
\* requests their exits one after the other.
Panic(c) ==
    /\ phase = "running"
    /\ pm.pc = "idle"
    /\ tripped
    /\ \E d \in Held(positions) :
         pm' = [pc |-> "journal", coin |-> d, batch |-> Held(positions) \ {d}]
    /\ c \in watch
    /\ UNCHANGED <<phase, memory, router, store, rec, market, ghosts>>

\* on_price_update goes on after an upsert, with the switch not read again.
Resume ==
    /\ \/ pm.pc = "registered" /\ SavePeak(pm.coin)
       \/ pm.pc \in {"registered", "saved"} /\ ArmBreakEven(pm.coin)
       \/ pm.pc \in {"registered", "saved", "armed"} /\ (StartExit(pm.coin) \/ EndMark)
    /\ UNCHANGED <<phase, memory, router, storeMem, disk, rec, market, ghosts>>

\* The store finishes an upsert of the position manager.
SaveStored ==
    /\ pm.pc \in {"filling", "saving", "arming"}
    /\ lock = "pm"
    /\ Upsert(pm.coin, positions[pm.coin])
    /\ lock' = IF RouterWaits THEN "router" ELSE "free"
    /\ pm' = [pm EXCEPT !.pc = CASE @ = "filling" -> "registered"
                                 [] @ = "saving"  -> "saved"
                                 [] @ = "arming"  -> "armed"]
    /\ UNCHANGED <<phase, memory, router, rec, market, ghosts>>

BatchAborted == pm' = IdlePM                            \* mutant: a refused exit ends the batch

\* Where a finished exit leads: the next position of a panic, or the next mark.
AfterExit ==
    \/ pm.batch = {} /\ pm' = IdlePM
    \/ \E d \in pm.batch :
         pm' = [pc |-> "journal", coin |-> d, batch |-> pm.batch \ {d}]

\* An accepted exit: remove_position pops the entry and asks the store.
ExitAccepted(c) ==
    /\ positions' = [positions EXCEPT ![c] = 0]
    /\ recent' = recent \cup {c}
    /\ pm' = [pm EXCEPT !.pc = "removing"]
    /\ Request("pm")

Unbooked == UNCHANGED booked                            \* mutant: no line before the exit

\* record_closed_trade appends one line; an OSError is swallowed.
RecordClosedTrade ==
    \/ booked' = [booked EXCEPT ![pm.coin] = UpTo2(@)]
    \/ "disk" \in Faults /\ UNCHANGED booked

\* _request_exit: the line first, then the exit handler; a dry-run order is
\* accepted without suspending.  route_exit's own "position not tracked" check
\* always passes: this task is the only one that removes positions.
RequestExit ==
    /\ pm.pc = "journal"
    /\ RecordClosedTrade
    /\ \/ dryRun /\ ExitAccepted(pm.coin)
       \/ ~dryRun /\ pm' = [pm EXCEPT !.pc = "exit"] /\ UNCHANGED <<positions, recent, lock>>
    /\ UNCHANGED <<phase, modes, watch, tripped, pending, cooling, router, storeMem, disk, rec,
                   market, blind, late>>

\* The exchange fills the reduce-only order.
ExecuteExit ==
    /\ pm.pc = "exit"
    /\ exch[pm.coin] > 0
    /\ exch' = [exch EXCEPT ![pm.coin] =
                   IF @ > positions[pm.coin] THEN @ - positions[pm.coin] ELSE 0]
    /\ pm' = [pm EXCEPT !.pc = "exited"]
    /\ UNCHANGED <<phase, memory, router, store, rec, resting, ghosts>>

ExitRejectionIgnored ==                                 \* mutant: dropped anyway
    /\ pm.pc = "exit"
    /\ ExitAccepted(pm.coin)
    /\ UNCHANGED <<phase, modes, watch, tripped, pending, cooling, router, storeMem, disk, rec,
                   market, booked, blind, late>>

\* Refused, unmatched, or the request failed: the position stays tracked.
ExitRejected ==
    /\ pm.pc = "exit"
    /\ AfterExit
    /\ UNCHANGED <<phase, memory, router, store, rec, market, ghosts>>

ExitAnswered ==
    /\ pm.pc = "exited"
    /\ ExitAccepted(pm.coin)
    /\ UNCHANGED <<phase, modes, watch, tripped, pending, cooling, router, storeMem, disk, rec,
                   market, booked, blind, late>>

\* The exit executed but place_order raised.
ExitAnswerLost ==
    /\ pm.pc = "exited"
    /\ "lost" \in Faults
    /\ AfterExit
    /\ UNCHANGED <<phase, memory, router, store, rec, market, ghosts>>

\* The record is gone from the file; only now the cooldown is stamped.
RemoveStored ==
    /\ pm.pc = "removing"
    /\ lock = "pm"
    /\ Remove(pm.coin)
    /\ lock' = IF RouterWaits THEN "router" ELSE "free"
    /\ cooling' = cooling \cup {pm.coin}
    /\ AfterExit
    /\ UNCHANGED <<phase, modes, watch, tripped, positions, pending, router, rec, market, ghosts>>

PMStep ==
    \/ \E c \in Coins : Mark(c) \/ PendingMark(c) \/ Panic(c)
    \/ Resume \/ SaveStored \/ RequestExit \/ ExitRejected \/ ExitAnswered
    \/ ExitAnswerLost \/ RemoveStored

-----------------------------------------------------------------------------
(* Start-up: recover_positions, before any other task exists. *)

\* OpenPositionStore.load: a file that cannot be read counts as an empty one.
Loadable == {disk} \cup (IF "disk" \in Faults THEN {None} ELSE {})

\* Read the exchange (live only), then the file.  A failed exchange read ends
\* the process: it stays down.
StartRecovery ==
    /\ phase = "down"
    /\ phase' = "recovering"
    /\ watch' \in WatchLists
    /\ \E content \in Loadable :
         LET live == IF dryRun THEN None ELSE exch IN
         /\ storeMem' = content
         /\ rec' = [live |-> live, saved |-> Held(content),
                    todo |-> Held(content) \cup Held(live)]
    /\ blind' = resting
    /\ UNCHANGED <<modes, tripped, positions, pending, cooling, router, pm, lock, disk,
                   market, booked, recent, late>>

Done(c) == rec' = [rec EXCEPT !.todo = @ \ {c}]

\* A saved coin outside BOT_SYMBOLS, or flat at the exchange, is deleted.
DropSaved(c) ==
    /\ phase = "recovering"
    /\ c \in rec.todo \cap rec.saved
    /\ c \notin watch \/ (~dryRun /\ rec.live[c] = 0)
    /\ Remove(c)
    /\ blind' = IF rec.live[c] > 0 THEN blind \cup {c} ELSE blind
    /\ Done(c)
    /\ UNCHANGED <<phase, memory, router, pm, lock, market, booked, recent, late>>

SummedLots(c) == storeMem[c] + rec.live[c]               \* mutant: added, not replaced

\* _reconcile: the exchange's size; in dry run the file's.
ReconciledLots(c) == IF dryRun THEN storeMem[c] ELSE rec.live[c]

\* Any other saved coin is kept.  _reconcile changes the object the store also
\* holds; the file follows at the next write.
KeepSaved(c) ==
    /\ phase = "recovering"
    /\ c \in rec.todo \cap rec.saved
    /\ c \in watch
    /\ dryRun \/ rec.live[c] > 0
    /\ positions' = [positions EXCEPT ![c] = ReconciledLots(c)]
    /\ storeMem' = [storeMem EXCEPT ![c] = ReconciledLots(c)]
    /\ Done(c)
    /\ UNCHANGED <<phase, modes, watch, tripped, pending, cooling, router, pm, lock, disk,
                   market, ghosts>>

\* _adopt_orphans: what the exchange holds and the file did not name.
AdoptOrphan(c) ==
    /\ phase = "recovering"
    /\ rec.todo \cap rec.saved = {}
    /\ c \in rec.todo
    /\ \/ /\ positions' = [positions EXCEPT ![c] = rec.live[c]]
          /\ booked' = [booked EXCEPT ![c] = 0]
          /\ Upsert(c, rec.live[c])
          /\ UNCHANGED blind
       \/ /\ "noprice" \in Faults    \* no usable entry price: left unmanaged
          /\ blind' = blind \cup {c}
          /\ UNCHANGED <<positions, booked, storeMem, disk>>
    /\ Done(c)
    /\ UNCHANGED <<phase, modes, watch, tripped, pending, cooling, router, pm, lock, market,
                   recent, late>>

FinishRecovery ==
    /\ phase = "recovering"
    /\ rec.todo = {}
    /\ phase' = "running"
    /\ rec' = NoRecovery
    /\ UNCHANGED <<memory, router, pm, store, market, ghosts>>

RecoveryStep ==
    \/ StartRecovery \/ FinishRecovery
    \/ \E c \in Coins : DropSaved(c) \/ KeepSaved(c) \/ AdoptOrphan(c)

-----------------------------------------------------------------------------
(* The surroundings. *)

Trip ==
    /\ phase = "running"
    /\ ~tripped
    /\ tripped' = TRUE
    /\ late' = 0
    /\ UNCHANGED <<phase, modes, watch, positions, pending, cooling, router, pm, store, rec,
                   market, booked, recent, blind>>

\* A new UTC day or a manual reset.
Unlock ==
    /\ phase = "running"
    /\ tripped
    /\ tripped' = FALSE
    /\ late' = 0
    /\ UNCHANGED <<phase, modes, watch, positions, pending, cooling, router, pm, store, rec,
                   market, booked, recent, blind>>

\* reentry_cooldown_seconds after the exit.
CooldownEnds(c) ==
    /\ c \in recent
    /\ ~(pm.pc = "removing" /\ pm.coin = c)
    /\ recent' = recent \ {c}
    /\ cooling' = cooling \ {c}
    /\ UNCHANGED <<phase, modes, watch, tripped, positions, pending, router, pm, store, rec,
                   market, booked, blind, late>>

RestingFills(c) ==
    /\ c \in resting
    /\ exch[c] < MaxLots
    /\ resting' = resting \ {c}
    /\ exch' = [exch EXCEPT ![c] = @ + 1]
    /\ UNCHANGED <<phase, memory, router, pm, store, rec, ghosts>>

Liquidate(c) ==
    /\ "liquidation" \in Faults
    /\ exch[c] > 0
    /\ exch' = [exch EXCEPT ![c] = 0]
    /\ UNCHANGED <<phase, memory, router, pm, store, rec, resting, ghosts>>

\* A crash, or a shutdown that cancels the tasks: memory is gone, the file and
\* the exchange are not.
Stop ==
    /\ "restart" \in Faults
    /\ phase # "down"
    /\ phase' = "down"
    /\ tripped' = FALSE
    /\ positions' = None
    /\ pending' = [c \in Coins |-> "none"]
    /\ cooling' = {}
    /\ router' = IdleRouter
    /\ pm' = IdlePM
    /\ lock' = "free"
    /\ storeMem' = None
    /\ rec' = NoRecovery
    /\ recent' = {} /\ late' = 0
    /\ UNCHANGED <<modes, watch, disk, market, booked, blind>>

ExchangeStep ==
    \/ ExecuteEntry \/ ExecuteExit
    \/ \E c \in Coins : RestingFills(c) \/ Liquidate(c)

-----------------------------------------------------------------------------
\* The account may already hold positions at the first start; there is no file.
Init ==
    /\ phase = "down"
    /\ dryRun \in DryRuns /\ makerEntry \in MakerModes
    /\ watch \in WatchLists
    /\ tripped = FALSE
    /\ positions = None
    /\ pending = [c \in Coins |-> "none"]
    /\ cooling = {}
    /\ router = IdleRouter
    /\ pm = IdlePM
    /\ lock = "free"
    /\ storeMem = None
    /\ disk = None
    /\ rec = NoRecovery
    /\ exch \in [Coins -> IF dryRun THEN {0} ELSE {0, 1}]
    /\ resting = {}
    /\ booked = None
    /\ recent = {}
    /\ blind = {}
    /\ late = 0

Next ==
    \/ RouterStep \/ PMStep \/ RecoveryStep \/ ExchangeStep
    \/ Trip \/ Unlock \/ Stop
    \/ \E c \in Coins : CooldownEnds(c)

Spec == Init /\ [][Next]_vars

(* Fairness.  Both tasks keep running: an awaited read, write or answer comes
   back (the HTTP client has a 30 s timeout, file writes end), so each task's
   own steps are weakly fair; marks of watched coins keep arriving.  Which
   answer an order gets is the exchange's choice: it may refuse an exit for
   ever, as it does while the exit's limit misses the market. *)
Fairness ==
    /\ WF_vars(RouterStep) /\ WF_vars(RecoveryStep)
    /\ WF_vars(\E c \in Coins : Panic(c))
    /\ WF_vars(Resume \/ SaveStored \/ RequestExit \/ ExitRejected \/ ExitAnswered \/ RemoveStored)

FairSpec == Spec /\ Fairness

-----------------------------------------------------------------------------
(* Properties. *)

TypeOK ==
    /\ phase \in {"down", "recovering", "running"}
    /\ dryRun \in DryRuns /\ makerEntry \in MakerModes
    /\ watch \in WatchLists
    /\ tripped \in BOOLEAN
    /\ positions \in [Coins -> 0..MaxLots]
    /\ pending \in [Coins -> {"none", "sent", "resting"}]
    /\ cooling \subseteq Coins
    /\ router \in [pc : {"idle", "snapshot", "order", "filled", "persist"},
                   coin : Coins \cup {NoCoin}]
    /\ router.pc # "idle" => router.coin \in Coins
    /\ pm \in [pc : {"idle", "filling", "registered", "saving", "saved", "arming", "armed",
                     "journal", "exit", "exited", "removing"},
               coin : Coins \cup {NoCoin}, batch : SUBSET Coins]
    /\ pm.pc # "idle" => pm.coin \in Coins
    /\ lock \in {"free", "router", "pm"}
    /\ storeMem \in [Coins -> 0..MaxLots]
    /\ disk \in [Coins -> 0..MaxLots]
    /\ rec \in [live : [Coins -> 0..MaxLots], saved : SUBSET Coins, todo : SUBSET Coins]
    /\ exch \in [Coins -> 0..MaxLots]
    /\ resting \subseteq Coins
    /\ booked \in [Coins -> 0..2]
    /\ recent \subseteq Coins
    /\ blind \subseteq Coins
    /\ late \in 0..2

EntryInFlight(c) == router.coin = c /\ router.pc \in {"snapshot", "order", "filled"}
EntryFilled(c)   == router.coin = c /\ router.pc = "filled"

\* What the checks of route_entry establish still holds when the order has been
\* answered, two awaits later: nobody else took the coin meanwhile, so no entry
\* overwrites a managed position or a resting entry, and a coin never has both.
OneTradePerCoin ==
    \A c \in Coins :
        /\ EntryInFlight(c) => positions[c] = 0 /\ pending[c] = "none"
        /\ pending[c] # "none" => positions[c] = 0

\* No unmanaged exposure: outside the coins an injected fault hid from the
\* process (a lost entry answer, a saved coin dropped from BOT_SYMBOLS, an
\* orphan without a price, an order resting across a restart) the exchange never
\* holds, or may come to hold through a resting order, more lots of a coin than
\* the position manager manages, plus the entry whose answer is on its way.
Exposure(c) == exch[c] + (IF c \in resting THEN 1 ELSE 0)

EveryLotManaged ==
    phase = "running" =>
        \A c \in Coins \ blind :
            Exposure(c) <= positions[c] + (IF EntryFilled(c) THEN 1 ELSE 0)

\* No phantom: a managed position exists at the exchange, until the answer to
\* the exit that closed it arrives.  (Not with live post-only entries: one that
\* rests is registered as if it had filled.)
PositionsAreReal ==
    ~dryRun /\ ~Rests /\ phase = "running" =>
        \A c \in Held(positions) : exch[c] > 0 \/ (pm.pc = "exited" /\ pm.coin = c)

\* The kill switch is read once per entry, awaits before the order: at most
\* the one entry in flight still executes after a trip.
AtMostOneLateEntry == late <= 1

\* With writes that succeed and nobody in the store, the file names exactly the
\* managed coins: a crash now loses no position and revives none.
FileAgrees ==
    "disk" \notin Faults /\ phase = "running" /\ lock = "free" =>
        Held(disk) = Held(positions)

\* A position whose last store operation is done is in the file, whatever the
\* other task has outstanding for another coin.
FileKnowsManaged ==
    "disk" \notin Faults /\ phase = "running" =>
        \A c \in Held(positions) :
            disk[c] > 0 \/ (RouterWaits /\ router.coin = c) \/ (PMWaits /\ pm.coin = c)

\* The evidence survives a crash: no exit executes, and no position leaves the
\* dictionary, before the trade has its journal line.
ExitsAreJournaled ==
    [][\A c \in Coins :
          "disk" \notin Faults /\ phase' = "running" /\ positions[c] > 0
          /\ (positions'[c] = 0 \/ (pm.pc = "exit" /\ pm.coin = c /\ exch'[c] < exch[c]))
          => booked'[c] > 0]_vars

\* route_entry never starts an entry inside the re-entry window of an exit that
\* was accepted, except while that exit's store write is still awaited.
NoEarlyReentry ==
    [][\A c \in recent :
          Gate(c) => pm.pc = "removing" /\ pm.coin = c]_vars

\* A tripped switch asks for the exit of every open position, again and again
\* until the position is gone or the switch is unlocked: neither the refusal of
\* another coin's exit, nor a store write, nor an entry finished after the trip
\* leaves one out ("one bad symbol must not strand the rest").
PanicReachesAll ==
    \A c \in Coins :
        (tripped /\ positions[c] > 0)
            ~> (positions[c] = 0 \/ ~tripped \/ (pm.pc = "exit" /\ pm.coin = c))

-----------------------------------------------------------------------------
(* What comments and tests of the repository say, and the code does not do. *)

\* The re-entry cooldown blocks an immediate re-entry.
CooldownBlocksReentry == [][\A c \in recent : ~Gate(c)]_vars

\* One closed trade, one journal line.
TradeBookedOnce == \A c \in Coins : booked[c] <= 1

\* Recovery leaves no exchange position unmanaged.
RecoveryAdoptsAll ==
    [][phase = "recovering" /\ phase' = "running" =>
          \A c \in Coins : exch[c] > 0 => positions[c] > 0]_vars
=============================================================================
