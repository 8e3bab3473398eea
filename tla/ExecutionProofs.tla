-------------------------- MODULE ExecutionProofs --------------------------
(***************************************************************************)
(* Theorems about Execution, for every set of coins, watch list, mode and  *)
(* combination of faults: types, entries, the re-entry window; then        *)
(* exposure, the journal lines of exits, phantoms, and the file.           *)
(***************************************************************************)
EXTENDS Execution, TLAPS

Assumptions ==
    /\ NoCoin \notin Coins
    /\ WatchLists \subseteq SUBSET Coins
    /\ MaxLots \in Nat /\ MaxLots >= 1

\* The settings are fixed: every action names them in its UNCHANGED.
USE DEF modes

\* What the assumptions of Execution say, in one fact.
LEMMA Constants == Assumptions
  BY CoinAssumption, WatchAssumption, LotAssumption DEF Assumptions

-----------------------------------------------------------------------------
(* Type correctness. *)

LEMMA TypeInit == Init => TypeOK
<1> SUFFICES ASSUME Init PROVE TypeOK
  OBVIOUS
<1> USE Constants DEF Assumptions, Init
<1>1. None \in [Coins -> 0..MaxLots] /\ None \in [Coins -> 0..2]
  BY DEF None
<1>2. exch \in [Coins -> 0..MaxLots]
  <2>1. (IF dryRun THEN {0} ELSE {0, 1}) \subseteq 0..MaxLots
    OBVIOUS
  <2> QED
    BY <2>1
<1>3. pending \in [Coins -> {"none", "sent", "resting"}]
  OBVIOUS
<1>4. rec \in [live : [Coins -> 0..MaxLots], saved : SUBSET Coins, todo : SUBSET Coins]
  BY <1>1 DEF NoRecovery
<1>5. /\ pm \in [pc : {"idle"}, coin : {NoCoin}, batch : SUBSET Coins]
      /\ router \in [pc : {"idle"}, coin : {NoCoin}]
  BY DEF IdlePM, IdleRouter
<1>6. tripped \in BOOLEAN
  OBVIOUS
<1>7. /\ phase \in {"down"} /\ watch \in WatchLists /\ cooling = {} /\ lock \in {"free"}
      /\ positions = None /\ storeMem = None /\ disk = None /\ booked = None
      /\ resting = {} /\ recent = {} /\ blind = {} /\ late \in 0..2
  OBVIOUS
<1>8. dryRun \in DryRuns /\ makerEntry \in MakerModes
  OBVIOUS
<1> HIDE DEF Init
<1> QED
  BY <1>1, <1>2, <1>3, <1>4, <1>5, <1>6, <1>7, <1>8 DEF TypeOK

\* A store operation keeps dictionary and file well typed.
LEMMA TypeUpsert ==
  ASSUME TypeOK, NEW c \in Coins, NEW lots \in 0..MaxLots, Upsert(c, lots)
  PROVE  storeMem' \in [Coins -> 0..MaxLots] /\ disk' \in [Coins -> 0..MaxLots]
<1>1. storeMem' \in [Coins -> 0..MaxLots]
  BY DEF TypeOK, Upsert
<1>2. disk' = storeMem' \/ disk' = disk
  BY DEF Upsert, WriteFile
<1> QED
  BY <1>1, <1>2 DEF TypeOK

LEMMA TypeRemove ==
  ASSUME TypeOK, NEW c \in Coins, Remove(c)
  PROVE  storeMem' \in [Coins -> 0..MaxLots] /\ disk' \in [Coins -> 0..MaxLots]
<1>1. CASE storeMem[c] = 0
  BY <1>1 DEF Remove, TypeOK
<1>2. CASE storeMem[c] # 0
  <2>1. Upsert(c, 0)
    BY <1>2 DEF Remove
  <2> QED
    BY <2>1, TypeUpsert, Constants DEF Assumptions
<1> QED
  BY <1>1, <1>2

LEMMA TypeRouter == TypeOK /\ RouterStep => TypeOK'
<1> SUFFICES ASSUME TypeOK, RouterStep PROVE TypeOK'
  OBVIOUS
<1> USE Constants DEF Assumptions, TypeOK, memory, store, market, ghosts
<1>1. ASSUME NEW c \in Coins, Gate(c) PROVE TypeOK'
  BY <1>1 DEF Gate
<1>2. CASE SizeRefused
  BY <1>2 DEF SizeRefused, IdleRouter
<1>3. CASE SendEntry
  BY <1>3 DEF SendEntry
<1>4. CASE SimulateEntry
  <2>1. /\ positions' \in [Coins -> 0..MaxLots] /\ booked' \in [Coins -> 0..2]
        /\ pending' \in [Coins -> {"none", "sent", "resting"}]
        /\ lock' \in {"free", "router", "pm"} /\ late' \in 0..2
    BY <1>4 DEF SimulateEntry, Register, Request, CountLate, UpTo2
  <2>2. /\ router' \in [pc : {"idle", "persist"}, coin : Coins \cup {NoCoin}]
        /\ router'.pc # "idle" => router'.coin \in Coins
    BY <1>4 DEF SimulateEntry, IdleRouter
  <2>3. UNCHANGED <<phase, dryRun, makerEntry, watch, tripped, cooling, pm, storeMem, disk,
                    rec, exch, resting, recent, blind>>
    BY <1>4 DEF SimulateEntry
  <2> QED
    BY <2>1, <2>2, <2>3
<1>5. CASE EntryRejected
  BY <1>5 DEF EntryRejected, IdleRouter
<1>6. CASE EntryAccepted
  BY <1>6 DEF EntryAccepted, Register, Request
<1>7. CASE EntryAnswerLost
  BY <1>7 DEF EntryAnswerLost, IdleRouter
<1>8. CASE RouterStored
  <2>1. storeMem' \in [Coins -> 0..MaxLots] /\ disk' \in [Coins -> 0..MaxLots]
    BY <1>8, TypeUpsert DEF RouterStored, RouterWaits
  <2> QED
    BY <1>8, <2>1 DEF RouterStored, IdleRouter
<1> QED
  BY <1>1, <1>2, <1>3, <1>4, <1>5, <1>6, <1>7, <1>8 DEF RouterStep

LEMMA TypeAfterExit ==
  ASSUME TypeOK, AfterExit
  PROVE  /\ pm' \in [pc : {"idle", "journal"}, coin : Coins \cup {NoCoin},
                      batch : SUBSET Coins]
         /\ pm'.pc # "idle" => pm'.coin \in Coins
  BY DEF TypeOK, AfterExit, IdlePM

PMType == [pc : {"idle", "filling", "registered", "saving", "saved", "arming", "armed",
                  "journal", "exit", "exited", "removing"},
           coin : Coins \cup {NoCoin}, batch : SUBSET Coins]

LEMMA TypeDecision ==
  ASSUME TypeOK, NEW c \in Coins,
         SavePeak(c) \/ ArmBreakEven(c) \/ StartExit(c) \/ EndMark
  PROVE  /\ pm' \in PMType /\ (pm'.pc # "idle" => pm'.coin \in Coins)
         /\ lock' \in {"free", "router", "pm"}
<1> USE DEF TypeOK, PMType
<1>1. CASE SavePeak(c)
  BY <1>1 DEF SavePeak, Request
<1>2. CASE ArmBreakEven(c)
  BY <1>2 DEF ArmBreakEven, Request
<1>3. CASE StartExit(c)
  BY <1>3 DEF StartExit
<1>4. CASE EndMark
  BY <1>4 DEF EndMark, IdlePM
<1> QED
  BY <1>1, <1>2, <1>3, <1>4

LEMMA TypePM == TypeOK /\ PMStep => TypeOK'
<1> SUFFICES ASSUME TypeOK, PMStep PROVE TypeOK'
  OBVIOUS
<1> USE Constants DEF Assumptions, TypeOK, memory, store, market, ghosts
<1>1. ASSUME NEW c \in Coins, Mark(c) PROVE TypeOK'
  BY <1>1, TypeDecision DEF Mark, PMType
<1>2. ASSUME NEW c \in Coins, PendingMark(c) PROVE TypeOK'
  <2>1. pending' \in [Coins -> {"none", "sent", "resting"}]
    BY <1>2 DEF PendingMark
  <2>2. /\ positions' \in [Coins -> 0..MaxLots] /\ booked' \in [Coins -> 0..2]
        /\ pm' \in PMType /\ (pm'.pc # "idle" => pm'.coin \in Coins)
        /\ lock' \in {"free", "router", "pm"}
    <3>1. \/ UNCHANGED <<positions, booked, pm, lock>>
          \/ Register(c) /\ pm' = [pm EXCEPT !.pc = "filling", !.coin = c] /\ Request("pm")
      BY <1>2 DEF PendingMark
    <3>2. CASE UNCHANGED <<positions, booked, pm, lock>>
      BY <3>2 DEF PMType
    <3>3. ASSUME Register(c), pm' = [pm EXCEPT !.pc = "filling", !.coin = c], Request("pm")
          PROVE  /\ positions' \in [Coins -> 0..MaxLots] /\ booked' \in [Coins -> 0..2]
                 /\ pm' \in PMType /\ (pm'.pc # "idle" => pm'.coin \in Coins)
                 /\ lock' \in {"free", "router", "pm"}
      <4>1. positions' \in [Coins -> 0..MaxLots] /\ booked' \in [Coins -> 0..2]
        BY <3>3 DEF Register
      <4>2. pm' \in PMType /\ pm'.coin \in Coins
        BY <3>3 DEF PMType
      <4>3. lock' \in {"free", "router", "pm"}
        BY <3>3 DEF Request
      <4> QED
        BY <4>1, <4>2, <4>3
    <3> QED
      BY <3>1, <3>2, <3>3
  <2>3. UNCHANGED <<phase, dryRun, makerEntry, watch, tripped, cooling, router, storeMem,
                    disk, rec, exch, resting, recent, blind, late>>
    BY <1>2 DEF PendingMark
  <2> QED
    BY <2>1, <2>2, <2>3 DEF PMType
<1>3. ASSUME NEW c \in Coins, Panic(c) PROVE TypeOK'
  BY <1>3 DEF Panic, Held
<1>4. CASE Resume
  BY <1>4, TypeDecision DEF Resume, PMType
<1>5. CASE SaveStored
  <2>1. storeMem' \in [Coins -> 0..MaxLots] /\ disk' \in [Coins -> 0..MaxLots]
    BY <1>5, TypeUpsert DEF SaveStored
  <2> QED
    BY <1>5, <2>1 DEF SaveStored
<1>6. CASE RequestExit
  BY <1>6 DEF RequestExit, RecordClosedTrade, ExitAccepted, Request, UpTo2
<1>7. CASE ExitRejected
  BY <1>7, TypeAfterExit DEF ExitRejected
<1>8. CASE ExitAnswered
  BY <1>8 DEF ExitAnswered, ExitAccepted, Request
<1>9. CASE ExitAnswerLost
  BY <1>9, TypeAfterExit DEF ExitAnswerLost
<1>10. CASE RemoveStored
  <2>1. storeMem' \in [Coins -> 0..MaxLots] /\ disk' \in [Coins -> 0..MaxLots]
    BY <1>10, TypeRemove DEF RemoveStored
  <2> QED
    BY <1>10, <2>1, TypeAfterExit DEF RemoveStored
<1> QED
  BY <1>1, <1>2, <1>3, <1>4, <1>5, <1>6, <1>7, <1>8, <1>9, <1>10 DEF PMStep

LEMMA TypeRecovery == TypeOK /\ RecoveryStep => TypeOK'
<1> SUFFICES ASSUME TypeOK, RecoveryStep PROVE TypeOK'
  OBVIOUS
<1> USE Constants DEF Assumptions, TypeOK, memory, store, market, ghosts
<1>1. CASE StartRecovery
  <2>1. None \in [Coins -> 0..MaxLots]
    BY DEF None
  <2>2. PICK content \in {disk} \cup (IF "disk" \in Faults THEN {None} ELSE {}) :
          /\ storeMem' = content
          /\ rec' = [live |-> IF dryRun THEN None ELSE exch, saved |-> Held(content),
                     todo |-> Held(content) \cup Held(IF dryRun THEN None ELSE exch)]
    BY <1>1, Zenon DEF StartRecovery, Loadable
  <2>3. rec' \in [live : [Coins -> 0..MaxLots], saved : SUBSET Coins, todo : SUBSET Coins]
    BY <2>1, <2>2 DEF Held
  <2>4. storeMem' \in [Coins -> 0..MaxLots]
    BY <2>1, <2>2
  <2>5. phase' \in {"recovering"} /\ watch' \in WatchLists /\ blind' = resting
    BY <1>1 DEF StartRecovery, Loadable
  <2>6. UNCHANGED <<dryRun, makerEntry, tripped, positions, pending, cooling, router, pm,
                    lock, disk, exch, resting, booked, recent, late>>
    BY <1>1 DEF StartRecovery, Loadable
  <2> QED
    BY <2>3, <2>4, <2>5, <2>6
<1>2. ASSUME NEW c \in Coins, DropSaved(c) PROVE TypeOK'
  <2>1. storeMem' \in [Coins -> 0..MaxLots] /\ disk' \in [Coins -> 0..MaxLots]
    BY <1>2, TypeRemove DEF DropSaved
  <2> QED
    BY <1>2, <2>1 DEF DropSaved, Done
<1>3. ASSUME NEW c \in Coins, KeepSaved(c) PROVE TypeOK'
  BY <1>3 DEF KeepSaved, Done, ReconciledLots
<1>4. ASSUME NEW c \in Coins, AdoptOrphan(c) PROVE TypeOK'
  <2>1. storeMem' \in [Coins -> 0..MaxLots] /\ disk' \in [Coins -> 0..MaxLots]
    BY <1>4, TypeUpsert DEF AdoptOrphan
  <2> QED
    BY <1>4, <2>1 DEF AdoptOrphan, Done
<1>5. CASE FinishRecovery
  BY <1>5 DEF FinishRecovery, NoRecovery, None
<1> QED
  BY <1>1, <1>2, <1>3, <1>4, <1>5 DEF RecoveryStep

LEMMA TypeExchange == TypeOK /\ ExchangeStep => TypeOK'
<1> SUFFICES ASSUME TypeOK, ExchangeStep PROVE TypeOK'
  OBVIOUS
<1> USE Constants DEF Assumptions, TypeOK, memory, store, market, ghosts
<1>1. CASE ExecuteEntry
  BY <1>1 DEF ExecuteEntry, CountLate, UpTo2
<1>2. CASE ExecuteExit
  BY <1>2 DEF ExecuteExit
<1>3. ASSUME NEW c \in Coins, RestingFills(c) PROVE TypeOK'
  BY <1>3 DEF RestingFills
<1>4. ASSUME NEW c \in Coins, Liquidate(c) PROVE TypeOK'
  BY <1>4 DEF Liquidate
<1> QED
  BY <1>1, <1>2, <1>3, <1>4 DEF ExchangeStep

LEMMA TypeSwitch ==
  ASSUME TypeOK, Trip \/ Unlock
  PROVE  TypeOK'
<1>1. tripped' \in BOOLEAN
  BY DEF Trip, Unlock
<1>2. late' \in 0..2
  BY DEF Trip, Unlock
<1>3. UNCHANGED <<phase, dryRun, makerEntry, watch, positions, pending, cooling, router,
                  pm, lock, storeMem, disk, rec, exch, resting, booked, recent, blind>>
  BY DEF Trip, Unlock, store, market
<1> QED
  BY <1>1, <1>2, <1>3 DEF TypeOK

LEMMA StopUnlocks == Stop => tripped' \in BOOLEAN
  BY DEF Stop

LEMMA TypeNext == TypeOK /\ [Next]_vars => TypeOK'
<1> SUFFICES ASSUME TypeOK, [Next]_vars PROVE TypeOK'
  OBVIOUS
<1> USE Constants DEF Assumptions, TypeOK, memory, store, market, ghosts
<1>1. CASE RouterStep
  BY <1>1, TypeRouter
<1>2. CASE PMStep
  BY <1>2, TypePM
<1>3. CASE RecoveryStep
  BY <1>3, TypeRecovery
<1>4. CASE ExchangeStep
  BY <1>4, TypeExchange
<1>5. CASE Trip \/ Unlock
  BY <1>5, TypeSwitch
<1>6. CASE Stop
  <2>0. tripped' \in BOOLEAN
    BY <1>6, StopUnlocks
  <2>1. late' \in 0..2 /\ lock' \in {"free"} /\ phase' \in {"down"} /\ recent' = {}
    BY <1>6 DEF Stop
  <2>2. positions' = None /\ storeMem' = None /\ None \in [Coins -> 0..MaxLots]
    BY <1>6 DEF Stop, None
  <2>3. pending' \in [Coins -> {"none"}] /\ cooling' \subseteq Coins
    BY <1>6 DEF Stop
  <2>4. rec' \in [live : [Coins -> 0..MaxLots], saved : SUBSET Coins, todo : SUBSET Coins]
    BY <1>6, <2>2 DEF Stop, NoRecovery
  <2>5. /\ router' \in [pc : {"idle"}, coin : {NoCoin}]
        /\ pm' \in [pc : {"idle"}, coin : {NoCoin}, batch : SUBSET Coins]
    BY <1>6 DEF Stop, IdleRouter, IdlePM
  <2>6. UNCHANGED <<dryRun, makerEntry, watch, disk, exch, resting, booked, blind>>
    BY <1>6 DEF Stop
  <2> QED
    BY <2>0, <2>1, <2>2, <2>3, <2>4, <2>5, <2>6
<1>7. ASSUME NEW c \in Coins, CooldownEnds(c) PROVE TypeOK'
  BY <1>7 DEF CooldownEnds
<1>8. CASE UNCHANGED vars
  BY <1>8 DEF vars
<1> QED
  BY <1>1, <1>2, <1>3, <1>4, <1>5, <1>6, <1>7, <1>8 DEF Next

\* Every variable keeps its type, whatever stops, fails or is lost.
THEOREM TypeCorrect == Spec => []TypeOK
  BY TypeInit, TypeNext, PTL DEF Spec
-----------------------------------------------------------------------------
(* The kill switch and the entry in flight.  AtMostOneLateEntry is not
   inductive: it has to be known that the one late entry has left the two
   awaits that precede its execution, and that nothing is counted while the
   switch is open, where the gate may start another entry. *)

LateInv ==
    /\ ~tripped => late = 0
    /\ late = 0 \/ (late = 1 /\ router.pc \notin {"snapshot", "order"})

LEMMA LateInit == Init => LateInv
  BY DEF Init, LateInv

\* The steps that count an entry do so for the one in flight, whose coin leaves
\* the awaits in the same step.
LEMMA LateCount ==
  ASSUME LateInv, router.pc \in {"snapshot", "order"}, CountLate,
         tripped' = tripped, router'.pc \notin {"snapshot", "order"}
  PROVE  LateInv'
<1>1. late = 0
  BY DEF LateInv
<1>2. CASE tripped
  BY <1>1, <1>2 DEF CountLate, UpTo2, LateInv
<1>3. CASE ~tripped
  BY <1>1, <1>3 DEF CountLate, LateInv
<1> QED
  BY <1>2, <1>3

LEMMA LateRouter == TypeOK /\ LateInv /\ RouterStep => LateInv'
<1> SUFFICES ASSUME TypeOK, LateInv, RouterStep PROVE LateInv'
  OBVIOUS
<1>0. router = [pc |-> router.pc, coin |-> router.coin]
  BY DEF TypeOK
<1>1. ASSUME NEW c \in Coins, Gate(c) PROVE LateInv'
  BY <1>1 DEF Gate, AssertCanTrade, LateInv, memory, ghosts
<1>2. CASE SizeRefused
  BY <1>2 DEF SizeRefused, LateInv, memory, ghosts
<1>3. CASE SendEntry
  BY <1>3 DEF SendEntry, LateInv, memory, ghosts
<1>4. CASE SimulateEntry
  <2>1. router'.pc \notin {"snapshot", "order"}
    BY <1>0, <1>4 DEF SimulateEntry, IdleRouter
  <2>2. CASE Simulated
    BY <1>4, <2>1, <2>2 DEF SimulateEntry, LateInv
  <2>3. CASE ~Simulated
    BY <1>4, <2>1, <2>3, LateCount DEF SimulateEntry
  <2> QED
    BY <2>2, <2>3
<1>5. CASE EntryRejected
  BY <1>5 DEF EntryRejected, IdleRouter, LateInv, memory, ghosts
<1>6. CASE EntryAccepted
  BY <1>0, <1>6 DEF EntryAccepted, LateInv
<1>7. CASE EntryAnswerLost
  BY <1>7 DEF EntryAnswerLost, IdleRouter, LateInv, memory
<1>8. CASE RouterStored
  BY <1>8 DEF RouterStored, IdleRouter, LateInv, memory, ghosts
<1> QED
  BY <1>1, <1>2, <1>3, <1>4, <1>5, <1>6, <1>7, <1>8 DEF RouterStep

\* The other task, the recovery and the exchange leave the count alone, but for
\* the execution of the entry itself.
LEMMA LateOther ==
  PMStep \/ RecoveryStep \/ (\E c \in Coins : CooldownEnds(c) \/ RestingFills(c) \/ Liquidate(c))
     \/ ExecuteExit \/ UNCHANGED vars
  => UNCHANGED <<tripped, late, router>>
<1>1. PMStep => UNCHANGED <<tripped, late, router>>
  BY DEF PMStep, Mark, PendingMark, Panic, Resume, SaveStored, RequestExit, ExitRejected,
         ExitAnswered, ExitAnswerLost, RemoveStored, memory, ghosts
<1>2. RecoveryStep => UNCHANGED <<tripped, late, router>>
  BY DEF RecoveryStep, StartRecovery, Loadable, DropSaved, KeepSaved, AdoptOrphan, FinishRecovery,
         memory, ghosts
<1> QED
  BY <1>1, <1>2 DEF CooldownEnds, RestingFills, Liquidate, ExecuteExit, memory, ghosts, vars

LEMMA LateNext == TypeOK /\ LateInv /\ [Next]_vars => LateInv'
<1> SUFFICES ASSUME TypeOK, LateInv, [Next]_vars PROVE LateInv'
  OBVIOUS
<1>1. CASE RouterStep
  BY <1>1, LateRouter
<1>2. CASE ExecuteEntry
  <2>1. router'.pc \notin {"snapshot", "order"}
    BY <1>2 DEF ExecuteEntry, TypeOK
  <2> QED
    BY <1>2, <2>1, LateCount DEF ExecuteEntry, memory
<1>3. CASE UNCHANGED <<tripped, late, router>>
  BY <1>3 DEF LateInv
<1>4. CASE Trip \/ Unlock
  BY <1>4 DEF Trip, Unlock, LateInv
<1>5. CASE Stop
  BY <1>5 DEF Stop, LateInv
<1> QED
  BY <1>1, <1>2, <1>3, <1>4, <1>5, LateOther DEF Next, ExchangeStep

\* After a trip at most the one entry already past its checks still executes,
\* however many signals are queued and whatever fails.
THEOREM LateEntries == Spec => []AtMostOneLateEntry
<1>1. LateInv => AtMostOneLateEntry
  BY DEF LateInv, AtMostOneLateEntry
<1> QED
  BY <1>1, TypeCorrect, LateInit, LateNext, PTL DEF Spec

-----------------------------------------------------------------------------
(* One trade per coin.  The checks of route_entry are used two awaits later;
   they stay true because the only other writers of a coin's position are the
   fill of a pending entry, which the checks exclude, and the recovery, which
   is over before the router starts. *)

TradeInv ==
    /\ OneTradePerCoin
    /\ phase # "running" =>
          router.pc = "idle" /\ \A c \in Coins : pending[c] = "none"

LEMMA TradeInit == Init => TradeInv
  BY DEF Init, TradeInv, OneTradePerCoin, EntryInFlight, IdleRouter

LEMMA TradeRouter == TypeOK /\ TradeInv /\ RouterStep => TradeInv'
<1> SUFFICES ASSUME TypeOK, TradeInv, RouterStep PROVE TradeInv'
  OBVIOUS
<1> USE DEF TradeInv, OneTradePerCoin, EntryInFlight
<1>0. /\ router = [pc |-> router.pc, coin |-> router.coin]
      /\ positions \in [Coins -> 0..MaxLots]
      /\ pending \in [Coins -> {"none", "sent", "resting"}]
      /\ router.pc # "idle" => router.coin \in Coins
  BY DEF TypeOK
<1>1. ASSUME NEW c \in Coins, Gate(c) PROVE TradeInv'
  BY <1>0, <1>1 DEF Gate, NotTracked, NotPending, memory
<1>2. CASE SizeRefused
  BY <1>2 DEF SizeRefused, IdleRouter, memory
<1>3. CASE SendEntry
  BY <1>0, <1>3 DEF SendEntry, memory
<1>4. CASE SimulateEntry
  BY <1>0, <1>4 DEF SimulateEntry, Register, IdleRouter
<1>5. CASE EntryRejected
  BY <1>5 DEF EntryRejected, IdleRouter, memory
<1>6. CASE EntryAccepted
  BY <1>0, <1>6 DEF EntryAccepted, Register
<1>7. CASE EntryAnswerLost
  BY <1>7 DEF EntryAnswerLost, IdleRouter, memory
<1>8. CASE RouterStored
  BY <1>8 DEF RouterStored, IdleRouter, memory
<1> QED
  BY <1>1, <1>2, <1>3, <1>4, <1>5, <1>6, <1>7, <1>8 DEF RouterStep

\* No step of the position manager puts a position under an entry in flight.
LEMMA TradePM == TypeOK /\ TradeInv /\ PMStep => TradeInv'
<1> SUFFICES ASSUME TypeOK, TradeInv, PMStep PROVE TradeInv'
  OBVIOUS
<1> USE DEF TradeInv, OneTradePerCoin, EntryInFlight
<1>0. /\ positions \in [Coins -> 0..MaxLots]
      /\ pending \in [Coins -> {"none", "sent", "resting"}]
      /\ pm.pc # "idle" => pm.coin \in Coins
  BY DEF TypeOK
<1>1. CASE UNCHANGED <<phase, router, positions, pending>>
  BY <1>1
<1>2. ASSUME NEW c \in Coins, PendingMark(c) PROVE TradeInv'
  BY <1>0, <1>2 DEF PendingMark, Register
<1>3. ASSUME ExitAccepted(pm.coin), pm.pc # "idle", UNCHANGED <<phase, router, pending>>
      PROVE  TradeInv'
  BY <1>0, <1>3 DEF ExitAccepted
<1>4. CASE RequestExit
  BY <1>1, <1>3, <1>4 DEF RequestExit
<1>5. CASE ExitAnswered
  BY <1>3, <1>5 DEF ExitAnswered
<1>6. \/ UNCHANGED <<phase, router, positions, pending>>
      \/ \E c \in Coins : PendingMark(c)
      \/ RequestExit \/ ExitAnswered
  BY DEF PMStep, Mark, Panic, Resume, SaveStored, ExitRejected, ExitAnswerLost,
         RemoveStored, memory
<1> QED
  BY <1>1, <1>2, <1>4, <1>5, <1>6

LEMMA TradeNext == TypeOK /\ TradeInv /\ [Next]_vars => TradeInv'
<1> SUFFICES ASSUME TypeOK, TradeInv, [Next]_vars PROVE TradeInv'
  OBVIOUS
<1> USE DEF TradeInv, OneTradePerCoin, EntryInFlight
<1>1. CASE RouterStep
  BY <1>1, TradeRouter
<1>2. CASE PMStep
  BY <1>2, TradePM
<1>3. CASE RecoveryStep
  <2>1. router.pc = "idle" /\ (\A c \in Coins : pending[c] = "none")
    BY <1>3 DEF RecoveryStep, StartRecovery, Loadable, DropSaved, KeepSaved, AdoptOrphan,
                FinishRecovery
  <2>2. UNCHANGED <<router, pending>>
    BY <1>3 DEF RecoveryStep, StartRecovery, Loadable, DropSaved, KeepSaved, AdoptOrphan,
                FinishRecovery, memory
  <2> QED
    BY <2>1, <2>2
<1>4. CASE ExecuteEntry
  BY <1>4 DEF ExecuteEntry, TypeOK, memory
<1>5. CASE UNCHANGED <<phase, router, positions, pending>>
  BY <1>5
<1>6. CASE Stop
  BY <1>6 DEF Stop, IdleRouter
<1>7. \/ RouterStep \/ PMStep \/ RecoveryStep \/ ExecuteEntry \/ Stop
      \/ UNCHANGED <<phase, router, positions, pending>>
  BY DEF Next, ExchangeStep, ExecuteExit, RestingFills, Liquidate, Trip, Unlock,
         CooldownEnds, memory, vars
<1> QED
  BY <1>1, <1>2, <1>3, <1>4, <1>5, <1>6, <1>7

\* Between the checks of route_entry and the answer to its order nobody else
\* takes the coin, and a coin never has both a position and a parked entry.
THEOREM OneTrade == Spec => []OneTradePerCoin
<1>1. TradeInv => OneTradePerCoin
  BY DEF TradeInv
<1> QED
  BY <1>1, TypeCorrect, TradeInit, TradeNext, PTL DEF Spec

-----------------------------------------------------------------------------
(* The re-entry window.  The cooldown is stamped only when the store has removed
   the record, two awaits after the exit was accepted; until then the position
   manager is still at that coin. *)

Stamped == \A c \in recent : c \in cooling \/ (pm.pc = "removing" /\ pm.coin = c)

LEMMA StampedInit == Init => Stamped
  BY DEF Init, Stamped

LEMMA StampedPM == TypeOK /\ Stamped /\ PMStep => Stamped'
<1> SUFFICES ASSUME TypeOK, Stamped, PMStep PROVE Stamped'
  OBVIOUS
<1> USE DEF Stamped
<1>0. pm = [pc |-> pm.pc, coin |-> pm.coin, batch |-> pm.batch]
  BY DEF TypeOK
<1>1. CASE UNCHANGED <<recent, cooling>> /\ pm.pc # "removing"
  BY <1>1
<1>2. ASSUME ExitAccepted(pm.coin), UNCHANGED cooling, pm.pc # "removing" PROVE Stamped'
  <2>1. pm'.pc = "removing" /\ pm'.coin = pm.coin /\ recent' = recent \cup {pm.coin}
    BY <1>0, <1>2 DEF ExitAccepted
  <2> QED
    BY <1>2, <2>1
<1>3. CASE RequestExit
  BY <1>1, <1>2, <1>3 DEF RequestExit
<1>4. CASE ExitAnswered
  BY <1>2, <1>4 DEF ExitAnswered
<1>5. CASE RemoveStored
  BY <1>5 DEF RemoveStored, ghosts
<1>6. \/ UNCHANGED <<recent, cooling>> /\ pm.pc # "removing"
      \/ RequestExit \/ ExitAnswered \/ RemoveStored
  BY DEF PMStep, Mark, PendingMark, Panic, Resume, SaveStored, ExitRejected, ExitAnswerLost,
         memory, ghosts
<1> QED
  BY <1>1, <1>3, <1>4, <1>5, <1>6

LEMMA StampedNext == TypeOK /\ Stamped /\ [Next]_vars => Stamped'
<1> SUFFICES ASSUME TypeOK, Stamped, [Next]_vars PROVE Stamped'
  OBVIOUS
<1> USE DEF Stamped
<1>1. CASE PMStep
  BY <1>1, StampedPM
<1>2. CASE UNCHANGED <<recent, cooling, pm>>
  BY <1>2
<1>3. RouterStep \/ RecoveryStep => UNCHANGED <<recent, cooling, pm>>
  BY DEF RouterStep, Gate, SizeRefused, SendEntry, SimulateEntry, EntryRejected,
         EntryAccepted, EntryAnswerLost, RouterStored, RecoveryStep, StartRecovery, Loadable,
         DropSaved, KeepSaved, AdoptOrphan, FinishRecovery, memory, ghosts
<1>4. CASE ExecuteExit
  BY <1>4 DEF ExecuteExit, memory, ghosts
<1>5. ASSUME NEW c \in Coins, CooldownEnds(c) PROVE Stamped'
  BY <1>5 DEF CooldownEnds
<1>6. CASE Stop
  BY <1>6 DEF Stop
<1>7. \/ PMStep \/ RouterStep \/ RecoveryStep \/ ExecuteExit \/ Stop
      \/ (\E c \in Coins : CooldownEnds(c)) \/ UNCHANGED <<recent, cooling, pm>>
  BY DEF Next, ExchangeStep, ExecuteEntry, RestingFills, Liquidate, Trip, Unlock,
         memory, ghosts, vars
<1> QED
  BY <1>1, <1>2, <1>3, <1>4, <1>5, <1>6, <1>7

\* An entry that starts inside the re-entry window of an exit starts while that
\* exit still waits for the store: the only gap in the cooldown.
THEOREM ReentryGap == Spec => NoEarlyReentry
<1>1. TypeOK /\ Stamped /\ [Next]_vars
      => [\A c \in recent : Gate(c) => pm.pc = "removing" /\ pm.coin = c]_vars
  BY DEF Stamped, Gate, NotInCooldown
<1> QED
  BY <1>1, TypeCorrect, StampedInit, StampedNext, PTL DEF Spec, NoEarlyReentry
-----------------------------------------------------------------------------
(***************************************************************************)
(* No unmanaged exposure: EveryLotManaged.                                 *)
(*                                                                         *)
(* The invariant relates the exchange to PositionManager._positions.  To   *)
(* be inductive it needs what the two tasks know while they are suspended: *)
(* that an exit is always for a coin that is still managed (Working), that *)
(* nothing of the coin is left at the exchange once its exit has executed  *)
(* (Closed), where the recovery stands (Recovered), and that an entry goes *)
(* to a coin that nobody holds (TradeInv).                                 *)
(***************************************************************************)

Quiet ==
    /\ phase # "running" => router.pc = "idle" /\ pm.pc = "idle"
    /\ dryRun => router.pc \notin {"order", "filled"} /\ \A c \in Coins : exch[c] = 0
    /\ ~Rests => resting = {}

Working ==
    /\ pm.pc = "idle" => pm.batch = {}
    /\ pm.pc \notin {"idle", "removing"} => positions[pm.coin] > 0
    /\ \A c \in pm.batch : positions[c] > 0
    /\ pm.coin \notin pm.batch

RestingKnown ==
    /\ phase = "recovering" => resting \subseteq blind
    /\ phase = "running" => \A c \in resting \ blind : positions[c] <= 1

Closed == pm.pc = "exited" /\ pm.coin \notin blind => Exposure(pm.coin) = 0

Recovered ==
    phase = "recovering" =>
        \A c \in Coins \ blind :
            IF c \in rec.todo THEN exch[c] <= rec.live[c] ELSE exch[c] <= positions[c]

ExposureInv == Quiet /\ Working /\ RestingKnown /\ Closed /\ Recovered /\ EveryLotManaged

\* The types of the functions and records a step updates.
Shapes ==
    /\ positions \in [Coins -> 0..MaxLots]
    /\ exch \in [Coins -> 0..MaxLots]
    /\ resting \subseteq Coins
    /\ router = [pc |-> router.pc, coin |-> router.coin]
    /\ router.pc # "idle" => router.coin \in Coins
    /\ pm = [pc |-> pm.pc, coin |-> pm.coin, batch |-> pm.batch]
    /\ pm.batch \subseteq Coins
    /\ pm.coin \in Coins \cup {NoCoin}
    /\ pm.pc # "idle" => pm.coin \in Coins
    /\ MaxLots \in Nat /\ MaxLots >= 1
    /\ NoCoin \notin Coins

LEMMA ShapeOfType == TypeOK => Shapes
<1> SUFFICES ASSUME TypeOK PROVE Shapes
  OBVIOUS
<1>1. /\ router = [pc |-> router.pc, coin |-> router.coin]
      /\ pm = [pc |-> pm.pc, coin |-> pm.coin, batch |-> pm.batch]
  BY DEF TypeOK
<1>2. pm.batch \subseteq Coins /\ pm.coin \in Coins \cup {NoCoin}
  BY DEF TypeOK
<1> QED
  BY <1>1, <1>2, Constants DEF TypeOK, Shapes, Assumptions

Covered(c) == Exposure(c) <= positions[c] + (IF EntryFilled(c) THEN 1 ELSE 0)

LEMMA ExposureInit == Init => ExposureInv
<1> SUFFICES ASSUME Init PROVE ExposureInv
  OBVIOUS
<1>1. exch \in [Coins -> IF dryRun THEN {0} ELSE {0, 1}]
  BY DEF Init
<1>2. Quiet
  BY <1>1 DEF Init, Quiet, IdleRouter, IdlePM
<1>3. Working
  BY DEF Init, Working, IdlePM
<1>4. RestingKnown /\ Closed /\ Recovered /\ EveryLotManaged
  BY DEF Init, RestingKnown, Closed, Recovered, EveryLotManaged, IdlePM
<1> QED
  BY <1>2, <1>3, <1>4 DEF ExposureInv

-----------------------------------------------------------------------------
(* Quiet: the tasks run only after the recovery. *)

\* A task or an order moves only while the process is running, and leaves it so.
LEMMA Running ==
  ASSUME Quiet, RouterStep \/ PMStep \/ ExecuteEntry \/ ExecuteExit
  PROVE  phase = "running" /\ phase' = "running"
<1>1. CASE RouterStep
  BY <1>1 DEF Quiet, RouterStep, Gate, SizeRefused, SendEntry, SimulateEntry,
              EntryRejected, EntryAccepted, EntryAnswerLost, RouterStored, RouterWaits
<1>2. CASE PMStep
  BY <1>2 DEF Quiet, PMStep, Mark, PendingMark, Panic, Resume, SaveStored, RequestExit,
              ExitRejected, ExitAnswered, ExitAnswerLost, RemoveStored
<1>3. CASE ExecuteEntry \/ ExecuteExit
  BY <1>3 DEF Quiet, ExecuteEntry, ExecuteExit
<1> QED
  BY <1>1, <1>2, <1>3

\* Settings do not change while the process lives, nor here across its starts.
LEMMA SettingsFixed == [Next]_vars => dryRun' = dryRun /\ Rests' = Rests
<1> SUFFICES ASSUME [Next]_vars PROVE UNCHANGED <<dryRun, makerEntry>>
  BY DEF Rests
<1> USE DEF modes, memory
<1>1. RouterStep => UNCHANGED <<dryRun, makerEntry>>
  BY DEF RouterStep, Gate, SizeRefused, SendEntry, SimulateEntry, EntryRejected,
         EntryAccepted, EntryAnswerLost, RouterStored
<1>2. PMStep => UNCHANGED <<dryRun, makerEntry>>
  BY DEF PMStep, Mark, PendingMark, Panic, Resume, SaveStored, RequestExit,
         ExitRejected, ExitAnswered, ExitAnswerLost, RemoveStored
<1>3. RecoveryStep => UNCHANGED <<dryRun, makerEntry>>
  BY DEF RecoveryStep, StartRecovery, Loadable, DropSaved, KeepSaved, AdoptOrphan, FinishRecovery
<1>4. ExchangeStep => UNCHANGED <<dryRun, makerEntry>>
  BY DEF ExchangeStep, ExecuteEntry, ExecuteExit, RestingFills, Liquidate
<1> QED
  BY <1>1, <1>2, <1>3, <1>4 DEF Next, Trip, Unlock, Stop, CooldownEnds, vars

LEMMA QuietNext == TypeOK /\ Quiet /\ [Next]_vars => Quiet'
<1> SUFFICES ASSUME Shapes, Quiet, [Next]_vars PROVE Quiet'
  BY ShapeOfType
<1> USE SettingsFixed
<1>1. CASE RouterStep
  <2>1. UNCHANGED <<exch, resting>>
    BY <1>1 DEF RouterStep, Gate, SizeRefused, SendEntry, SimulateEntry, EntryRejected,
                EntryAccepted, EntryAnswerLost, RouterStored, market
  <2>2. dryRun => router'.pc \notin {"order", "filled"}
    <3>1. CASE SendEntry
      BY <3>1 DEF SendEntry
    <3>2. CASE \E c \in Coins : Gate(c)
      BY <3>2 DEF Gate
    <3>3. CASE SizeRefused \/ EntryRejected \/ EntryAnswerLost \/ RouterStored
      BY <3>3 DEF SizeRefused, EntryRejected, EntryAnswerLost, RouterStored, IdleRouter
    <3>4. CASE SimulateEntry \/ EntryAccepted
      <4>1. router' = IdleRouter \/ router' = [router EXCEPT !.pc = "persist"]
        BY <3>4 DEF SimulateEntry, EntryAccepted
      <4> QED
        BY <4>1 DEF IdleRouter, Shapes
    <3> QED
      BY <1>1, <3>1, <3>2, <3>3, <3>4 DEF RouterStep
  <2> QED
    BY <1>1, <2>1, <2>2, Running DEF Quiet
<1>2. CASE PMStep
  <2>1. UNCHANGED <<router, exch, resting>>
    BY <1>2 DEF PMStep, Mark, PendingMark, Panic, Resume, SaveStored, RequestExit,
                ExitRejected, ExitAnswered, ExitAnswerLost, RemoveStored, market
  <2> QED
    BY <1>2, <2>1, Running DEF Quiet
<1>3. CASE RecoveryStep
  BY <1>3 DEF RecoveryStep, StartRecovery, Loadable, DropSaved, KeepSaved, AdoptOrphan,
              FinishRecovery, market, Quiet
<1>4. CASE ExecuteEntry
  BY <1>4, Running DEF ExecuteEntry, Quiet
<1>5. CASE ExecuteExit
  BY <1>5, Running DEF ExecuteExit, Quiet, Shapes
<1>6. ASSUME NEW c \in Coins, RestingFills(c) PROVE Quiet'
  BY <1>6 DEF RestingFills, Quiet, Rests
<1>7. ASSUME NEW c \in Coins, Liquidate(c) PROVE Quiet'
  BY <1>7 DEF Liquidate, Quiet, Shapes
<1>8. CASE Stop
  BY <1>8 DEF Stop, IdleRouter, IdlePM, market, Quiet
<1>9. CASE UNCHANGED <<phase, router, pm, exch, resting>>
  BY <1>9 DEF Quiet
<1>10. (Trip \/ Unlock \/ (\E c \in Coins : CooldownEnds(c)) \/ UNCHANGED vars)
       => UNCHANGED <<phase, router, pm, exch, resting>>
  BY DEF Trip, Unlock, CooldownEnds, market, vars
<1> QED
  BY <1>1, <1>2, <1>3, <1>4, <1>5, <1>6, <1>7, <1>8, <1>9, <1>10 DEF Next, ExchangeStep

-----------------------------------------------------------------------------
(* Working: whatever the position manager is doing, it does to coins that are
   still managed. *)

LEMMA WorkingAfterExit ==
  ASSUME Shapes, Working, AfterExit, UNCHANGED positions
  PROVE  Working'
<1>1. CASE pm' = IdlePM
  BY <1>1 DEF IdlePM, Working, Shapes
<1>2. ASSUME NEW d \in pm.batch,
             pm' = [pc |-> "journal", coin |-> d, batch |-> pm.batch \ {d}]
      PROVE  Working'
  BY <1>2 DEF Working
<1> QED
  BY <1>1, <1>2 DEF AfterExit

LEMMA WorkingDecision ==
  ASSUME Shapes, Working, UNCHANGED positions, NEW c \in Coins,
         positions[c] > 0, c \notin pm.batch,
         SavePeak(c) \/ ArmBreakEven(c) \/ StartExit(c)
  PROVE  Working'
<1>1. /\ pm'.pc # "idle" /\ pm'.coin = c /\ pm'.batch = pm.batch
  BY DEF SavePeak, ArmBreakEven, StartExit, Shapes
<1> QED
  BY <1>1 DEF Working

LEMMA WorkingExitAccepted ==
  ASSUME Shapes, Working, ExitAccepted(pm.coin), pm.coin \in Coins
  PROVE  Working'
<1>1. pm'.pc = "removing" /\ pm'.coin = pm.coin /\ pm'.batch = pm.batch
  BY DEF ExitAccepted, Shapes
<1>2. \A c \in pm.batch : positions'[c] = positions[c]
  BY DEF ExitAccepted, Shapes, Working
<1> QED
  BY <1>1, <1>2 DEF Working

\* A step that only opens positions, or changes none, leaves the work valid.
LEMMA WorkingKept ==
  ASSUME Shapes, Working, UNCHANGED pm,
         \A c \in Coins : positions[c] > 0 => positions'[c] > 0
  PROVE  Working'
  BY DEF Shapes, Working

LEMMA WorkingRouter == Shapes /\ Working /\ RouterStep => Working'
<1> SUFFICES ASSUME Shapes, Working, RouterStep PROVE Working'
  OBVIOUS
<1>1. UNCHANGED pm
  BY DEF RouterStep, Gate, SizeRefused, SendEntry, SimulateEntry, EntryRejected,
         EntryAccepted, EntryAnswerLost, RouterStored
<1>2. UNCHANGED positions \/ Register(router.coin)
  BY DEF RouterStep, Gate, SizeRefused, SendEntry, SimulateEntry, EntryRejected,
         EntryAccepted, EntryAnswerLost, RouterStored, memory
<1>3. \A c \in Coins : positions[c] > 0 => positions'[c] > 0
  BY <1>2 DEF Register, Shapes
<1> QED
  BY <1>1, <1>3, WorkingKept

LEMMA WorkingPM == TypeOK /\ Shapes /\ Working /\ PMStep => Working'
<1> SUFFICES ASSUME TypeOK, Shapes, Working, PMStep PROVE Working'
  OBVIOUS
<1>1. ASSUME NEW c \in Coins, Mark(c) PROVE Working'
  BY <1>1, WorkingDecision DEF Mark, Working, memory
<1>2. ASSUME NEW c \in Coins, PendingMark(c) PROVE Working'
  <2>1. CASE UNCHANGED <<positions, pm>>
    BY <2>1 DEF Working
  <2>2. ASSUME Register(c), pm' = [pm EXCEPT !.pc = "filling", !.coin = c] PROVE Working'
    <3>1. pm'.pc = "filling" /\ pm'.coin = c /\ pm'.batch = {} /\ positions'[c] = 1
      BY <1>2, <2>2 DEF Register, Working, Shapes, PendingMark
    <3> QED
      BY <3>1 DEF Working
  <2> QED
    BY <1>2, <2>1, <2>2 DEF PendingMark
<1>3. ASSUME NEW c \in Coins, Panic(c) PROVE Working'
  <2>1. PICK d \in Held(positions) :
          pm' = [pc |-> "journal", coin |-> d, batch |-> Held(positions) \ {d}]
    BY <1>3 DEF Panic
  <2> QED
    BY <1>3, <2>1 DEF Panic, Held, Working, memory
<1>4. CASE Resume
  <2>1. pm.pc \in {"registered", "saved", "armed"} /\ UNCHANGED positions
    BY <1>4 DEF Resume, memory
  <2>2. /\ pm.coin \in Coins
        /\ \/ SavePeak(pm.coin) \/ ArmBreakEven(pm.coin) \/ StartExit(pm.coin)
           \/ pm' = IdlePM
    BY <1>4, <2>1 DEF Resume, EndMark, Shapes
  <2>3. CASE pm' = IdlePM
    BY <2>3 DEF IdlePM, Working, Shapes
  <2>4. positions[pm.coin] > 0 /\ pm.coin \notin pm.batch
    BY <2>1 DEF Working
  <2> QED
    BY <2>1, <2>2, <2>3, <2>4, WorkingDecision
<1>5. CASE SaveStored
  <2>1. /\ pm'.pc \in {"registered", "saved", "armed"}
        /\ pm'.coin = pm.coin /\ pm'.batch = pm.batch
    BY <1>5 DEF SaveStored, Shapes
  <2> QED
    BY <1>5, <2>1 DEF SaveStored, Working, memory
<1>6. CASE RequestExit
  <2>1. CASE ExitAccepted(pm.coin)
    BY <1>6, <2>1, WorkingExitAccepted DEF RequestExit, Shapes
  <2>2. CASE pm' = [pm EXCEPT !.pc = "exit"] /\ UNCHANGED positions
    BY <1>6, <2>2 DEF RequestExit, Working, Shapes
  <2> QED
    BY <1>6, <2>1, <2>2 DEF RequestExit
<1>7. CASE ExitRejected
  BY <1>7, WorkingAfterExit DEF ExitRejected, memory
<1>8. CASE ExitAnswered
  BY <1>8, WorkingExitAccepted DEF ExitAnswered, Shapes
<1>9. CASE ExitAnswerLost
  BY <1>9, WorkingAfterExit DEF ExitAnswerLost, memory
<1>10. CASE RemoveStored
  BY <1>10, WorkingAfterExit DEF RemoveStored
<1> QED
  BY <1>1, <1>2, <1>3, <1>4, <1>5, <1>6, <1>7, <1>8, <1>9, <1>10 DEF PMStep

LEMMA WorkingNext == TypeOK /\ Quiet /\ Working /\ [Next]_vars => Working'
<1> SUFFICES ASSUME TypeOK, Shapes, Quiet, Working, [Next]_vars PROVE Working'
  BY ShapeOfType
<1>1. CASE RouterStep
  BY <1>1, WorkingRouter
<1>2. CASE PMStep
  BY <1>2, WorkingPM
<1>3. CASE RecoveryStep
  <2>1. pm.pc = "idle" /\ UNCHANGED pm
    BY <1>3 DEF RecoveryStep, StartRecovery, Loadable, DropSaved, KeepSaved, AdoptOrphan,
                FinishRecovery, Quiet
  <2> QED
    BY <2>1 DEF Working
<1>4. CASE ExecuteExit
  <2>1. pm.pc = "exit" /\ pm' = [pm EXCEPT !.pc = "exited"] /\ UNCHANGED positions
    BY <1>4 DEF ExecuteExit, memory
  <2>2. pm'.pc = "exited" /\ pm'.coin = pm.coin /\ pm'.batch = pm.batch
    BY <2>1 DEF Shapes
  <2> QED
    BY <2>1, <2>2 DEF Working
<1>5. CASE Stop
  BY <1>5 DEF Stop, IdlePM, Working
<1>6. CASE UNCHANGED <<pm, positions>>
  BY <1>6 DEF Working
<1>7. \/ RouterStep \/ PMStep \/ RecoveryStep \/ ExecuteExit \/ Stop
      \/ UNCHANGED <<pm, positions>>
  BY DEF Next, ExchangeStep, ExecuteEntry, RestingFills, Liquidate, Trip, Unlock,
         CooldownEnds, memory, vars
<1> QED
  BY <1>1, <1>2, <1>3, <1>4, <1>5, <1>6, <1>7

-----------------------------------------------------------------------------
(* RestingKnown: a post-only order rests for a coin nobody held. *)

LEMMA RestingNext ==
  TypeOK /\ TradeInv /\ Quiet /\ RestingKnown /\ [Next]_vars => RestingKnown'
<1> SUFFICES ASSUME Shapes, TradeInv, Quiet, RestingKnown, [Next]_vars
             PROVE  RestingKnown'
  BY ShapeOfType
<1> USE DEF RestingKnown
<1>1. CASE RouterStep
  <2>1. UNCHANGED resting /\ blind \subseteq blind'
    BY <1>1 DEF RouterStep, Gate, SizeRefused, SendEntry, SimulateEntry, EntryRejected,
                EntryAccepted, EntryAnswerLost, RouterStored, market, ghosts
  <2>2. UNCHANGED positions \/ Register(router.coin)
    BY <1>1 DEF RouterStep, Gate, SizeRefused, SendEntry, SimulateEntry, EntryRejected,
           EntryAccepted, EntryAnswerLost, RouterStored, memory
  <2>3. \A c \in Coins : positions'[c] = positions[c] \/ positions'[c] = 1
    BY <2>2 DEF Register, Shapes
  <2> QED
    BY <1>1, <2>1, <2>3, Running DEF Shapes
<1>2. CASE PMStep
  <2>1. UNCHANGED <<resting, blind>>
    BY <1>2 DEF PMStep, Mark, PendingMark, Panic, Resume, SaveStored, RequestExit,
                ExitRejected, ExitAnswered, ExitAnswerLost, RemoveStored, market, ghosts
  <2>2. UNCHANGED positions \/ (\E c \in Coins : Register(c)) \/ ExitAccepted(pm.coin)
    BY <1>2 DEF PMStep, Mark, PendingMark, Panic, Resume, SaveStored, RequestExit,
                ExitRejected, ExitAnswered, ExitAnswerLost, RemoveStored, memory
  <2>3. \A c \in Coins : positions'[c] = positions[c] \/ positions'[c] \in {0, 1}
    BY <2>2 DEF Register, ExitAccepted, Shapes
  <2> QED
    BY <1>2, <2>1, <2>3, Running DEF Shapes
<1>3. CASE RecoveryStep
  <2>1. resting' \subseteq blind'
    BY <1>3 DEF RecoveryStep, StartRecovery, Loadable, DropSaved, KeepSaved, AdoptOrphan,
                FinishRecovery, market, ghosts
  <2> QED
    BY <2>1
<1>4. CASE ExecuteEntry
  <2>1. positions[router.coin] = 0
    BY <1>4 DEF ExecuteEntry, TradeInv, OneTradePerCoin, EntryInFlight, Shapes
  <2>2. resting' \subseteq resting \cup {router.coin} /\ UNCHANGED <<positions, blind>>
    BY <1>4 DEF ExecuteEntry, memory
  <2> QED
    BY <1>4, <2>1, <2>2, Running
<1>5. CASE Stop
  BY <1>5 DEF Stop
<1>6. CASE UNCHANGED <<phase, positions, blind>> /\ resting' \subseteq resting
  BY <1>6
<1>7. \/ RouterStep \/ PMStep \/ RecoveryStep \/ ExecuteEntry \/ Stop
      \/ UNCHANGED <<phase, positions, blind>> /\ resting' \subseteq resting
  BY DEF Next, ExchangeStep, ExecuteExit, RestingFills, Liquidate, Trip, Unlock,
         CooldownEnds, memory, market, ghosts, vars
<1> QED
  BY <1>1, <1>2, <1>3, <1>4, <1>5, <1>6, <1>7

-----------------------------------------------------------------------------
(* Closed, Recovered and EveryLotManaged, together. *)

Account == EveryLotManaged /\ Closed /\ Recovered

Known == TypeOK /\ Shapes /\ TradeInv /\ Quiet /\ Working /\ RestingKnown

\* While the process runs, the account is in order when every coin is covered and
\* nothing is left of the one whose exit has executed.
LEMMA AccountRuns ==
  ASSUME phase' = "running", \A c \in Coins \ blind' : Covered(c)', Closed'
  PROVE  Account'
  BY DEF Account, EveryLotManaged, Recovered, Covered

LEMMA AccountHolds ==
  ASSUME Account, phase = "running"
  PROVE  /\ \A c \in Coins \ blind : Covered(c)
         /\ Closed
  BY DEF Account, EveryLotManaged, Covered

\* The router: an accepted entry moves from the order to the dictionary.
LEMMA AccountRouter == Known /\ Account /\ RouterStep => Account'
<1> SUFFICES ASSUME Known, Account, RouterStep
             PROVE  /\ \A c \in Coins \ blind' : Covered(c)'
                    /\ Closed'
  BY AccountRuns, Running DEF Known
<1>1. UNCHANGED <<exch, resting, pm>> /\ blind \subseteq blind'
  BY DEF RouterStep, Gate, SizeRefused, SendEntry, SimulateEntry, EntryRejected,
         EntryAccepted, EntryAnswerLost, RouterStored, market, ghosts
<1>2. /\ \A c \in Coins \ blind : Covered(c)
      /\ Closed
  BY AccountHolds, Running DEF Known
<1>3. Closed'
  BY <1>1, <1>2 DEF Exposure, Closed
<1>4. ASSUME NEW c \in Coins \ blind' PROVE Covered(c)'
  <2>1. Covered(c) /\ Exposure(c)' = Exposure(c)
    BY <1>1, <1>2, <1>4 DEF Exposure
  <2>2. Exposure(c) \in Nat /\ positions[c] \in Nat
    BY DEF Exposure, Known, Shapes
  <2>3. CASE router.pc # "filled" /\ UNCHANGED positions
    BY <2>1, <2>2, <2>3 DEF Covered, EntryFilled
  <2>4. CASE SimulateEntry
    <3>1. router.pc = "snapshot" /\ (UNCHANGED positions \/ Register(router.coin))
      BY <2>4 DEF SimulateEntry
    <3>2. positions[router.coin] = 0
      BY <3>1 DEF Known, TradeInv, OneTradePerCoin, EntryInFlight, Shapes
    <3>3. positions'[c] >= positions[c]
      BY <3>1, <3>2, <2>2 DEF Register, Known, Shapes
    <3>4. positions'[c] \in Nat
      BY <3>1, <2>2 DEF Register, Known, Shapes
    <3> QED
      BY <3>1, <3>3, <3>4, <2>1, <2>2 DEF Covered, EntryFilled
  <2>5. CASE EntryAccepted
    <3>1. router.pc = "filled" /\ Register(router.coin)
      BY <2>5 DEF EntryAccepted
    <3>2. positions[router.coin] = 0
      BY <3>1 DEF Known, TradeInv, OneTradePerCoin, EntryInFlight, Shapes
    <3>3. CASE c = router.coin
      <4>1. positions'[c] = 1 /\ Exposure(c) <= 1
        BY <3>1, <3>2, <3>3, <2>1 DEF Register, Covered, EntryFilled, Known, Shapes
      <4> QED
        BY <4>1, <2>1, <2>2 DEF Covered
    <3>4. CASE c # router.coin
      <4>1. positions'[c] = positions[c] /\ ~EntryFilled(c)
        BY <3>1, <3>4 DEF Register, EntryFilled, Known, Shapes
      <4> QED
        BY <4>1, <2>1, <2>2 DEF Covered
    <3> QED
      BY <3>3, <3>4
  <2>6. CASE EntryAnswerLost
    BY <2>1, <2>2, <2>6 DEF EntryAnswerLost, Covered, EntryFilled, memory
  <2>7. (router.pc # "filled" /\ UNCHANGED positions)
        \/ SimulateEntry \/ EntryAccepted \/ EntryAnswerLost
    BY DEF RouterStep, Gate, SizeRefused, SendEntry, EntryRejected, RouterStored,
           RouterWaits, memory
  <2> QED
    BY <2>3, <2>4, <2>5, <2>6, <2>7
<1> QED
  BY <1>3, <1>4

\* The position manager forgets a position only when nothing is left of it.
LEMMA AccountPM == Known /\ Account /\ PMStep => Account'
<1> SUFFICES ASSUME Known, Account, PMStep
             PROVE  /\ \A c \in Coins \ blind' : Covered(c)'
                    /\ Closed'
  BY AccountRuns, Running DEF Known
<1>1. UNCHANGED <<exch, resting, router, blind>>
  BY DEF PMStep, Mark, PendingMark, Panic, Resume, SaveStored, RequestExit,
         ExitRejected, ExitAnswered, ExitAnswerLost, RemoveStored, market, ghosts
<1>2. /\ \A c \in Coins \ blind : Covered(c)
      /\ Closed
  BY AccountHolds, Running DEF Known
<1>3. pm'.pc # "exited"
  <2>1. AfterExit => pm'.pc # "exited"
    BY DEF AfterExit, IdlePM
  <2>2. \A c : (SavePeak(c) \/ ArmBreakEven(c) \/ StartExit(c) \/ EndMark) => pm'.pc # "exited"
    <3>1. \A c : SavePeak(c) => pm'.pc # "exited"
      BY DEF SavePeak, Known, Shapes
    <3>2. \A c : ArmBreakEven(c) => pm'.pc # "exited"
      BY DEF ArmBreakEven, Known, Shapes
    <3>3. \A c : StartExit(c) => pm'.pc # "exited"
      BY DEF StartExit, Known, Shapes
    <3>4. EndMark => pm'.pc # "exited"
      BY DEF EndMark, IdlePM
    <3> QED
      BY <3>1, <3>2, <3>3, <3>4
  <2>3. \A c : ExitAccepted(c) => pm'.pc # "exited"
    BY DEF ExitAccepted, Known, Shapes
  <2>4. SaveStored => pm'.pc # "exited"
    BY DEF SaveStored, Known, Shapes
  <2>5. \A c : PendingMark(c) => pm'.pc # "exited"
    BY DEF PendingMark, Known, Shapes
  <2>6. \A c : Panic(c) => pm'.pc # "exited"
    BY DEF Panic
  <2>7. RequestExit => pm'.pc # "exited"
    BY <2>3 DEF RequestExit, Known, Shapes
  <2> QED
    BY <2>1, <2>2, <2>3, <2>4, <2>5, <2>6, <2>7 DEF PMStep, Mark, Resume, ExitRejected,
       ExitAnswered, ExitAnswerLost, RemoveStored
<1>4. ASSUME NEW c \in Coins \ blind' PROVE Covered(c)'
  <2>1. Covered(c) /\ Exposure(c)' = Exposure(c) /\ (EntryFilled(c)' <=> EntryFilled(c))
    BY <1>1, <1>2, <1>4 DEF Exposure, EntryFilled
  <2>2. Exposure(c) \in Nat /\ positions[c] \in Nat
    BY DEF Exposure, Known, Shapes
  <2>3. CASE UNCHANGED positions
    BY <2>1, <2>2, <2>3 DEF Covered
  <2>4. ASSUME NEW d \in Coins, PendingMark(d) PROVE Covered(c)'
    <3>1. CASE UNCHANGED positions
      BY <3>1, <2>3
    <3>2. CASE pending[d] # "none" /\ Register(d)
      <4>1. positions[d] = 0
        BY <3>2 DEF Known, TradeInv, OneTradePerCoin
      <4>2. positions'[c] \in Nat /\ positions'[c] >= positions[c]
        BY <3>2, <4>1, <2>2 DEF Register, Known, Shapes
      <4> QED
        BY <4>2, <2>1, <2>2 DEF Covered
    <3> QED
      BY <2>4, <3>1, <3>2 DEF PendingMark
  <2>5. CASE ExitAccepted(pm.coin) /\ Exposure(pm.coin) = 0
    <3>1. CASE c = pm.coin
      <4>1. positions'[c] = 0 /\ Exposure(c) = 0
        BY <2>5, <3>1 DEF ExitAccepted, Known, Shapes
      <4> QED
        BY <4>1, <2>1 DEF Covered
    <3>2. CASE c # pm.coin
      <4>1. positions'[c] = positions[c]
        BY <2>5, <3>2 DEF ExitAccepted, Known, Shapes
      <4> QED
        BY <4>1, <2>1, <2>2 DEF Covered
    <3> QED
      BY <3>1, <3>2
  <2>6. CASE RequestExit
    <3>1. CASE dryRun /\ ExitAccepted(pm.coin)
      <4>1. pm.coin \in Coins
        BY <2>6 DEF RequestExit, Known, Shapes
      <4>2. exch[pm.coin] = 0 /\ resting = {}
        BY <3>1, <4>1 DEF Known, Quiet, Rests
      <4> QED
        BY <3>1, <4>1, <4>2, <2>5 DEF Exposure
    <3> QED
      BY <2>6, <3>1, <2>3 DEF RequestExit
  <2>7. CASE ExitAnswered
    <3>1. CASE pm.coin \in blind
      <4>1. positions'[c] = positions[c]
        BY <2>7, <3>1, <1>1, <1>4 DEF ExitAnswered, ExitAccepted, Known, Shapes
      <4> QED
        BY <4>1, <2>1, <2>2 DEF Covered
    <3>2. CASE pm.coin \notin blind
      BY <2>7, <3>2, <1>2, <2>5 DEF ExitAnswered, Closed
    <3> QED
      BY <3>1, <3>2
  <2>8. UNCHANGED positions \/ (\E d \in Coins : PendingMark(d)) \/ RequestExit \/ ExitAnswered
    BY DEF PMStep, Mark, Panic, Resume, SaveStored, ExitRejected, ExitAnswerLost,
           RemoveStored, memory
  <2> QED
    BY <2>3, <2>4, <2>6, <2>7, <2>8
<1>5. Closed'
  BY <1>3 DEF Closed
<1> QED
  BY <1>4, <1>5

\* The recovery: an entry of the union of file and exchange that has been handled
\* is managed with the exchange's size, or the process is known to be blind to it.
LEMMA AccountRecovery == Known /\ Account /\ RecoveryStep => Account'
<1> SUFFICES ASSUME Known, Account, RecoveryStep
             PROVE  EveryLotManaged' /\ Closed' /\ Recovered'
  BY DEF Account
<1> USE DEF Known, Shapes
<1>1. phase # "running" /\ UNCHANGED <<exch, resting, router, pm>>
  BY DEF RecoveryStep, StartRecovery, Loadable, DropSaved, KeepSaved, AdoptOrphan,
         FinishRecovery, market
<1>2. /\ pm.pc = "idle" /\ (dryRun => \A c \in Coins : exch[c] = 0)
      /\ phase = "recovering" => resting \subseteq blind
  BY <1>1 DEF Quiet, RestingKnown
<1>3. Closed'
  BY <1>1, <1>2 DEF Closed
<1>4. phase = "recovering" => \A c \in Coins \ blind :
         IF c \in rec.todo THEN exch[c] <= rec.live[c] ELSE exch[c] <= positions[c]
  BY DEF Account, Recovered
<1>5. CASE FinishRecovery
  <2>1. \A c \in Coins \ blind : exch[c] <= positions[c]
    BY <1>4, <1>5 DEF FinishRecovery
  <2>2. \A c \in Coins \ blind' : Exposure(c)' <= positions'[c] /\ positions'[c] \in Nat
    BY <1>1, <1>2, <1>5, <2>1 DEF FinishRecovery, Exposure, memory, ghosts
  <2>3. \A c \in Coins \ blind' :
           Exposure(c)' <= positions'[c] + (IF EntryFilled(c)' THEN 1 ELSE 0)
    BY <1>1, <2>2 DEF Exposure
  <2> QED
    BY <1>3, <1>5, <2>3 DEF FinishRecovery, EveryLotManaged, Recovered
<1>6. ASSUME phase' = "recovering",
             \A c \in Coins \ blind' :
                IF c \in rec'.todo THEN exch[c] <= rec'.live[c] ELSE exch[c] <= positions'[c]
      PROVE  EveryLotManaged' /\ Closed' /\ Recovered'
  BY <1>1, <1>3, <1>6 DEF EveryLotManaged, Recovered
<1>7. CASE StartRecovery
  <2>1. PICK content : rec' = [live |-> IF dryRun THEN None ELSE exch, saved |-> Held(content),
                     todo |-> Held(content) \cup Held(IF dryRun THEN None ELSE exch)]
    BY <1>7 DEF StartRecovery, Loadable
  <2>2. rec'.live = IF dryRun THEN None ELSE exch
    BY <2>1
  <2>3. \A c \in Coins : rec'.live[c] > 0 => c \in rec'.todo
    BY <2>1, <2>2 DEF Held
  <2>4. \A c \in Coins : exch[c] <= rec'.live[c]
    BY <1>2, <2>2 DEF None
  <2>5. ASSUME NEW c \in Coins, c \notin rec'.todo PROVE exch[c] <= positions'[c]
    <3>1. exch[c] = 0
      BY <2>3, <2>4, <2>5, <2>2 DEF None
    <3>2. positions'[c] \in Nat
      BY <1>7 DEF StartRecovery, Loadable
    <3> QED
      BY <3>1, <3>2
  <2> QED
    BY <1>6, <1>7, <2>4, <2>5 DEF StartRecovery, Loadable
<1>8. rec = [live |-> rec.live, saved |-> rec.saved, todo |-> rec.todo]
      /\ rec.live \in [Coins -> 0..MaxLots]
  BY DEF TypeOK
<1>9. ASSUME NEW c \in Coins, phase = "recovering", UNCHANGED phase,
             blind \subseteq blind', Done(c),
             \A d \in Coins \ {c} : positions'[d] = positions[d],
             c \in blind' \/ exch[c] <= positions'[c]
      PROVE  EveryLotManaged' /\ Closed' /\ Recovered'
  <2>1. rec'.live = rec.live /\ rec'.todo = rec.todo \ {c}
    BY <1>8, <1>9 DEF Done
  <2>2. ASSUME NEW d \in Coins \ blind'
        PROVE  IF d \in rec'.todo THEN exch[d] <= rec'.live[d] ELSE exch[d] <= positions'[d]
    BY <1>4, <1>9, <2>1, <2>2
  <2> QED
    BY <1>6, <1>9, <2>2
<1>10. ASSUME NEW c \in Coins, DropSaved(c) PROVE EveryLotManaged' /\ Closed' /\ Recovered'
  <2>1. c \notin blind' => exch[c] = 0
    BY <1>4, <1>8, <1>10 DEF DropSaved
  <2> QED
    BY <1>9, <1>10, <2>1 DEF DropSaved, memory
<1>11. ASSUME NEW c \in Coins, KeepSaved(c) PROVE EveryLotManaged' /\ Closed' /\ Recovered'
  <2>1. positions'[c] = ReconciledLots(c)
        /\ \A d \in Coins \ {c} : positions'[d] = positions[d]
    BY <1>11 DEF KeepSaved
  <2>2. c \in blind \/ exch[c] <= ReconciledLots(c)
    BY <1>2, <1>4, <1>11 DEF KeepSaved, ReconciledLots, TypeOK
  <2> QED
    BY <1>9, <1>11, <2>1, <2>2 DEF KeepSaved, ghosts
<1>12. ASSUME NEW c \in Coins, AdoptOrphan(c) PROVE EveryLotManaged' /\ Closed' /\ Recovered'
  <2>1. \/ c \in blind' /\ UNCHANGED positions /\ blind \subseteq blind'
        \/ /\ positions'[c] = rec.live[c] /\ UNCHANGED blind
           /\ \A d \in Coins \ {c} : positions'[d] = positions[d]
    BY <1>12 DEF AdoptOrphan
  <2>2. c \in blind \/ exch[c] <= rec.live[c]
    BY <1>4, <1>12 DEF AdoptOrphan
  <2> QED
    BY <1>9, <1>12, <2>1, <2>2 DEF AdoptOrphan
<1> QED
  BY <1>5, <1>7, <1>10, <1>11, <1>12 DEF RecoveryStep

\* The exchange: an entry goes to a coin nobody holds, an exit leaves nothing of
\* the coin behind.
LEMMA AccountExchange == Known /\ Account /\ ExchangeStep => Account'
<1> SUFFICES ASSUME Known, Account, ExchangeStep
             PROVE  EveryLotManaged' /\ Closed' /\ Recovered'
  BY DEF Account
<1> USE DEF Known, Shapes
<1>1. UNCHANGED <<positions, blind, rec, phase>>
  BY DEF ExchangeStep, ExecuteEntry, ExecuteExit, RestingFills, Liquidate, memory, ghosts
<1>2. \A c \in Coins : Exposure(c) \in Nat /\ positions[c] \in Nat
  BY DEF Exposure
<1>3. phase = "running" => (\A c \in Coins \ blind : Covered(c)) /\ Closed
  BY AccountHolds
<1>4. ASSUME phase = "running", \A c \in Coins \ blind : Covered(c)', Closed'
      PROVE  EveryLotManaged' /\ Closed' /\ Recovered'
  BY <1>1, <1>4 DEF EveryLotManaged, Recovered, Covered
<1>5. CASE ExecuteEntry
  <2>1. /\ phase = "running" /\ router.pc = "order" /\ router.coin \in Coins
        /\ positions[router.coin] = 0 /\ UNCHANGED pm
        /\ router'.pc = "filled" /\ router'.coin = router.coin
    BY <1>5, Running DEF ExecuteEntry, TradeInv, OneTradePerCoin, EntryInFlight
  <2>2. \A c \in Coins : c # router.coin => Exposure(c)' = Exposure(c)
    BY <1>5 DEF ExecuteEntry, Exposure
  <2>3. Exposure(router.coin)' <= Exposure(router.coin) + 1
    BY <1>5, <2>1 DEF ExecuteEntry, Exposure
  <2>4. ASSUME NEW c \in Coins \ blind PROVE Covered(c)'
    <3>1. CASE c = router.coin
      <4>1. Exposure(c) <= 0
        BY <1>2, <1>3, <2>1, <3>1 DEF Covered, EntryFilled
      <4>2. Exposure(c)' <= 1 /\ EntryFilled(c)' /\ positions'[c] = 0
        BY <1>1, <1>2, <2>1, <2>3, <3>1, <4>1 DEF EntryFilled
      <4> QED
        BY <4>2 DEF Covered
    <3>2. CASE c # router.coin
      BY <1>1, <1>2, <1>3, <2>1, <2>2, <3>2 DEF Covered, EntryFilled
    <3> QED
      BY <3>1, <3>2
  <2>5. Closed'
    <3>1. pm.pc = "exited" => pm.coin \in Coins /\ pm.coin # router.coin
      BY <2>1 DEF Working
    <3> QED
      BY <1>1, <1>3, <2>1, <2>2, <3>1 DEF Closed
  <2> QED
    BY <1>4, <2>1, <2>4, <2>5
<1>6. CASE ExecuteExit
  <2>1. /\ phase = "running" /\ pm.pc = "exit" /\ pm.coin \in Coins /\ UNCHANGED <<router, resting>>
        /\ pm'.pc = "exited" /\ pm'.coin = pm.coin /\ exch[pm.coin] > 0
    BY <1>6, Running DEF ExecuteExit
  <2>2. \A c \in Coins : c # pm.coin => Exposure(c)' = Exposure(c)
    BY <1>6 DEF ExecuteExit, Exposure
  <2>3. ASSUME pm.coin \notin blind PROVE exch'[pm.coin] = 0 /\ pm.coin \notin resting'
    <3>1. positions[pm.coin] > 0
      BY <2>1 DEF Working
    <3>2. ~EntryFilled(pm.coin)
      BY <2>1, <3>1 DEF EntryFilled, TradeInv, OneTradePerCoin, EntryInFlight
    <3>3. Exposure(pm.coin) <= positions[pm.coin]
      BY <1>2, <1>3, <2>1, <2>3, <3>2 DEF Covered
    <3>4. pm.coin \notin resting
      BY <2>1, <2>3, <3>3 DEF RestingKnown, Exposure
    <3>5. exch[pm.coin] <= positions[pm.coin]
      BY <2>1, <3>3, <3>4 DEF Exposure
    <3>6. exch'[pm.coin] = 0
      BY <1>6, <2>1, <3>5 DEF ExecuteExit
    <3> QED
      BY <2>1, <3>4, <3>6
  <2>4. ASSUME NEW c \in Coins \ blind PROVE Covered(c)'
    <3>1. CASE c = pm.coin
      BY <1>1, <1>2, <2>3, <2>4, <3>1 DEF Covered, Exposure
    <3>2. CASE c # pm.coin
      BY <1>1, <1>2, <1>3, <2>1, <2>2, <3>2 DEF Covered, EntryFilled
    <3> QED
      BY <3>1, <3>2
  <2>5. Closed'
    BY <1>1, <2>1, <2>3 DEF Closed, Exposure
  <2> QED
    BY <1>4, <2>1, <2>4, <2>5
<1>7. ASSUME NEW c \in Coins, RestingFills(c) PROVE EveryLotManaged' /\ Closed' /\ Recovered'
  <2>1. UNCHANGED <<router, pm>> /\ \A d \in Coins \ {c} : exch'[d] = exch[d]
    BY <1>7 DEF RestingFills
  <2>2. \A d \in Coins : Exposure(d)' = Exposure(d)
    BY <1>7 DEF RestingFills, Exposure
  <2>3. CASE phase = "running"
    BY <1>1, <1>2, <1>3, <1>4, <2>1, <2>2, <2>3 DEF Covered, EntryFilled, Closed
  <2>4. CASE phase # "running"
    <3>1. Closed' /\ EveryLotManaged'
      BY <1>1, <2>1, <2>4 DEF Closed, EveryLotManaged, Quiet
    <3>2. phase = "recovering" => c \in blind
      BY <1>7 DEF RestingFills, RestingKnown
    <3>3. Recovered'
      BY <1>1, <2>1, <3>2 DEF Account, Recovered
    <3> QED
      BY <3>1, <3>3
  <2> QED
    BY <2>3, <2>4
<1>8. ASSUME NEW c \in Coins, Liquidate(c) PROVE EveryLotManaged' /\ Closed' /\ Recovered'
  <2>1. UNCHANGED <<router, pm>>
    BY <1>8 DEF Liquidate
  <2>2. \A d \in Coins : exch'[d] \in Nat /\ exch'[d] <= exch[d]
    BY <1>8 DEF Liquidate
  <2>3. \A d \in Coins : Exposure(d)' \in Nat /\ Exposure(d)' <= Exposure(d)
    BY <1>8, <2>2 DEF Liquidate, Exposure
  <2>4. CASE phase = "running"
    <3>1. \A d \in Coins \ blind : Covered(d)'
      BY <1>1, <1>2, <1>3, <2>1, <2>3, <2>4 DEF Covered, EntryFilled
    <3>2. Closed'
      BY <1>1, <1>2, <1>3, <2>1, <2>3, <2>4 DEF Closed
    <3> QED
      BY <1>4, <2>4, <3>1, <3>2
  <2>5. CASE phase # "running"
    <3>1. Closed' /\ EveryLotManaged'
      BY <1>1, <2>1, <2>5 DEF Closed, EveryLotManaged, Quiet
    <3>2. phase = "recovering" => \A d \in Coins \ blind :
             IF d \in rec.todo THEN exch[d] <= rec.live[d] ELSE exch[d] <= positions[d]
      BY DEF Account, Recovered
    <3>3. rec.live \in [Coins -> 0..MaxLots]
      BY DEF TypeOK
    <3>4. Recovered'
      BY <1>1, <2>2, <3>2, <3>3 DEF Recovered
    <3> QED
      BY <3>1, <3>4
  <2> QED
    BY <2>4, <2>5
<1> QED
  BY <1>5, <1>6, <1>7, <1>8 DEF ExchangeStep

LEMMA AccountNext == Known /\ Account /\ [Next]_vars => Account'
<1> SUFFICES ASSUME Known, Account, [Next]_vars PROVE Account'
  OBVIOUS
<1>1. CASE UNCHANGED <<phase, positions, exch, resting, router, pm, blind, rec>>
  BY <1>1 DEF Account, EveryLotManaged, Closed, Recovered, Exposure, EntryFilled
<1>2. CASE Stop
  BY <1>2 DEF Stop, IdlePM, Account, EveryLotManaged, Closed, Recovered
<1>3. Trip \/ Unlock \/ (\E c \in Coins : CooldownEnds(c)) \/ UNCHANGED vars
      => UNCHANGED <<phase, positions, exch, resting, router, pm, blind, rec>>
  BY DEF Trip, Unlock, CooldownEnds, memory, market, ghosts, vars
<1> QED
  BY <1>1, <1>2, <1>3, AccountRouter, AccountPM, AccountRecovery, AccountExchange DEF Next

\* Where the two tasks stand, for every run of the program.
LEMMA TasksHold == Spec => []Known
<1>1. Init => Quiet /\ Working /\ RestingKnown
  BY ExposureInit DEF ExposureInv
<1>2. TypeOK => Shapes
  BY ShapeOfType
<1> QED
  BY <1>1, <1>2, TypeCorrect, TradeInit, TradeNext, QuietNext, WorkingNext, RestingNext, PTL
     DEF Spec, Known

\* Outside the coins an injected fault hides from the process, the exchange never
\* holds more of a coin than the position manager manages and the router is about
\* to hand over: through every interleaving, refusal, restart and liquidation.
THEOREM NoUnmanagedExposure == Spec => []EveryLotManaged
<1>1. Init => Account
  BY ExposureInit DEF ExposureInv, Account
<1>2. Account => EveryLotManaged
  BY DEF Account
<1> QED
  BY <1>1, <1>2, TasksHold, AccountNext, PTL DEF Spec

-----------------------------------------------------------------------------
(* Journal lines.  record_closed_trade comes before the exit's order, and no
   entry may reset the coin's line meanwhile: it goes to a coin nobody holds. *)

Booked == "disk" \notin Faults /\ pm.pc \in {"exit", "exited"} => booked[pm.coin] > 0

\* What may change a line: a registration starts a new trade, an exit writes it.
LEMMA BookedSteps ==
  ASSUME Shapes, TradeInv, Working, RouterStep, pm.pc \in {"exit", "exited"},
         booked \in [Coins -> Nat]
  PROVE  booked'[pm.coin] = booked[pm.coin]
<1>1. UNCHANGED booked \/ (Register(router.coin) /\ router.pc \in {"snapshot", "filled"})
  BY DEF RouterStep, Gate, SizeRefused, SendEntry, SimulateEntry, EntryRejected,
         EntryAccepted, EntryAnswerLost, RouterStored, ghosts
<1>2. pm.coin \in Coins /\ positions[pm.coin] > 0
  BY DEF Working, Shapes
<1>3. router.pc \in {"snapshot", "filled"} => router.coin # pm.coin
  BY <1>2 DEF TradeInv, OneTradePerCoin, EntryInFlight, Shapes
<1> QED
  BY <1>1, <1>2, <1>3 DEF Register

LEMMA BookedNext ==
  TypeOK /\ TradeInv /\ Quiet /\ Working /\ Booked /\ [Next]_vars => Booked'
<1> SUFFICES ASSUME Shapes, booked \in [Coins -> Nat], TradeInv, Quiet, Working, Booked,
                    [Next]_vars
             PROVE  Booked'
  BY ShapeOfType DEF TypeOK
<1> USE DEF Booked, Shapes
<1>1. CASE RouterStep
  <2>1. UNCHANGED pm
    BY <1>1 DEF RouterStep, Gate, SizeRefused, SendEntry, SimulateEntry, EntryRejected,
                EntryAccepted, EntryAnswerLost, RouterStored
  <2> QED
    BY <1>1, <2>1, BookedSteps
<1>2. CASE RequestExit
  <2>1. "disk" \notin Faults => booked'[pm.coin] > 0
    BY <1>2 DEF RequestExit, RecordClosedTrade, UpTo2
  <2>2. pm'.coin = pm.coin
    BY <1>2 DEF RequestExit, ExitAccepted
  <2> QED
    BY <2>1, <2>2
<1>3. CASE ExecuteExit
  BY <1>3 DEF ExecuteExit, ghosts
<1>4. ASSUME PMStep, ~RequestExit PROVE pm'.pc \notin {"exit", "exited"}
  <2>1. ASSUME NEW c \in Coins, SavePeak(c) \/ ArmBreakEven(c) \/ StartExit(c) \/ EndMark
        PROVE  pm'.pc \notin {"exit", "exited"}
    <3>1. CASE SavePeak(c)
      BY <3>1 DEF SavePeak
    <3>2. CASE ArmBreakEven(c)
      BY <3>2 DEF ArmBreakEven
    <3>3. CASE StartExit(c)
      BY <3>3 DEF StartExit
    <3>4. CASE EndMark
      BY <3>4 DEF EndMark, IdlePM
    <3> QED
      BY <2>1, <3>1, <3>2, <3>3, <3>4
  <2>2. CASE AfterExit
    BY <2>2 DEF AfterExit, IdlePM
  <2>3. ASSUME NEW c \in Coins, PendingMark(c) PROVE pm'.pc \notin {"exit", "exited"}
    BY <2>3 DEF PendingMark
  <2>4. CASE SaveStored
    BY <2>4 DEF SaveStored
  <2>5. CASE ExitAnswered
    BY <2>5 DEF ExitAnswered, ExitAccepted
  <2>6. CASE Resume
    BY <2>1, <2>6 DEF Resume
  <2>7. ASSUME NEW c \in Coins, Mark(c) \/ Panic(c) PROVE pm'.pc \notin {"exit", "exited"}
    BY <2>1, <2>7 DEF Mark, Panic
  <2> QED
    BY <1>4, <2>2, <2>3, <2>4, <2>5, <2>6, <2>7 DEF PMStep, ExitRejected, ExitAnswerLost,
                                                    RemoveStored
<1>5. CASE RecoveryStep
  <2>1. pm.pc = "idle" /\ UNCHANGED pm
    BY <1>5 DEF RecoveryStep, StartRecovery, Loadable, DropSaved, KeepSaved, AdoptOrphan,
                FinishRecovery, Quiet
  <2> QED
    BY <2>1
<1>6. CASE Stop
  BY <1>6 DEF Stop, IdlePM
<1>7. CASE UNCHANGED <<pm, booked>>
  BY <1>7
<1>8. \/ RouterStep \/ PMStep \/ RecoveryStep \/ ExecuteExit \/ Stop \/ UNCHANGED <<pm, booked>>
  BY DEF Next, ExchangeStep, ExecuteEntry, RestingFills, Liquidate, Trip, Unlock,
         CooldownEnds, ghosts, vars
<1> QED
  BY <1>1, <1>2, <1>3, <1>4, <1>5, <1>6, <1>7, <1>8

\* A position leaves the dictionary, or its exit executes, only with its line
\* written: the steps that may do so are the answer and the execution of an exit
\* whose line came first, and the dry-run exit that writes it in the same step.
LEMMA ExitSteps ==
  ASSUME TypeOK, Shapes, Quiet, Working, Booked, [Next]_vars, "disk" \notin Faults,
         NEW c \in Coins, phase' = "running", positions[c] > 0,
         positions'[c] = 0 \/ (pm.pc = "exit" /\ pm.coin = c /\ exch'[c] < exch[c])
  PROVE  booked'[c] > 0
<1> USE DEF Shapes
<1>0. booked \in [Coins -> Nat] /\ rec.live \in [Coins -> 0..MaxLots]
  BY DEF TypeOK
<1>1. CASE pm.pc = "exit" /\ pm.coin = c /\ exch'[c] < exch[c]
  <2>1. UNCHANGED booked
    <3>1. RouterStep \/ PMStep \/ RecoveryStep => UNCHANGED exch
      BY DEF RouterStep, Gate, SizeRefused, SendEntry, SimulateEntry, EntryRejected,
             EntryAccepted, EntryAnswerLost, RouterStored, PMStep, Mark, PendingMark, Panic,
             Resume, SaveStored, RequestExit, ExitRejected, ExitAnswered, ExitAnswerLost,
             RemoveStored, RecoveryStep, StartRecovery, Loadable, DropSaved, KeepSaved,
             AdoptOrphan, FinishRecovery, market
    <3>2. ~(RouterStep \/ PMStep \/ RecoveryStep)
      BY <1>1, <3>1
    <3> QED
      BY <3>2 DEF Next, ExchangeStep, ExecuteEntry, ExecuteExit, RestingFills, Liquidate,
                  Trip, Unlock, Stop, CooldownEnds, ghosts, vars
  <2> QED
    BY <1>1, <2>1 DEF Booked
<1>2. CASE positions'[c] = 0
  <2>1. CASE ExitAnswered
    <3>1. pm.pc = "exited" /\ c = pm.coin /\ UNCHANGED booked
      BY <1>2, <2>1 DEF ExitAnswered, ExitAccepted
    <3> QED
      BY <3>1 DEF Booked
  <2>2. CASE RequestExit
    <3>1. c = pm.coin
      BY <1>2, <2>2 DEF RequestExit, ExitAccepted
    <3> QED
      BY <1>0, <2>2, <3>1 DEF RequestExit, RecordClosedTrade, UpTo2
  <2>3. \A d \in Coins : Register(d) => positions'[c] = positions[c] \/ positions'[c] = 1
    BY DEF Register
  <2>4. ~RouterStep
    BY <1>2, <2>3 DEF RouterStep, Gate, SizeRefused, SendEntry, SimulateEntry, EntryRejected,
                      EntryAccepted, EntryAnswerLost, RouterStored, memory
  <2>5. PMStep => RequestExit \/ ExitAnswered
    <3>1. \A d \in Coins : PendingMark(d) => UNCHANGED positions \/ Register(d)
      BY DEF PendingMark
    <3>2. Mark(c) \/ Resume \/ SaveStored \/ ExitRejected \/ ExitAnswerLost \/ RemoveStored
          => UNCHANGED positions
      BY DEF Mark, Resume, SaveStored, ExitRejected, ExitAnswerLost, RemoveStored, memory
    <3>3. \A d \in Coins : Mark(d) \/ Panic(d) => UNCHANGED positions
      BY DEF Mark, Panic, memory
    <3> QED
      BY <1>2, <2>3, <3>1, <3>2, <3>3 DEF PMStep
  <2>6. ~RecoveryStep /\ ~Stop
    BY <1>2 DEF RecoveryStep, StartRecovery, Loadable, DropSaved, KeepSaved, AdoptOrphan,
                FinishRecovery, Stop, memory
  <2> QED
    BY <1>2, <2>1, <2>2, <2>4, <2>5, <2>6 DEF Next, ExchangeStep, ExecuteEntry, ExecuteExit,
       RestingFills, Liquidate, Trip, Unlock, CooldownEnds, memory, vars
<1> QED
  BY <1>1, <1>2

\* With a journal that can be written, no exit executes and no position leaves the
\* dictionary before the trade has its line: a crash in between loses no evidence.
THEOREM ExitsHaveTheirLine == Spec => ExitsAreJournaled
<1>1. Init => Booked
  BY DEF Init, Booked, IdlePM
<1>2. Known /\ Booked /\ [Next]_vars
      => [\A c \in Coins :
            "disk" \notin Faults /\ phase' = "running" /\ positions[c] > 0
            /\ (positions'[c] = 0 \/ (pm.pc = "exit" /\ pm.coin = c /\ exch'[c] < exch[c]))
            => booked'[c] > 0]_vars
  BY ExitSteps DEF Known
<1>3. Known /\ Booked /\ [Next]_vars => Booked'
  BY BookedNext DEF Known
<1> QED
  BY <1>1, <1>2, <1>3, TasksHold, PTL DEF Spec, ExitsAreJournaled

-----------------------------------------------------------------------------
(* No phantom.  The dual of the exposure: while no answer is lost and nobody
   liquidates, a managed position is at the exchange.  The recovery takes only
   what it has read there, a registration follows an executed entry, and only
   the position manager's own exit takes the lots away again. *)

NoSurprise == Faults \cap {"lost", "liquidation"} = {}

\* A parked entry exists in dry run only.
Parked == ~dryRun => \A c \in Coins : pending[c] = "none"

Backed ==
    NoSurprise /\ ~dryRun /\ ~Rests =>
        /\ router.pc = "filled" => exch[router.coin] > 0
        /\ phase = "recovering" => \A c \in Coins : rec.live[c] <= exch[c]
        /\ \A c \in Held(positions) : exch[c] > 0 \/ (pm.pc = "exited" /\ pm.coin = c)

LEMMA ParkedNext == TypeOK /\ Parked /\ [Next]_vars => Parked'
<1> SUFFICES ASSUME TypeOK, Parked, [Next]_vars PROVE Parked'
  OBVIOUS
<1>1. dryRun' = dryRun
  BY SettingsFixed
<1>2. RouterStep => UNCHANGED pending \/ dryRun
  BY DEF RouterStep, Gate, SizeRefused, SendEntry, SimulateEntry, EntryRejected,
         EntryAccepted, EntryAnswerLost, RouterStored, memory
<1>3. PMStep => UNCHANGED pending \/ \E c \in Coins : pending[c] # "none"
  BY DEF PMStep, Mark, PendingMark, Panic, Resume, SaveStored, RequestExit, ExitRejected,
         ExitAnswered, ExitAnswerLost, RemoveStored, memory
<1>4. RecoveryStep => UNCHANGED pending
  BY DEF RecoveryStep, StartRecovery, Loadable, DropSaved, KeepSaved, AdoptOrphan,
         FinishRecovery, memory
<1>5. Stop => \A c \in Coins : pending'[c] = "none"
  BY DEF Stop
<1>6. ExchangeStep \/ Trip \/ Unlock \/ (\E c \in Coins : CooldownEnds(c)) \/ UNCHANGED vars
      => UNCHANGED pending
  BY DEF ExchangeStep, ExecuteEntry, ExecuteExit, RestingFills, Liquidate, Trip, Unlock,
         CooldownEnds, memory, vars
<1> QED
  BY <1>1, <1>2, <1>3, <1>4, <1>5, <1>6 DEF Next, Parked

LEMMA BackedRouter == Known /\ Parked /\ Backed /\ RouterStep => Backed'
<1> SUFFICES ASSUME Known, Backed, RouterStep, NoSurprise, ~dryRun, ~Rests
             PROVE  Backed'
  BY SettingsFixed DEF Backed, NoSurprise, Next
<1> USE DEF Known, Shapes
<1>0. /\ router.pc = "filled" => exch[router.coin] > 0
      /\ \A c \in Coins : positions[c] > 0 => exch[c] > 0 \/ (pm.pc = "exited" /\ pm.coin = c)
  BY DEF Backed, Held
<1>1. phase' = "running" /\ UNCHANGED <<exch, pm>>
  BY Running DEF RouterStep, Gate, SizeRefused, SendEntry, SimulateEntry, EntryRejected,
         EntryAccepted, EntryAnswerLost, RouterStored, market
<1>2. router'.pc # "filled"
  BY DEF RouterStep, Gate, SizeRefused, SendEntry, SimulateEntry, EntryRejected,
         EntryAccepted, EntryAnswerLost, RouterStored, IdleRouter, NoSurprise
<1>3. UNCHANGED positions \/ (Register(router.coin) /\ router.pc = "filled")
  BY DEF RouterStep, Gate, SizeRefused, SendEntry, SimulateEntry, EntryRejected,
         EntryAccepted, EntryAnswerLost, RouterStored, memory
<1>4. ASSUME NEW c \in Coins, positions'[c] > 0
      PROVE  exch'[c] > 0 \/ (pm'.pc = "exited" /\ pm'.coin = c)
  BY <1>0, <1>1, <1>3, <1>4 DEF Register
<1> QED
  BY <1>1, <1>2, <1>4 DEF Backed, Held

LEMMA BackedPM == Known /\ Parked /\ Backed /\ PMStep => Backed'
<1> SUFFICES ASSUME Known, Parked, Backed, PMStep, NoSurprise, ~dryRun, ~Rests
             PROVE  Backed'
  BY SettingsFixed DEF Backed, NoSurprise, Next
<1> USE DEF Known, Shapes
<1>0. /\ router.pc = "filled" => exch[router.coin] > 0
      /\ \A c \in Coins : positions[c] > 0 => exch[c] > 0 \/ (pm.pc = "exited" /\ pm.coin = c)
  BY DEF Backed, Held
<1>1. phase' = "running" /\ UNCHANGED <<exch, router>>
  BY Running DEF PMStep, Mark, PendingMark, Panic, Resume, SaveStored, RequestExit,
         ExitRejected, ExitAnswered, ExitAnswerLost, RemoveStored, market
<1>2. ASSUME \A c \in Coins : positions'[c] > 0 =>
                exch[c] > 0 \/ (pm'.pc = "exited" /\ pm'.coin = c)
      PROVE  Backed'
  BY <1>0, <1>1, <1>2 DEF Backed, Held
<1>3. CASE UNCHANGED positions /\ pm.pc # "exited"
  BY <1>0, <1>2, <1>3
<1>4. ASSUME ExitAccepted(pm.coin), pm.coin \in Coins PROVE Backed'
  <2>1. \A c \in Coins : positions'[c] > 0 => c # pm.coin /\ positions[c] > 0
    BY <1>4 DEF ExitAccepted
  <2> QED
    BY <1>0, <1>2, <2>1
<1>5. CASE RequestExit
  BY <1>3, <1>4, <1>5 DEF RequestExit
<1>6. CASE ExitAnswered
  BY <1>4, <1>6 DEF ExitAnswered
<1>7. ASSUME NEW c \in Coins, PendingMark(c) PROVE Backed'
  BY <1>3, <1>7 DEF PendingMark, Parked
<1>8. CASE RemoveStored
  BY <1>3, <1>8 DEF RemoveStored
<1>9. ~ExitAnswerLost
  BY DEF ExitAnswerLost, NoSurprise
<1>10. ASSUME NEW c \in Coins, Mark(c) \/ Panic(c) PROVE Backed'
  BY <1>3, <1>10 DEF Mark, Panic, memory
<1>11. CASE Resume \/ SaveStored \/ ExitRejected
  BY <1>3, <1>11 DEF Resume, SaveStored, ExitRejected, memory
<1> QED
  BY <1>5, <1>6, <1>7, <1>8, <1>9, <1>10, <1>11 DEF PMStep

\* What the recovery manages it has read at the exchange, which since then has
\* only been left alone.
LEMMA BackedRecovery == Known /\ Backed /\ RecoveryStep => Backed'
<1> SUFFICES ASSUME Known, Backed, RecoveryStep, NoSurprise, ~dryRun, ~Rests
             PROVE  Backed'
  BY SettingsFixed DEF Backed, NoSurprise, Next
<1> USE DEF Known, Shapes
<1>0. /\ phase = "recovering" => \A c \in Coins : rec.live[c] <= exch[c]
      /\ \A c \in Coins : positions[c] > 0 => exch[c] > 0 \/ (pm.pc = "exited" /\ pm.coin = c)
      /\ rec = [live |-> rec.live, saved |-> rec.saved, todo |-> rec.todo]
      /\ rec.live \in [Coins -> 0..MaxLots]
  BY DEF Backed, Held, TypeOK
<1>1. phase # "running" /\ UNCHANGED <<exch, router, pm>> /\ router.pc = "idle" /\ pm.pc = "idle"
  BY DEF RecoveryStep, StartRecovery, Loadable, DropSaved, KeepSaved, AdoptOrphan,
         FinishRecovery, market, Quiet
<1>2. ASSUME phase' = "recovering" => \A c \in Coins : rec'.live[c] <= exch[c],
             \A c \in Coins : positions'[c] > 0 => exch[c] > 0
      PROVE  Backed'
  BY <1>1, <1>2 DEF Backed, Held
<1>3. CASE StartRecovery
  <2>1. rec'.live = exch /\ UNCHANGED positions
    BY <1>3 DEF StartRecovery, Loadable
  <2> QED
    BY <1>0, <1>1, <1>2, <2>1
<1>4. ASSUME NEW c \in Coins, DropSaved(c) PROVE Backed'
  BY <1>0, <1>1, <1>2, <1>4 DEF DropSaved, Done, memory
<1>5. ASSUME NEW c \in Coins, KeepSaved(c) PROVE Backed'
  <2>1. positions' = [positions EXCEPT ![c] = rec.live[c]] /\ rec.live[c] > 0
    BY <1>5 DEF KeepSaved, ReconciledLots
  <2>2. rec'.live = rec.live /\ phase = "recovering"
    BY <1>0, <1>5 DEF KeepSaved, Done
  <2>3. \A d \in Coins : positions'[d] > 0 => exch[d] > 0
    BY <1>0, <1>1, <2>1, <2>2
  <2> QED
    BY <1>0, <1>2, <2>2, <2>3
<1>6. ASSUME NEW c \in Coins, AdoptOrphan(c) PROVE Backed'
  <2>1. UNCHANGED positions \/ positions' = [positions EXCEPT ![c] = rec.live[c]]
    BY <1>6 DEF AdoptOrphan
  <2>2. rec'.live = rec.live /\ phase = "recovering"
    BY <1>0, <1>6 DEF AdoptOrphan, Done
  <2>3. \A d \in Coins : positions'[d] > 0 => exch[d] > 0
    BY <1>0, <1>1, <2>1, <2>2
  <2> QED
    BY <1>0, <1>2, <2>2, <2>3
<1>7. CASE FinishRecovery
  BY <1>0, <1>1, <1>2, <1>7 DEF FinishRecovery, memory
<1> QED
  BY <1>3, <1>4, <1>5, <1>6, <1>7 DEF RecoveryStep

LEMMA BackedNext == Known /\ Parked /\ Backed /\ [Next]_vars => Backed'
<1> SUFFICES ASSUME Known, Parked, Backed, [Next]_vars, NoSurprise, ~dryRun, ~Rests
             PROVE  Backed'
  BY SettingsFixed DEF Backed, NoSurprise
<1> USE DEF Known, Shapes
<1>0. /\ router.pc = "filled" => exch[router.coin] > 0
      /\ phase = "recovering" => \A c \in Coins : rec.live[c] <= exch[c]
      /\ \A c \in Coins : positions[c] > 0 => exch[c] > 0 \/ (pm.pc = "exited" /\ pm.coin = c)
  BY DEF Backed, Held
<1>1. CASE ExecuteEntry
  <2>1. /\ router'.pc = "filled" /\ router'.coin = router.coin /\ router.coin \in Coins
        /\ exch' = [exch EXCEPT ![router.coin] = @ + 1]
        /\ UNCHANGED <<positions, pm>> /\ phase' = "running"
    BY <1>1, Running DEF ExecuteEntry, memory
  <2>2. exch'[router.coin] > 0 /\ \A c \in Coins : exch[c] > 0 => exch'[c] > 0
    BY <2>1
  <2>3. \A c \in Coins : positions'[c] > 0 =>
           exch'[c] > 0 \/ (pm'.pc = "exited" /\ pm'.coin = c)
    BY <1>0, <2>1, <2>2
  <2> QED
    BY <2>1, <2>2, <2>3 DEF Backed, Held
<1>2. CASE ExecuteExit
  <2>1. /\ pm.pc = "exit" /\ pm.coin \in Coins /\ UNCHANGED <<positions, router>>
        /\ pm'.pc = "exited" /\ pm'.coin = pm.coin /\ phase' = "running"
        /\ \A c \in Coins \ {pm.coin} : exch'[c] = exch[c]
    BY <1>2, Running DEF ExecuteExit, memory
  <2>2. router.pc = "filled" => router.coin \in Coins \ {pm.coin}
    BY <2>1 DEF Working, TradeInv, OneTradePerCoin, EntryInFlight
  <2>3. \A c \in Coins : positions'[c] > 0 =>
           exch'[c] > 0 \/ (pm'.pc = "exited" /\ pm'.coin = c)
    BY <1>0, <2>1
  <2> QED
    BY <1>0, <2>1, <2>2, <2>3 DEF Backed, Held
<1>3. CASE UNCHANGED <<phase, positions, router, pm, exch, rec>>
  BY <1>3 DEF Backed, Held
<1>4. \A c \in Coins : ~RestingFills(c) /\ ~Liquidate(c)
  BY DEF RestingFills, Liquidate, NoSurprise, Quiet
<1>5. CASE Stop
  BY <1>5 DEF Stop, IdleRouter, None, Backed, Held
<1>6. Trip \/ Unlock \/ (\E c \in Coins : CooldownEnds(c)) \/ UNCHANGED vars
      => UNCHANGED <<phase, positions, router, pm, exch, rec>>
  BY DEF Trip, Unlock, CooldownEnds, memory, market, vars
<1> QED
  BY <1>1, <1>2, <1>3, <1>4, <1>5, <1>6, BackedRouter, BackedPM, BackedRecovery
     DEF Next, ExchangeStep

\* While no answer of an order is lost and nothing is liquidated, every position
\* the process manages exists at the exchange until its exit has executed.
THEOREM NoPhantom ==
  ASSUME NoSurprise
  PROVE  Spec => []PositionsAreReal
<1>1. Init => Parked /\ Backed
  BY DEF Init, Parked, Backed, Held, None, IdleRouter
<1>2. Known /\ Parked /\ [Next]_vars => Parked'
  BY ParkedNext DEF Known
<1>3. Backed => PositionsAreReal
  BY DEF Backed, PositionsAreReal
<1> QED
  BY <1>1, <1>2, <1>3, TasksHold, BackedNext, PTL DEF Spec
-----------------------------------------------------------------------------
(***************************************************************************)
(* The open-positions file and PositionManager._positions.                 *)
(*                                                                         *)
(* The dictionary changes first and the file follows one or two awaits     *)
(* later, when the lock of OpenPositionStore comes round to the task, so   *)
(* the two differ most of the time.  What never fails is that the write    *)
(* which comes last for a coin brings them together again (Settled); which *)
(* one is last is what the queue of the lock says (Queue).                 *)
(***************************************************************************)

\* The holder is a waiting task, and a free lock has none.
Queue ==
    /\ lock = "free"   => ~RouterWaits /\ ~PMWaits
    /\ lock = "router" => RouterWaits
    /\ lock = "pm"     => PMWaits

RouterWrites(c) == RouterWaits /\ router.coin = c
PMWrites(c)     == PMWaits /\ pm.coin = c

\* Of two outstanding writes of a coin the holder's comes first.
PMLast(c) == PMWrites(c) /\ ~(RouterWrites(c) /\ lock = "pm")

\* The last write of the coin that is outstanding, or the file when there is
\* none, agrees with the dictionary.
Settled(c) ==
    positions[c] > 0 <=>
        IF PMLast(c) THEN pm.pc # "removing" ELSE RouterWrites(c) \/ disk[c] > 0

\* The store's dictionary names the coins of the file: _reconcile changes a
\* size in memory only, never whether there is one.
Mirrored == phase # "down" => \A c \in Coins : storeMem[c] > 0 <=> disk[c] > 0

\* How far the recovery has brought the file and the dictionary together.
Restored ==
    /\ phase = "down" => \A c \in Coins : positions[c] = 0
    /\ phase = "recovering" =>
          \A c \in Coins :
              IF c \in rec.todo
              THEN positions[c] = 0 /\ (c \in rec.saved <=> disk[c] > 0)
              ELSE positions[c] > 0 <=> disk[c] > 0

AllSettled == phase = "running" => \A c \in Coins : Settled(c)

StoreInv == "disk" \notin Faults => Mirrored /\ Restored /\ AllSettled

\* The types the store's steps rely on.
StoreShapes ==
    /\ Shapes
    /\ lock \in {"free", "router", "pm"}
    /\ storeMem \in [Coins -> Nat] /\ disk \in [Coins -> Nat]
    /\ rec = [live |-> rec.live, saved |-> rec.saved, todo |-> rec.todo]
    /\ rec.live \in [Coins -> Nat]

LEMMA StoreShapeOfType == TypeOK => StoreShapes
<1> SUFFICES ASSUME TypeOK PROVE StoreShapes
  OBVIOUS
<1>1. Shapes
  BY ShapeOfType
<1>2. storeMem \in [Coins -> 0..MaxLots] /\ disk \in [Coins -> 0..MaxLots]
  BY DEF TypeOK
<1>3. rec \in [live : [Coins -> 0..MaxLots], saved : SUBSET Coins, todo : SUBSET Coins]
  BY DEF TypeOK
<1>4. 0..MaxLots \subseteq Nat
  BY <1>1 DEF Shapes
<1>5. lock \in {"free", "router", "pm"}
  BY DEF TypeOK
<1> QED
  BY <1>1, <1>2, <1>3, <1>4, <1>5 DEF StoreShapes

LEMMA StoreInit == Init => Queue /\ StoreInv
  BY DEF Init, Queue, StoreInv, Mirrored, Restored, AllSettled, RouterWaits, PMWaits,
         IdleRouter, IdlePM, None

-----------------------------------------------------------------------------
(* What the store's operations do to the names in the file. *)

LEMMA UpsertNames ==
  ASSUME StoreShapes, "disk" \notin Faults, phase # "down", Mirrored,
         NEW c \in Coins, NEW lots \in Nat, Upsert(c, lots)
  PROVE  \A d \in Coins :
            /\ disk'[d] > 0 <=> IF d = c THEN lots > 0 ELSE disk[d] > 0
            /\ storeMem'[d] > 0 <=> disk'[d] > 0
<1>1. storeMem' = [storeMem EXCEPT ![c] = lots] /\ disk' = storeMem'
  BY DEF Upsert, WriteFile
<1> QED
  BY <1>1 DEF StoreShapes, Mirrored

LEMMA RemoveNames ==
  ASSUME StoreShapes, "disk" \notin Faults, phase # "down", Mirrored,
         NEW c \in Coins, Remove(c)
  PROVE  \A d \in Coins :
            /\ disk'[d] > 0 <=> d # c /\ disk[d] > 0
            /\ storeMem'[d] > 0 <=> disk'[d] > 0
<1>1. CASE storeMem[c] = 0
  BY <1>1 DEF Remove, StoreShapes, Mirrored
<1>2. CASE storeMem[c] # 0
  <2>1. Upsert(c, 0)
    BY <1>2 DEF Remove
  <2> QED
    BY <2>1, UpsertNames
<1> QED
  BY <1>1, <1>2

-----------------------------------------------------------------------------
(* What the steps of the two tasks mean to the store. *)

\* A step neither writes, asks for a write, nor changes a position.
Aside ==
    /\ UNCHANGED <<phase, lock, positions, storeMem, disk, rec>>
    /\ (RouterWaits' <=> RouterWaits) /\ (RouterWaits => router'.coin = router.coin)
    /\ (PMWaits' <=> PMWaits) /\ (PMWaits => UNCHANGED pm)

RouterAsks ==
    /\ ~RouterWaits /\ router.coin \in Coins
    /\ Register(router.coin)
    /\ router' = [router EXCEPT !.pc = "persist"]
    /\ Request("router")
    /\ UNCHANGED <<pm, storeMem, disk>>

LEMMA RouterStoreSteps ==
  ASSUME Shapes, Quiet, RouterStep
  PROVE  Aside \/ RouterAsks \/ RouterStored
<1> USE DEF RouterWaits, PMWaits, Shapes, Aside, memory, store
<1>1. ASSUME NEW c \in Coins, Gate(c) PROVE Aside
  BY <1>1 DEF Gate
<1>2. CASE SizeRefused
  BY <1>2 DEF SizeRefused, IdleRouter
<1>3. CASE SendEntry
  BY <1>3 DEF SendEntry
<1>4. CASE SimulateEntry
  <2>1. CASE Simulated
    BY <1>4, <2>1, Running DEF SimulateEntry, IdleRouter
  <2>2. CASE ~Simulated
    BY <1>4, <2>2 DEF SimulateEntry, RouterAsks
  <2> QED
    BY <2>1, <2>2
<1>5. CASE EntryRejected
  BY <1>5 DEF EntryRejected, IdleRouter
<1>6. CASE EntryAccepted
  BY <1>6 DEF EntryAccepted, RouterAsks
<1>7. CASE EntryAnswerLost
  BY <1>7 DEF EntryAnswerLost, IdleRouter
<1> QED
  BY <1>1, <1>2, <1>3, <1>4, <1>5, <1>6, <1>7 DEF RouterStep

\* The position manager asks for the upsert of a managed coin.
PMAsks ==
    /\ ~PMWaits
    /\ pm'.pc \in {"filling", "saving", "arming"} /\ pm'.coin \in Coins
    /\ positions' \in [Coins -> Nat] /\ positions'[pm'.coin] > 0
    /\ \A d \in Coins \ {pm'.coin} : positions'[d] = positions[d]
    /\ Request("pm")
    /\ UNCHANGED <<router, storeMem, disk>>

PMDrops ==
    /\ ~PMWaits /\ pm.coin \in Coins
    /\ ExitAccepted(pm.coin)
    /\ UNCHANGED <<router, storeMem, disk>>

LEMMA DecisionStoreSteps ==
  ASSUME Shapes, ~PMWaits, NEW c \in Coins, positions[c] > 0,
         SavePeak(c) \/ ArmBreakEven(c) \/ StartExit(c),
         UNCHANGED <<phase, rec, positions, router, storeMem, disk>>
  PROVE  Aside \/ PMAsks
<1>1. CASE StartExit(c)
  BY <1>1 DEF StartExit, Aside, PMWaits, RouterWaits, Shapes
<1>2. ASSUME SavePeak(c) \/ ArmBreakEven(c) PROVE PMAsks
  <2>1. pm'.pc \in {"saving", "arming"} /\ pm'.coin = c /\ Request("pm")
    BY <1>2 DEF SavePeak, ArmBreakEven, Shapes
  <2>2. positions' \in [Coins -> Nat] /\ UNCHANGED positions
    BY DEF Shapes
  <2> QED
    BY <2>1, <2>2 DEF PMAsks
<1> QED
  BY <1>1, <1>2

LEMMA PMStoreSteps ==
  ASSUME Shapes, Working, PMStep
  PROVE  Aside \/ PMAsks \/ PMDrops \/ SaveStored \/ RemoveStored
<1>0. /\ positions \in [Coins -> Nat]
      /\ pm = [pc |-> pm.pc, coin |-> pm.coin, batch |-> pm.batch]
      /\ pm.pc # "idle" => pm.coin \in Coins
  BY DEF Shapes
<1>1. ASSUME NEW c \in Coins, Mark(c) PROVE Aside \/ PMAsks
  BY <1>1, DecisionStoreSteps DEF Mark, PMWaits, memory
<1>2. ASSUME NEW c \in Coins, PendingMark(c) PROVE Aside \/ PMAsks
  <2>1. CASE UNCHANGED <<positions, pm, lock>>
    BY <1>2, <2>1 DEF PendingMark, Aside, RouterWaits, PMWaits
  <2>2. ASSUME Register(c), pm' = [pm EXCEPT !.pc = "filling", !.coin = c], Request("pm")
        PROVE  PMAsks
    BY <1>0, <1>2, <2>2 DEF PendingMark, PMAsks, PMWaits, Register
  <2> QED
    BY <1>2, <2>1, <2>2 DEF PendingMark
<1>3. ASSUME NEW c \in Coins, Panic(c) PROVE Aside
  BY <1>3 DEF Panic, Aside, PMWaits, RouterWaits, memory, store
<1>4. CASE Resume
  <2>1. pm.pc \in {"registered", "saved", "armed"}
    BY <1>4 DEF Resume
  <2>2. pm.coin \in Coins /\ ~PMWaits /\ positions[pm.coin] > 0
    BY <1>0, <2>1 DEF PMWaits, Working
  <2>3. CASE EndMark
    BY <1>4, <2>2, <2>3 DEF Resume, EndMark, IdlePM, Aside, PMWaits, RouterWaits, memory
  <2> QED
    BY <1>4, <2>2, <2>3, DecisionStoreSteps DEF Resume, memory
<1>5. CASE RequestExit
  <2>1. pm.coin \in Coins /\ ~PMWaits
    BY <1>0, <1>5 DEF RequestExit, PMWaits
  <2>2. CASE ExitAccepted(pm.coin)
    BY <1>5, <2>1, <2>2 DEF RequestExit, PMDrops
  <2>3. CASE pm' = [pm EXCEPT !.pc = "exit"] /\ UNCHANGED <<positions, recent, lock>>
    BY <1>0, <1>5, <2>1, <2>3 DEF RequestExit, Aside, PMWaits, RouterWaits
  <2> QED
    BY <1>5, <2>2, <2>3 DEF RequestExit
<1>6. CASE ExitAnswered
  BY <1>0, <1>6 DEF ExitAnswered, PMDrops, PMWaits
<1>7. CASE ExitRejected \/ ExitAnswerLost
  <2>1. AfterExit /\ pm.pc \in {"exit", "exited"}
    BY <1>7 DEF ExitRejected, ExitAnswerLost
  <2>2. ~PMWaits /\ ~PMWaits'
    BY <2>1 DEF AfterExit, IdlePM, PMWaits
  <2> QED
    BY <1>7, <2>2 DEF ExitRejected, ExitAnswerLost, Aside, RouterWaits, memory, store
<1> QED
  BY <1>1, <1>2, <1>3, <1>4, <1>5, <1>6, <1>7 DEF PMStep
-----------------------------------------------------------------------------
(* The queue of the lock. *)

LEMMA QueueNext == TypeOK /\ Quiet /\ Working /\ Queue /\ [Next]_vars => Queue'
<1> SUFFICES ASSUME Shapes, Quiet, Working, Queue, [Next]_vars PROVE Queue'
  BY ShapeOfType
<1> USE DEF Queue, RouterWaits, PMWaits
<1>1. CASE Aside
  BY <1>1 DEF Aside
<1>2. CASE RouterAsks
  BY <1>2 DEF RouterAsks, Request, Shapes
<1>3. CASE PMAsks
  BY <1>3 DEF PMAsks, Request
<1>4. CASE PMDrops
  BY <1>4 DEF PMDrops, ExitAccepted, Request, Shapes
<1>5. CASE RouterStored
  BY <1>5 DEF RouterStored, IdleRouter
<1>6. CASE SaveStored
  BY <1>6 DEF SaveStored, Shapes
<1>7. CASE RemoveStored
  <2>1. pm'.pc \in {"idle", "journal"}
    BY <1>7 DEF RemoveStored, AfterExit, IdlePM
  <2> QED
    BY <1>7, <2>1 DEF RemoveStored
<1>8. CASE RecoveryStep
  BY <1>8 DEF RecoveryStep, StartRecovery, Loadable, DropSaved, KeepSaved, AdoptOrphan,
              FinishRecovery, store
<1>9. CASE ExchangeStep
  BY <1>9 DEF ExchangeStep, ExecuteEntry, ExecuteExit, RestingFills, Liquidate, store, Shapes
<1>10. CASE Stop
  BY <1>10 DEF Stop, IdleRouter, IdlePM
<1>11. CASE UNCHANGED <<lock, router, pm>>
  BY <1>11
<1>12. (Trip \/ Unlock \/ (\E c \in Coins : CooldownEnds(c)) \/ UNCHANGED vars)
       => UNCHANGED <<lock, router, pm>>
  BY DEF Trip, Unlock, CooldownEnds, store, vars
<1> QED
  BY <1>1, <1>2, <1>3, <1>4, <1>5, <1>6, <1>7, <1>8, <1>9, <1>10, <1>11, <1>12,
     RouterStoreSteps, PMStoreSteps DEF Next

-----------------------------------------------------------------------------
(* File and dictionary, when the disk does not fail. *)

\* The steps of the two tasks: each changes what is settled for one coin.
LEMMA SettledRunning ==
  ASSUME StoreShapes, Working, Queue, "disk" \notin Faults,
         phase = "running", UNCHANGED phase, Mirrored, AllSettled,
         Aside \/ RouterAsks \/ PMAsks \/ PMDrops \/ RouterStored \/ SaveStored \/ RemoveStored
  PROVE  Mirrored' /\ AllSettled'
<1> USE DEF RouterWaits, PMWaits, RouterWrites, PMWrites, PMLast
<1>0. /\ \A c \in Coins : Settled(c)
      /\ lock \in {"free", "router", "pm"}
      /\ \A c \in Coins : storeMem[c] > 0 <=> disk[c] > 0
      /\ positions \in [Coins -> Nat]
      /\ router = [pc |-> router.pc, coin |-> router.coin]
      /\ router.pc # "idle" => router.coin \in Coins
      /\ pm = [pc |-> pm.pc, coin |-> pm.coin, batch |-> pm.batch]
      /\ pm.pc # "idle" => pm.coin \in Coins
  BY DEF StoreShapes, Shapes, Mirrored, AllSettled
<1>1. CASE Aside
  BY <1>0, <1>1 DEF Aside, Mirrored, AllSettled, Settled
<1>2. CASE RouterAsks
  <2>1. lock' = IF lock = "free" THEN "router" ELSE lock
    BY <1>2 DEF RouterAsks, Request
  <2>2. positions' = [positions EXCEPT ![router.coin] = 1]
        /\ router'.pc = "persist" /\ router'.coin = router.coin
    BY <1>0, <1>2 DEF RouterAsks, Register
  <2>3. ASSUME NEW c \in Coins PROVE Settled(c)'
    <3>1. PMWaits => lock = "pm" /\ lock' = "pm"
      BY <1>2, <2>1, <1>0 DEF RouterAsks, Queue
    <3>2. ~RouterWaits /\ UNCHANGED <<pm, disk>> /\ router.coin \in Coins
      BY <1>2 DEF RouterAsks
    <3>3. CASE c = router.coin
      BY <1>0, <2>2, <3>1, <3>2, <3>3 DEF Settled
    <3>4. CASE c # router.coin
      BY <1>0, <2>2, <3>1, <3>2, <3>4 DEF Settled
    <3> QED
      BY <3>3, <3>4
  <2> QED
    BY <1>0, <1>2, <2>3 DEF RouterAsks, Mirrored, AllSettled
<1>3. CASE PMAsks
  <2>1. lock' = IF lock = "free" THEN "pm" ELSE lock
    BY <1>3 DEF PMAsks, Request
  <2>2. ASSUME NEW c \in Coins PROVE Settled(c)'
    BY <1>0, <1>3, <2>1 DEF PMAsks, Settled, Queue
  <2> QED
    BY <1>0, <1>3, <2>2 DEF PMAsks, Mirrored, AllSettled
<1>4. CASE PMDrops
  <2>1. /\ lock' = IF lock = "free" THEN "pm" ELSE lock
        /\ positions' = [positions EXCEPT ![pm.coin] = 0]
        /\ pm'.pc = "removing" /\ pm'.coin = pm.coin
    BY <1>0, <1>4 DEF PMDrops, ExitAccepted, Request
  <2>2. ASSUME NEW c \in Coins PROVE Settled(c)'
    BY <1>0, <1>4, <2>1 DEF PMDrops, Settled, Queue
  <2> QED
    BY <1>0, <1>4, <2>2 DEF PMDrops, Mirrored, AllSettled
<1>5. CASE RouterStored
  <2>1. /\ router.pc = "persist" /\ lock = "router" /\ router'.pc = "idle"
        /\ lock' = IF PMWaits THEN "pm" ELSE "free"
        /\ UNCHANGED <<positions, pm>>
    BY <1>5 DEF RouterStored, IdleRouter, memory
  <2>2. \A d \in Coins :
           /\ disk'[d] > 0 <=> IF d = router.coin THEN 1 > 0 ELSE disk[d] > 0
           /\ storeMem'[d] > 0 <=> disk'[d] > 0
    BY <1>0, <1>5, <2>1, UpsertNames DEF RouterStored
  <2>3. ASSUME NEW c \in Coins PROVE Settled(c)'
    BY <1>0, <2>1, <2>2 DEF Settled
  <2> QED
    BY <2>2, <2>3 DEF Mirrored, AllSettled
<1>6. CASE SaveStored
  <2>1. /\ pm.pc \in {"filling", "saving", "arming"} /\ lock = "pm"
        /\ pm'.pc \in {"registered", "saved", "armed"}
        /\ lock' = IF RouterWaits THEN "router" ELSE "free"
        /\ UNCHANGED <<positions, router>>
    BY <1>0, <1>6 DEF SaveStored, memory
  <2>2. pm.coin \in Coins /\ positions[pm.coin] > 0 /\ positions[pm.coin] \in Nat
    BY <1>0, <2>1 DEF Working
  <2>3. \A d \in Coins :
           /\ disk'[d] > 0 <=> IF d = pm.coin THEN positions[pm.coin] > 0 ELSE disk[d] > 0
           /\ storeMem'[d] > 0 <=> disk'[d] > 0
    BY <1>6, <2>2, UpsertNames DEF SaveStored
  <2>4. ASSUME NEW c \in Coins PROVE Settled(c)'
    BY <1>0, <2>1, <2>2, <2>3 DEF Settled
  <2> QED
    BY <2>3, <2>4 DEF Mirrored, AllSettled
<1>7. CASE RemoveStored
  <2>1. /\ pm.pc = "removing" /\ lock = "pm" /\ pm.coin \in Coins
        /\ pm'.pc \in {"idle", "journal"}
        /\ lock' = IF RouterWaits THEN "router" ELSE "free"
        /\ UNCHANGED <<positions, router>>
    BY <1>0, <1>7 DEF RemoveStored, AfterExit, IdlePM
  <2>2. \A d \in Coins :
           /\ disk'[d] > 0 <=> d # pm.coin /\ disk[d] > 0
           /\ storeMem'[d] > 0 <=> disk'[d] > 0
    BY <1>7, <2>1, RemoveNames DEF RemoveStored
  <2>3. ASSUME NEW c \in Coins PROVE Settled(c)'
    BY <1>0, <2>1, <2>2 DEF Settled
  <2> QED
    BY <2>2, <2>3 DEF Mirrored, AllSettled
<1> QED
  BY <1>1, <1>2, <1>3, <1>4, <1>5, <1>6, <1>7

\* The recovery: it starts from the file, drops, keeps and adopts one coin at a
\* time, and nothing else runs until it is over.
LEMMA SettledRecovery ==
  ASSUME StoreShapes, Quiet, Queue, "disk" \notin Faults, Mirrored, Restored, RecoveryStep
  PROVE  Mirrored' /\ Restored' /\ AllSettled'
<1>0. /\ positions \in [Coins -> Nat] /\ disk \in [Coins -> Nat] /\ storeMem \in [Coins -> Nat]
      /\ rec = [live |-> rec.live, saved |-> rec.saved, todo |-> rec.todo]
      /\ rec.live \in [Coins -> Nat]
  BY DEF StoreShapes, Shapes
<1>1. CASE StartRecovery
  <2>1. /\ phase = "down" /\ phase' = "recovering" /\ UNCHANGED <<positions, disk>>
        /\ storeMem' = disk
    BY <1>1 DEF StartRecovery, Loadable
  <2>2. rec'.saved = Held(disk) /\ Held(disk) \subseteq rec'.todo
    BY <1>1 DEF StartRecovery, Loadable
  <2>3. \A c \in Coins : positions[c] = 0
    BY <2>1 DEF Restored
  <2>4. \A c \in Coins : c \in rec'.saved <=> disk[c] > 0
    BY <2>2 DEF Held
  <2>5. \A c \in Coins : c \notin rec'.todo => ~(disk[c] > 0)
    BY <2>2, <2>4
  <2> QED
    BY <2>1, <2>3, <2>4, <2>5 DEF Mirrored, Restored, AllSettled
<1>2. ASSUME phase = "recovering"
      PROVE  /\ \A c \in Coins : IF c \in rec.todo
                                 THEN positions[c] = 0 /\ (c \in rec.saved <=> disk[c] > 0)
                                 ELSE positions[c] > 0 <=> disk[c] > 0
             /\ \A c \in Coins : storeMem[c] > 0 <=> disk[c] > 0
  BY <1>2 DEF Mirrored, Restored
<1>3. ASSUME phase = "recovering", UNCHANGED phase, NEW c \in Coins, Done(c),
             \A d \in Coins : storeMem'[d] > 0 <=> disk'[d] > 0,
             \A d \in Coins \ {c} : positions'[d] = positions[d] /\ (disk'[d] > 0 <=> disk[d] > 0),
             positions'[c] > 0 <=> disk'[c] > 0
      PROVE  Mirrored' /\ Restored' /\ AllSettled'
  <2>1. rec'.saved = rec.saved /\ rec'.todo = rec.todo \ {c}
    BY <1>0, <1>3 DEF Done
  <2> QED
    BY <1>2, <1>3, <2>1 DEF Mirrored, Restored, AllSettled
<1>4. ASSUME NEW c \in Coins, DropSaved(c) PROVE Mirrored' /\ Restored' /\ AllSettled'
  <2>1. phase = "recovering" /\ UNCHANGED <<phase, positions>> /\ Done(c) /\ Remove(c)
        /\ positions[c] = 0
    BY <1>2, <1>4 DEF DropSaved, memory
  <2>2. \A d \in Coins :
           /\ disk'[d] > 0 <=> d # c /\ disk[d] > 0
           /\ storeMem'[d] > 0 <=> disk'[d] > 0
    BY <2>1, RemoveNames
  <2> QED
    BY <1>3, <2>1, <2>2
<1>5. ASSUME NEW c \in Coins, KeepSaved(c) PROVE Mirrored' /\ Restored' /\ AllSettled'
  <2>1. /\ phase = "recovering" /\ UNCHANGED <<phase, disk>> /\ Done(c)
        /\ c \in rec.todo /\ c \in rec.saved
        /\ positions' = [positions EXCEPT ![c] = ReconciledLots(c)]
        /\ storeMem' = [storeMem EXCEPT ![c] = ReconciledLots(c)]
    BY <1>5 DEF KeepSaved
  <2>2. disk[c] > 0 /\ storeMem[c] > 0
    BY <1>2, <2>1
  <2>3. ReconciledLots(c) > 0
    BY <1>5, <2>2 DEF KeepSaved, ReconciledLots
  <2> QED
    BY <1>0, <1>2, <1>3, <2>1, <2>2, <2>3
<1>6. ASSUME NEW c \in Coins, AdoptOrphan(c) PROVE Mirrored' /\ Restored' /\ AllSettled'
  <2>1. /\ phase = "recovering" /\ UNCHANGED phase /\ Done(c)
        /\ c \in rec.todo /\ c \notin rec.saved
    BY <1>6 DEF AdoptOrphan
  <2>2. positions[c] = 0 /\ ~(disk[c] > 0)
    BY <1>2, <2>1
  <2>3. CASE UNCHANGED <<positions, storeMem, disk>>
    BY <1>2, <1>3, <2>1, <2>2, <2>3
  <2>4. CASE positions' = [positions EXCEPT ![c] = rec.live[c]] /\ Upsert(c, rec.live[c])
    <3>1. \A d \in Coins :
             /\ disk'[d] > 0 <=> IF d = c THEN rec.live[c] > 0 ELSE disk[d] > 0
             /\ storeMem'[d] > 0 <=> disk'[d] > 0
      BY <1>0, <2>1, <2>4, UpsertNames
    <3> QED
      BY <1>0, <1>3, <2>1, <2>4, <3>1
  <2> QED
    BY <1>6, <2>3, <2>4 DEF AdoptOrphan
<1>7. CASE FinishRecovery
  <2>1. /\ phase = "recovering" /\ rec.todo = {} /\ phase' = "running"
        /\ UNCHANGED <<positions, router, pm, storeMem, disk>>
    BY <1>7 DEF FinishRecovery, memory, store
  <2>2. \A c \in Coins : positions[c] > 0 <=> disk[c] > 0
    BY <1>2, <2>1
  <2>3. router'.pc = "idle" /\ pm'.pc = "idle"
    BY <2>1 DEF Quiet
  <2> QED
    BY <1>2, <2>1, <2>2, <2>3 DEF Mirrored, Restored, AllSettled, Settled, PMLast, PMWrites,
                                  RouterWrites, PMWaits, RouterWaits
<1> QED
  BY <1>1, <1>4, <1>5, <1>6, <1>7 DEF RecoveryStep

LEMMA StoreNext ==
  TypeOK /\ Quiet /\ Working /\ Queue /\ StoreInv /\ [Next]_vars => StoreInv'
<1> SUFFICES ASSUME StoreShapes, Shapes, Quiet, Working, Queue, [Next]_vars,
                    "disk" \notin Faults, Mirrored, Restored, AllSettled
             PROVE  Mirrored' /\ Restored' /\ AllSettled'
  BY ShapeOfType, StoreShapeOfType DEF StoreInv
<1>1. ASSUME Aside \/ RouterAsks \/ PMAsks \/ PMDrops \/ RouterStored \/ SaveStored
                   \/ RemoveStored,
             phase = "running", phase' = "running"
      PROVE  Mirrored' /\ Restored' /\ AllSettled'
  BY <1>1, SettledRunning DEF Restored
<1>2. CASE RouterStep
  BY <1>1, <1>2, Running, RouterStoreSteps
<1>3. CASE PMStep
  BY <1>1, <1>3, Running, PMStoreSteps
<1>4. CASE RecoveryStep
  BY <1>4, SettledRecovery
<1>5. CASE ExecuteEntry \/ ExecuteExit
  <2>1. Aside
    BY <1>5 DEF ExecuteEntry, ExecuteExit, Aside, RouterWaits, PMWaits, Shapes, memory, store
  <2> QED
    BY <1>1, <1>5, <2>1, Running
<1>6. CASE Stop
  BY <1>6 DEF Stop, None, Mirrored, Restored, AllSettled
<1>7. CASE UNCHANGED <<phase, positions, router, pm, lock, storeMem, disk, rec>>
  BY <1>7 DEF Mirrored, Restored, AllSettled, Settled, PMLast, PMWrites, RouterWrites,
              PMWaits, RouterWaits
<1>8. (Trip \/ Unlock \/ (\E c \in Coins : CooldownEnds(c) \/ RestingFills(c) \/ Liquidate(c))
         \/ UNCHANGED vars)
      => UNCHANGED <<phase, positions, router, pm, lock, storeMem, disk, rec>>
  BY DEF Trip, Unlock, CooldownEnds, RestingFills, Liquidate, memory, store, vars
<1> QED
  BY <1>2, <1>3, <1>4, <1>5, <1>6, <1>7, <1>8 DEF Next, ExchangeStep

\* What the store's theorems rest on, for every run of the program.
LEMMA StoreHolds == Spec => [](TypeOK /\ Queue /\ StoreInv)
<1>1. Init => Quiet /\ Working
  BY ExposureInit DEF ExposureInv
<1>2. Spec => [](TypeOK /\ Quiet /\ Working)
  BY <1>1, TypeCorrect, QuietNext, WorkingNext, PTL DEF Spec
<1> QED
  BY <1>2, StoreInit, QueueNext, StoreNext, PTL DEF Spec

\* With writes that succeed, whenever nobody is in the store the file names
\* exactly the managed coins, however entries, exits and restarts interleaved.
THEOREM FileMatches == Spec => []FileAgrees
<1>1. Queue /\ StoreInv => FileAgrees
  BY DEF Queue, StoreInv, AllSettled, Settled, PMLast, PMWrites, RouterWrites, FileAgrees, Held
<1> QED
  BY <1>1, StoreHolds, PTL

\* With writes that succeed, a managed coin that no task is about to write is in
\* the file, even while the other task holds the store for another coin.
THEOREM ManagedIsSaved == Spec => []FileKnowsManaged
<1>1. Queue /\ StoreInv => FileKnowsManaged
  BY DEF StoreInv, AllSettled, Settled, PMLast, PMWrites, RouterWrites, FileKnowsManaged, Held
<1> QED
  BY <1>1, StoreHolds, PTL
=============================================================================
