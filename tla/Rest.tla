---------------------------------- MODULE Rest ----------------------------------
(***************************************************************************)
(* The REST client's orders: the size of an entry, the leverage of its     *)
(* coin, the order.  The router (entries) and the position manager (exits) *)
(* are two tasks that share the client, and each request is an await.      *)
(* What they do before and after is Execution's.                           *)
(***************************************************************************)
EXTENDS Integers, FiniteSets

CONSTANTS
    Coins,
    Collaterals,   \* the free collateral the account may show, in USD
    Fallback,      \* DRY_RUN_FALLBACK_COLLATERAL
    Cross,         \* margin_mode = "cross"
    Risks,         \* the values trade_risk_pct may have
    Leverage,      \* settings.leverage
    Factors        \* the parts, in percent, confidence scaling may leave of a size

VARIABLES
    dry, risk,     \* bot_dry_run, trade_risk_pct
    calls,         \* what each task awaits
    applied,       \* _leverage_applied
    lever,         \* the exchange: coins that have the leverage of the settings
    refused,       \* ghost: coins of which the exchange refused an update
    executed       \* ghost: the last order executed (in a set of its own): whether under
                   \* that leverage, and the margin it took of the collateral that was free

vars == <<dry, risk, calls, applied, lever, refused, executed>>

Tasks == {"router", "manager"}
Idle  == [await |-> "none"]

-----------------------------------------------------------------------------
\* calculate_position_size: the margin of an entry, in hundredths of a USD, or 0
\* for none.
Allocated(free) ==
    IF /\ free > 0 /\ risk > 0 /\ risk <= 100
       /\ ~Cross
       /\ risk < 95                        \* MAX_MARGIN_USAGE
       /\ free * risk * Leverage >= 1000   \* MIN_NOTIONAL_USD
    THEN free * risk ELSE 0

\* _confidence_scaled_size, after those checks.
Scaled(margin, factor) == (margin * factor) \div 100

\* place_order: in a dry run nothing is sent, and the coin counts as set.
Place(t, c, order) ==
    IF dry
    THEN calls' = [calls EXCEPT ![t] = Idle] /\ applied' = applied \cup {c}
    ELSE /\ calls' = [calls EXCEPT ![t] = [order EXCEPT !.await = IF c \in applied THEN "order" ELSE "leverage"]]
         /\ applied' = applied

Order(c, margin, free) == [await |-> "none", coin |-> c, margin |-> margin, free |-> free]

\* route_entry: the account's margin first.
Enter(c) ==
    /\ calls["router"] = Idle
    /\ calls' = [calls EXCEPT !["router"] = [await |-> "account", coin |-> c]]
    /\ UNCHANGED <<dry, risk, applied, lever, refused, executed>>

\* fetch_margin_snapshot: what is free, unless the request fails; a failure is
\* replaced in a dry run only.
Snapshots == Collaterals \cup (IF dry THEN {Fallback} ELSE {})
Account ==
    /\ calls["router"].await = "account"
    /\ LET c == calls["router"].coin IN
       \/ \E free \in Snapshots, factor \in Factors :
             LET margin == Scaled(Allocated(free), factor) IN
             IF margin > 0 THEN Place("router", c, Order(c, margin, free))
             ELSE calls' = [calls EXCEPT !["router"] = Idle] /\ applied' = applied
       \/ ~dry /\ calls' = [calls EXCEPT !["router"] = Idle] /\ applied' = applied
    /\ UNCHANGED <<dry, risk, lever, refused, executed>>

\* route_exit: the order at once.
Exit(c) ==
    /\ calls["manager"] = Idle
    /\ Place("manager", c, Order(c, 0, 0))
    /\ UNCHANGED <<dry, risk, lever, refused, executed>>

\* _ensure_margin_settings: the answer is logged and not looked at; a request
\* that fails raises, and may have been executed.
Marked(t) == applied' = applied \cup {calls[t].coin}

LeverageAnswered(t) ==
    /\ calls[t].await = "leverage"
    /\ \E accepted \in BOOLEAN :
          /\ lever' = IF accepted THEN lever \cup {calls[t].coin} ELSE lever
          /\ refused' = IF accepted THEN refused ELSE refused \cup {calls[t].coin}
    /\ Marked(t)
    /\ calls' = [calls EXCEPT ![t].await = "order"]
    /\ UNCHANGED <<dry, risk, executed>>

FailsMarked(t) ==            \* mutant: a failed request marks the coin too
    /\ calls[t].await = "leverage"
    /\ lever' \in {lever, lever \cup {calls[t].coin}}
    /\ Marked(t)
    /\ calls' = [calls EXCEPT ![t] = Idle]
    /\ UNCHANGED <<dry, risk, refused, executed>>
LeverageFails(t) ==
    /\ calls[t].await = "leverage"
    /\ lever' \in {lever, lever \cup {calls[t].coin}}
    /\ calls' = [calls EXCEPT ![t] = Idle]
    /\ UNCHANGED <<dry, risk, applied, refused, executed>>

\* post_exchange of the order: executed or not, and answered or not.
OrderEnds(t) ==
    /\ calls[t].await = "order"
    /\ LET o == calls[t] IN
       \/ executed' = {[coin |-> o.coin, levered |-> o.coin \in lever, margin |-> o.margin, free |-> o.free]}
       \/ executed' = executed
    /\ calls' = [calls EXCEPT ![t] = Idle]
    /\ UNCHANGED <<dry, risk, applied, lever, refused>>

\* A new process; LEVERAGE may have changed.
Restart ==
    /\ calls' = [t \in Tasks |-> Idle]
    /\ applied' = {}
    /\ lever' \in {lever, {}}
    /\ refused' = {}
    /\ executed' = {}
    /\ UNCHANGED <<dry, risk>>

Init ==
    /\ dry \in BOOLEAN /\ risk \in Risks
    /\ calls = [t \in Tasks |-> Idle]
    /\ applied = {}
    /\ lever \in SUBSET Coins
    /\ refused = {}
    /\ executed = {}

Next ==
    \/ \E c \in Coins : Enter(c) \/ Exit(c)
    \/ Account
    \/ \E t \in Tasks : LeverageAnswered(t) \/ LeverageFails(t) \/ OrderEnds(t)

-----------------------------------------------------------------------------
(* Properties. *)

\* No order runs under another leverage than the settings', whichever task comes
\* first and whatever answers are lost, unless the exchange refused to set it:
\* that refusal is taken for an answer.  And an entry ties up less than 95 % of
\* what was free, and no order is sent in a dry run.
OrdersCovered ==
    \A o \in executed :
        /\ ~dry
        /\ o.levered \/ o.coin \in refused
        /\ o.margin <= o.free * 95
=============================================================================
