---------------------------- MODULE OrbRecovery ----------------------------
(***************************************************************************)
(* One executor portfolio (val or gene) through crashes and restarts.  The *)
(* same position is written down in five places that are updated by        *)
(* different steps: the engine's memory (rows, risk book, adapter), the    *)
(* snapshot orb_state_<date>.json, the executor's rows (mirrored to        *)
(* state.db on every change, so they survive a crash) and the broker.      *)
(*                                                                         *)
(* The scan loop runs its cycle forever: sweep, dump, entries, exits,      *)
(* persist.  A broker call is a step of its own between two steps of the   *)
(* engine, and the process may die between any two.  Opening-range windows *)
(* are taken as locked, prices are abstracted to the P&L of an exit, and   *)
(* the rollback cooldown, which only refuses entries, is in OrbEngine.     *)
(***************************************************************************)
EXTENDS OrbBook, OrbState

CONSTANTS
    Uuids,          \* what uuid4 may return for an admitted ticket
    EntrySides,     \* the sides a breakout may have, {"long", "short"} or less
    Lot,            \* shares of an entry
    Equity,
    PartialGain,    \* what a partial books
    ExitLegs,       \* P&L of a full exit
    ExitBound,      \* bound: no exit is taken on a row with that many trades
    MaxRestarts,    \* bound: crashes of a behaviour
    NoTicket, NoPos, NoRow, Idle

Sides == {"long", "short"}

\* A ticket id is a base and the number of times a restart has put another
\* "recover-" in front of it.  recover-inject-<ticker> is a base of its own.
InjectBase(t) == <<"inject", t>>
Ids == (Uuids \cup {InjectBase(t) : t \in Tickers}) \X (0..MaxRestarts)
InjectId(t) == <<InjectBase(t), 0>>
RecoverId(id) == <<id[1], id[2] + 1>>
IsUuid(id) == id[1] \in Uuids /\ id[2] = 0

\* The id a restart made this one of, and the ticker of an injected one.
FormerId(id) == <<id[1], id[2] - 1>>
InjectTicker(id) == id[1][2]

Position == [ticker : Tickers, side : Sides, shares : Nat, risk : Nat,
             halved : BOOLEAN, booked : Int]
ExecutorRow == [side : Sides, qty : Nat]
Call == [kind : {"entry", "record", "partial", "exit"}, ticker : Tickers,
         side : Sides, shares : Nat, ticket : Ids \cup {NoTicket}]

ASSUME RecoveryConstants ==
    /\ TicketIds = Ids /\ Pairs = Tickers \X Sides
    /\ EntrySides \subseteq Sides
    /\ IsFiniteSet(Tickers) /\ Uuids \cap {InjectBase(t) : t \in Tickers} = {}
    /\ Lot \in Nat \ {0} /\ Equity \in Nat /\ PartialGain \in Int /\ ExitLegs \subseteq Int
    /\ ExitBound \in Nat /\ MaxRestarts \in Nat
    /\ NoTicket \notin TicketIds /\ NoPos \notin Position
    /\ NoRow \notin ExecutorRow /\ Idle \notin Call

VARIABLES
    stage,     \* where the scan cycle is, or "down"
    todo,      \* tickers this stage has still to look at
    engine,    \* memory: rows, book, open positions, ticker map
    call,      \* the broker call the scan thread is in, or Idle
    recent,    \* a persist ran less than the throttle ago
    disk,      \* orb_state_<date>.json
    held,      \* executor.positions = state.db
    broker,    \* signed shares at the broker
    restarts   \* crashes so far

recoveryVars == <<stage, todo, engine, call, recent, disk, held, broker, restarts>>

Stages == {"down", "ready", "clearing", "swept", "entries", "exits"}
Engine == [rows : [Tickers -> Row], book : Book,
           open : [TicketIds -> Position \cup {NoPos}],
           active : [Tickers -> TicketIds \cup {NoTicket}]]
Snapshot == [rows : [Tickers -> Row], book : Book,
             open : [TicketIds -> Position \cup {NoPos}]]

Opposite(side) == IF side = "long" THEN "short" ELSE "long"
Signed(side, n) == IF side = "long" THEN n ELSE -n
NothingOpen == [id \in TicketIds |-> NoPos]
NothingMapped == [t \in Tickers |-> NoTicket]

OpenIds(positions) == {id \in TicketIds : positions[id] # NoPos}
Tracked(e) == {e.open[id].ticker : id \in OpenIds(e.open)}
HeldTickers == {t \in Tickers : held[t] # NoRow}

-----------------------------------------------------------------------------
(* Operations on the engine's memory. *)

\* Mutant: the tickets are there before their dollars are counted.
WithTicketsUncounted(b, risks) ==
    [b EXCEPT !.live = @ \cup DOMAIN risks,
              !.tickets = [id \in TicketIds |->
                 IF id \in DOMAIN risks THEN [risk |-> risks[id], notional |-> 0] ELSE @[id]]]

\* Tickets written into the book without try_admit.
WithTickets(b, risks) ==
    [b EXCEPT !.live = @ \cup DOMAIN risks,
              !.tickets = [id \in TicketIds |->
                 IF id \in DOMAIN risks THEN [risk |-> risks[id], notional |-> 0] ELSE @[id]],
              !.openRisk = @ + Total(risks)]

\* release_by_id of each of the ids; an id without a ticket changes nothing.
WithoutTickets(b, ids) ==
    LET gone == b.live \cap ids IN
    [b EXCEPT !.live = @ \ ids,
              !.tickets = [id \in TicketIds |-> IF id \in gone THEN Blank ELSE @[id]],
              !.openRisk = AtLeastZero(@ - Total([id \in gone |-> b.tickets[id].risk])),
              !.openNotional = AtLeastZero(@ - Total([id \in gone |-> b.tickets[id].notional]))]

\* Positions leave the adapter and their tickets leave the book.
Dropped(e, ids) ==
    [e EXCEPT !.open = [id \in TicketIds |-> IF id \in ids THEN NoPos ELSE @[id]],
              !.book = WithoutTickets(@, ids)]

\* on_partial_exit: half of the shares is booked, half of the ticket freed.
PartlyExited(e, id) ==
    LET pos == e.open[id]
        rest == [ticker |-> pos.ticker, side |-> pos.side, shares |-> pos.shares - Half(pos.shares),
                 risk |-> pos.risk, halved |-> TRUE, booked |-> pos.booked + PartialGain]
    IN [e EXCEPT !.open = [@ EXCEPT ![id] = rest], !.book = HalfReleased(@, id)]

\* on_exit and the adapter's clean-up after it.
Exited(e, id, amount) ==
    LET pos == e.open[id]
        released == Released(e.book, id)
        closed == [e.rows EXCEPT ![pos.ticker] =
                      [phase |-> "closed", inPos |-> FALSE, trades |-> @.trades + 1]]
    IN [rows |-> IF KillJustTriggered(released, amount) THEN KillBlocked(closed) ELSE closed,
        book |-> PnlRecorded(released, amount, <<pos.ticker, pos.side>>),
        open |-> [e.open EXCEPT ![id] = NoPos],
        active |-> IF e.active[pos.ticker] = id
                   THEN [e.active EXCEPT ![pos.ticker] = NoTicket] ELSE e.active]

\* rollback_admit: the row is armed again, ticket, position and map entry
\* go.
RolledBack(e, t, id) ==
    [rows |-> IF e.rows[t].phase = "in_pos" \/ e.rows[t].inPos
              THEN [e.rows EXCEPT ![t] = Moved(@, "armed", FALSE)] ELSE e.rows,
     book |-> Released(e.book, id),
     open |-> [e.open EXCEPT ![id] = NoPos],
     active |-> IF e.active[t] = id THEN [e.active EXCEPT ![t] = NoTicket] ELSE e.active]

\* _unmirror_position_from_engine: a ticket of try_admit is exited at its
\* entry price; otherwise only the row is closed.
Unmirrored(e, t) ==
    LET id == e.active[t] IN
    IF id # NoTicket /\ IsUuid(id) /\ e.open[id] # NoPos
    THEN Exited(e, id, e.open[id].booked)
    ELSE IF e.rows[t].inPos
    THEN [e EXCEPT !.rows[t] = Moved(@, IF @.phase = "in_pos" THEN "closed" ELSE @.phase, FALSE)]
    ELSE e

\* find_phantom_in_pos
Phantoms(e) == {t \in Tickers : e.rows[t].inPos /\ held[t] = NoRow}

\* purge_phantom_engine_positions: one position per ticker, the mapped one
\* or else one that is open without being mapped.
KnownId(e, t) ==
    IF e.active[t] # NoTicket THEN e.active[t]
    ELSE CHOOSE id \in OpenIds(e.open) : e.open[id].ticker = t

\* Mutant: the purge knows the positions of the ticker map only.
PurgedMappedOnly(e) ==
    LET gone == {t \in Tickers : held[t] = NoRow /\ e.active[t] # NoTicket} IN
    [Dropped(e, {e.active[t] : t \in gone})
        EXCEPT !.active = [t \in Tickers |-> IF t \in gone THEN NoTicket ELSE @[t]]]

Purged(e) ==
    LET gone == {t \in Tickers : held[t] = NoRow /\ (e.active[t] # NoTicket \/ t \in Tracked(e))} IN
    [Dropped(e, {KnownId(e, t) : t \in gone})
        EXCEPT !.active = [t \in Tickers |-> IF t \in gone THEN NoTicket ELSE @[t]]]

\* make_position for a row of the executor, with a synthetic stop.
InjectedPosition(t) ==
    [ticker |-> t, side |-> held[t].side, shares |-> held[t].qty, risk |-> held[t].qty,
     halved |-> FALSE, booked |-> 0]

\* A ticket, a position and the map entry for each of the tickers, past every
\* cap; the rows of the tickers are not touched.
WithInjected(e, new) ==
    LET ids == {InjectId(t) : t \in new} IN
    [e EXCEPT !.book = WithTickets(@, [id \in ids |-> held[InjectTicker(id)].qty]),
              !.open = [id \in TicketIds |->
                 IF id \in ids THEN InjectedPosition(InjectTicker(id)) ELSE @[id]],
              !.active = [t \in Tickers |-> IF t \in new THEN InjectId(t) ELSE @[t]]]

\* Mutant: a ticker whose row says "in position" is taken for tracked.
InjectedUnlessInPos(e) ==
    WithInjected(e, {t \in HeldTickers \ Tracked(e) : held[t].qty > 0 /\ ~e.rows[t].inPos})

\* inject_missing_engine_positions
Injected(e) == WithInjected(e, {t \in HeldTickers \ Tracked(e) : held[t].qty > 0})

-----------------------------------------------------------------------------
(* The snapshot. *)

\* serialize_engine_state: the loss lock, the P&L peak and the ticker map
\* are not part of it.
SnapshotOf(e) ==
    [rows |-> e.rows, book |-> [e.book EXCEPT !.peak = 0, !.locked = {}], open |-> e.open]

\* persist_engine_state: throttled, unless forced.
PersistThrottled(e) ==
    /\ disk' = IF recent THEN disk ELSE SnapshotOf(e)
    /\ recent' = TRUE

\* Section G puts the positions back under recover- ids, each with a ticket
\* of its original risk, on top of the tickets of section C.
RestoredOpen(d) ==
    [id \in TicketIds |-> IF id[2] > 0 THEN d.open[FormerId(id)] ELSE NoPos]

RestoredRisks(d) == [id \in OpenIds(RestoredOpen(d)) |-> RestoredOpen(d)[id].risk]

\* Mutant: section C brings back the counters and the tickets only.
RestoredBookUnlatched(d) == WithTickets([d.book EXCEPT !.killed = FALSE], RestoredRisks(d))

RestoredBook(d) == WithTickets(d.book, RestoredRisks(d))

\* Mutant: the purge goes by the id's prefix, not by the position behind it.
BackedByPrefix(e) ==
    [e EXCEPT !.book = WithoutTickets(@, {id \in e.book.live : IsUuid(id)})]

\* purge_non_recover_tickets: a ticket stays if a position stands behind it.
Backed(e) ==
    [e EXCEPT !.book = WithoutTickets(@, e.book.live \ OpenIds(e.open))]

\* Mutant: nothing is pruned at boot, as it was before v9.1.142.
PrunedNothing(e, rowsOf) == e

\* _prune_stale_adapter_positions: a position stays if the executor has a
\* row for its ticker.
Pruned(e, rowsOf) ==
    Dropped(e, {id \in OpenIds(e.open) : rowsOf[e.open[id].ticker] = NoRow})

\* ensure_session_started on a date that has a snapshot.  The rows of an
\* executor carry no stop, so _recover_riskbook_from_held_positions skips
\* all of them.
Rehydrated(d, rowsOf) ==
    Pruned(Backed([rows |-> d.rows, book |-> RestoredBook(d), open |-> RestoredOpen(d),
                   active |-> NothingMapped]), rowsOf)

\* _reconcile_broker_positions, once per boot: rows the broker does not know
\* go, positions without a row get one.
Reconciled ==
    [t \in Tickers |->
        IF broker[t] = 0 THEN NoRow
        ELSE IF held[t] # NoRow THEN held[t]
        ELSE IF broker[t] > 0 THEN [side |-> "long", qty |-> broker[t]]
        ELSE [side |-> "short", qty |-> -broker[t]]]

-----------------------------------------------------------------------------

\* A day without a snapshot starts as a day with an empty one.
FreshEngine ==
    [rows |-> [t \in Tickers |-> WarmRow("armed")], book |-> NewBook(Equity),
     open |-> NothingOpen, active |-> NothingMapped]

RecoveryInit ==
    /\ stage = "ready" /\ todo = {} /\ call = Idle /\ recent = FALSE
    /\ engine = FreshEngine /\ disk = SnapshotOf(FreshEngine)
    /\ held = [t \in Tickers |-> NoRow]
    /\ broker = [t \in Tickers |-> 0]
    /\ restarts = 0

\* _orb_phantom_sweep: the phantoms are listed, then cleared one after the
\* other.
FindPhantoms ==
    /\ stage = "ready"
    /\ stage' = "clearing" /\ todo' = Phantoms(engine)
    /\ UNCHANGED <<engine, call, recent, disk, held, broker, restarts>>

ClearPhantom(t) ==
    /\ stage = "clearing" /\ t \in todo
    /\ engine' = Unmirrored(engine, t)
    /\ todo' = todo \ {t}
    /\ UNCHANGED <<stage, call, recent, disk, held, broker, restarts>>

\* The rest of it reads the executor's rows again: purge and inject.  Each
\* ends in a throttled persist, so only the first that changed something can
\* write.
Sweep ==
    /\ stage = "clearing" /\ todo = {}
    /\ stage' = "swept"
    /\ LET purged == Purged(engine)
           injected == Injected(purged)
       IN /\ engine' = injected
          /\ disk' = IF recent \/ injected = engine THEN disk
                     ELSE IF purged # engine THEN SnapshotOf(purged)
                     ELSE SnapshotOf(injected)
          /\ recent' = (recent \/ injected # engine)
    /\ UNCHANGED <<todo, call, held, broker, restarts>>

\* dump_engine_state_now: not throttled, and without the adapters.
Dump ==
    /\ stage = "swept"
    /\ stage' = "entries" /\ todo' = Tickers
    /\ disk' = [SnapshotOf(engine) EXCEPT !.open = NothingOpen]
    /\ UNCHANGED <<engine, call, recent, held, broker, restarts>>

\* check_entry admits a breakout.
CheckEntry(t, s, id) ==
    /\ stage = "entries" /\ call = Idle /\ t \in todo
    /\ CanEnter(engine.rows[t])
    /\ IsUuid(id) /\ id[1] \notin {x[1] : x \in engine.book.live \cup OpenIds(engine.open)
                                               \cup disk.book.live \cup OpenIds(disk.open)}
    /\ CanAdmit(engine.book, Lot, 0, <<t, s>>)
    /\ engine' = [rows |-> [engine.rows EXCEPT ![t] = Moved(@, "in_pos", TRUE)],
                  book |-> Admitted(engine.book, id, Lot, 0),
                  open |-> [engine.open EXCEPT ![id] =
                              [ticker |-> t, side |-> s, shares |-> Lot, risk |-> Lot,
                               halved |-> FALSE, booked |-> 0]],
                  active |-> [engine.active EXCEPT ![t] = id]]
    /\ call' = [kind |-> "entry", ticker |-> t, side |-> s, shares |-> Lot, ticket |-> id]
    /\ todo' = todo \ {t}
    /\ UNCHANGED <<stage, recent, disk, held, broker, restarts>>

\* fire_long, fire_short: the broker fills the market order and
\* _record_position overwrites the executor's row.
EntryFilled ==
    /\ call # Idle /\ call.kind = "entry"
    /\ broker' = [broker EXCEPT ![call.ticker] = @ + Signed(call.side, call.shares)]
    /\ held' = [held EXCEPT ![call.ticker] = [side |-> call.side, qty |-> call.shares]]
    /\ call' = [call EXCEPT !.kind = "record"]
    /\ UNCHANGED <<stage, todo, engine, recent, disk, restarts>>

\* persist_engine_state(force=True) after the fill.
PersistEntry ==
    /\ call # Idle /\ call.kind = "record"
    /\ disk' = SnapshotOf(engine) /\ recent' = TRUE
    /\ call' = Idle
    /\ UNCHANGED <<stage, todo, engine, held, broker, restarts>>

\* The fire returns False and rollback_admit undoes the admission.  A submit
\* that raised may have reached the broker all the same (bound: once per
\* ticker, while the broker has nothing of it).
EntryRefused(reached) ==
    /\ call # Idle /\ call.kind = "entry"
    /\ reached => broker[call.ticker] = 0
    /\ broker' = IF reached THEN [broker EXCEPT ![call.ticker] = @ + Signed(call.side, call.shares)]
                 ELSE broker
    /\ LET rolledBack == RolledBack(engine, call.ticker, call.ticket)
       IN engine' = rolledBack /\ PersistThrottled(rolledBack)
    /\ call' = Idle
    /\ UNCHANGED <<stage, todo, held, restarts>>

\* The per-ticker ticks are over; the exit pass lists the open positions.
StartExits ==
    /\ stage = "entries" /\ call = Idle
    /\ stage' = "exits" /\ todo' = Tracked(engine)
    /\ UNCHANGED <<engine, call, recent, disk, held, broker, restarts>>

\* check_exit_by_ticker finds a position through the ticker map only.
Found(t) ==
    /\ stage = "exits" /\ call = Idle /\ t \in todo
    /\ engine.active[t] # NoTicket
    /\ engine.open[engine.active[t]] # NoPos
    /\ engine.open[engine.active[t]].ticker = t

OnPartialExit(t) ==
    /\ Found(t)
    /\ LET id == engine.active[t]
           pos == engine.open[id]
       IN /\ ~pos.halved /\ pos.shares >= 2
          /\ engine' = PartlyExited(engine, id)
          /\ call' = [kind |-> "partial", ticker |-> t, side |-> pos.side,
                      shares |-> Half(pos.shares), ticket |-> NoTicket]
    /\ todo' = todo \ {t}
    /\ UNCHANGED <<stage, recent, disk, held, broker, restarts>>

\* The engine records the exit before the close order goes out.
OnExit(t, leg) ==
    /\ Found(t)
    /\ engine.rows[t].trades < ExitBound
    /\ LET id == engine.active[t]
           pos == engine.open[id]
       IN /\ engine' = Exited(engine, id, leg + pos.booked)
          /\ call' = [kind |-> "exit", ticker |-> t, side |-> Opposite(pos.side),
                      shares |-> pos.shares, ticket |-> NoTicket]
    /\ todo' = todo \ {t}
    /\ UNCHANGED <<stage, recent, disk, held, broker, restarts>>

\* _partial_close_position_idempotent goes by the executor's row, and
\* refuses what would close all of it.
PartialClosed ==
    /\ call # Idle /\ call.kind = "partial"
    /\ held[call.ticker] # NoRow /\ call.shares < held[call.ticker].qty
    /\ broker' = [broker EXCEPT ![call.ticker] = @ - Signed(held[call.ticker].side, call.shares)]
    /\ held' = [held EXCEPT ![call.ticker] = [side |-> @.side, qty |-> @.qty - call.shares]]
    /\ call' = Idle
    /\ UNCHANGED <<stage, todo, engine, recent, disk, restarts>>

\* A close order (position_intent) takes at most what the broker has on the
\* other side, and is rejected when that is nothing.
Closable(t, side) == broker[t] # 0 /\ (side = "short" <=> broker[t] > 0)
AfterClose(t, side, shares) ==
    LET there == IF broker[t] > 0 THEN broker[t] ELSE -broker[t]
    IN broker[t] + Signed(side, IF shares < there THEN shares ELSE there)

\* fire_long, fire_short with reduce_only: after the submit the row of the
\* ticker is overwritten with the closing side.
ExitFilled ==
    /\ call # Idle /\ call.kind = "exit"
    /\ Closable(call.ticker, call.side)
    /\ broker' = [broker EXCEPT ![call.ticker] = AfterClose(call.ticker, call.side, call.shares)]
    /\ held' = [held EXCEPT ![call.ticker] = [side |-> call.side, qty |-> call.shares]]
    /\ call' = Idle
    /\ UNCHANGED <<stage, todo, engine, recent, disk, restarts>>

\* The order of a partial or an exit fails: its result is ignored.
CloseRefused ==
    /\ call # Idle /\ call.kind \in {"partial", "exit"}
    /\ call' = Idle
    /\ UNCHANGED <<stage, todo, engine, recent, disk, held, broker, restarts>>

\* The throttled persist at the end of the cycle.
EndCycle ==
    /\ stage = "exits" /\ call = Idle
    /\ stage' = "ready" /\ todo' = {}
    /\ PersistThrottled(engine)
    /\ UNCHANGED <<engine, call, held, broker, restarts>>

\* _persist_min_interval_s has passed.
ThrottleExpires ==
    /\ recent /\ recent' = FALSE
    /\ UNCHANGED <<stage, todo, engine, call, disk, held, broker, restarts>>

\* /close on the executor's bot, on the bot's thread: a market order against
\* the row, then _remove_position.
OperatorClose(t) ==
    /\ stage # "down" /\ held[t] # NoRow
    /\ broker' = [broker EXCEPT ![t] = @ - Signed(held[t].side, held[t].qty)]
    /\ held' = [held EXCEPT ![t] = NoRow]
    /\ engine' = Unmirrored(engine, t)
    /\ UNCHANGED <<stage, todo, call, recent, disk, restarts>>

\* The process dies.  Its memory is kept in the model, unread until the
\* restart overwrites it, so that properties can compare the two.
Crash ==
    /\ stage # "down" /\ restarts < MaxRestarts
    /\ stage' = "down" /\ restarts' = restarts + 1
    /\ todo' = {} /\ call' = Idle /\ recent' = FALSE
    /\ UNCHANGED <<engine, disk, held, broker>>

\* Boot: the executor loads its rows and, if the broker answers, reconciles
\* them; the first scan cycle starts the session.
Restart(answered) ==
    /\ stage = "down"
    /\ stage' = "ready"
    /\ held' = IF answered THEN Reconciled ELSE held
    /\ engine' = Rehydrated(disk, held')
    /\ UNCHANGED <<todo, call, recent, disk, broker, restarts>>

RecoveryNext ==
    \/ FindPhantoms \/ (\E t \in Tickers : ClearPhantom(t)) \/ Sweep
    \/ Dump \/ StartExits \/ EndCycle
    \/ \E t \in Tickers, s \in EntrySides, id \in TicketIds : CheckEntry(t, s, id)
    \/ EntryFilled \/ PersistEntry \/ PartialClosed \/ ExitFilled \/ CloseRefused
    \/ \E reached \in BOOLEAN : EntryRefused(reached)
    \/ \E t \in Tickers : OnPartialExit(t)
    \/ \E t \in Tickers, leg \in ExitLegs : OnExit(t, leg)
    \/ ThrottleExpires
    \/ \E t \in Tickers : OperatorClose(t)
    \/ Crash
    \/ \E answered \in BOOLEAN : Restart(answered)

RecoverySpec == RecoveryInit /\ [][RecoveryNext]_recoveryVars

\* The scan thread goes on with its cycle, every broker call returns, and a
\* process that died is started again by the platform.  Nothing else is
\* fair: breakouts, exits, fills, operators and crashes may never come.
CycleGoesOn ==
    \/ FindPhantoms \/ (\E t \in Tickers : ClearPhantom(t)) \/ Sweep
    \/ Dump \/ StartExits \/ EndCycle
CallReturns ==
    \/ EntryFilled \/ (\E reached \in BOOLEAN : EntryRefused(reached))
    \/ PersistEntry \/ PartialClosed \/ ExitFilled \/ CloseRefused
FairRecoverySpec ==
    RecoverySpec /\ WF_recoveryVars(CycleGoesOn) /\ WF_recoveryVars(CallReturns)
         /\ WF_recoveryVars(\E answered \in BOOLEAN : Restart(answered))

-----------------------------------------------------------------------------

\* Every structure has its type.
RecoveryTypeOK ==
    /\ stage \in Stages /\ todo \subseteq Tickers
    /\ engine \in Engine /\ disk \in Snapshot
    /\ call \in Call \cup {Idle} /\ recent \in BOOLEAN
    /\ held \in [Tickers -> ExecutorRow \cup {NoRow}]
    /\ broker \in [Tickers -> Int] /\ restarts \in 0..MaxRestarts

\* Every ticket of the risk book has its position in the adapter and every
\* position its ticket, and an exit that goes by the ticker map meets the
\* position of that ticker, whatever was admitted, rolled back, injected,
\* purged, closed by the operator, lost in a crash or restored.
TicketsBacked ==
    stage # "down" =>
        /\ engine.book.live = OpenIds(engine.open)
        /\ \A t \in Tickers : engine.active[t] # NoTicket =>
             /\ engine.active[t] \in OpenIds(engine.open)
             /\ engine.open[engine.active[t]].ticker = t

\* The book's open risk is the sum of its tickets, also after a restore that
\* loads the same position from two sections of the snapshot.
RiskMatchesTickets ==
    stage # "down" =>
        engine.book.openRisk = Total(RiskOf(engine.book))

\* A sweep leaves no ticker the executor has a row for untracked, and no
\* ticker without one exitable or "in position".  A second position of such
\* a ticker may stay until the next sweep (the purge takes one per ticker).
SweptAgrees ==
    [][Sweep => /\ HeldTickers \subseteq Tracked(engine')
                /\ \A t \in Tickers \ HeldTickers :
                      ~engine'.rows[t].inPos /\ engine'.active[t] = NoTicket]_recoveryVars

\* A boot that reached the broker resurrects nothing: what the engine
\* restored from the snapshot is a ticker the broker has a position in.
NoGhostAfterBoot ==
    [][Restart(TRUE) => \A t \in Tracked(engine') : broker[t] # 0]_recoveryVars

\* What the snapshot has recorded of the day's trading is never taken back
\* by a later one, across any number of restarts: the kill stays latched
\* and the trades of a ticker do not decrease.
SnapshotNeverForgets ==
    [][/\ disk.book.killed => disk'.book.killed
       /\ \A t \in Tickers : disk.rows[t].trades <= disk'.rows[t].trades]_recoveryVars

\* Ghosts leave: a ticker without a row at the executor does not stay open
\* in the engine, even if several positions of it have piled up.
GhostsLeave ==
    \A t \in Tickers : held[t] = NoRow ~> (t \notin Tracked(engine) \/ held[t] # NoRow)

\* A position the executor has a row for comes under the engine's risk
\* accounting, however it got lost in a crash.
HeldGetsTracked ==
    \A t \in Tickers :
        held[t] # NoRow ~> ((stage # "down" /\ t \in Tracked(engine)) \/ held[t] = NoRow)

-----------------------------------------------------------------------------
(* What a comment of the repository says, and the code does not do.        *)

\* orb/persistence.py restores positions "so the exit engine can resume exit
\* management after a Railway redeploy mid-session": a swept engine finds
\* each position it tracks by its ticker.
RestoredCanExit ==
    stage = "swept" => \A t \in Tracked(engine) : engine.active[t] # NoTicket
=============================================================================
