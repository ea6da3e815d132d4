------------------------ MODULE BarStrategyManager ------------------------
(***************************************************************************)
(* The bar strategy framework (bar_strategy/manager.h, context.h,          *)
(* config_file.h) under the strategy engine (strategy_engine.h): the       *)
(* instances of the user's strategy B, one per instrument, their virtual   *)
(* positions, the attached accounts and the operator's commands.           *)
(*                                                                         *)
(* Everything runs on the engine's one thread: a handler (on_start, a      *)
(* tick, a UI command, on_stop) runs to its end before the next begins.    *)
(* Its calls of B and of the framework's own steps are the sequence todo,  *)
(* taken one at a time, because B may trade or throw in each of them.      *)
(*                                                                         *)
(* B is any program: in a callback it asks for at most one trade (several  *)
(* trades are several updates) and may throw.  Prices, bar contents, the   *)
(* daily relocation of the series buffers, the list and get commands, and  *)
(* what is written to the UI are left out; BarBuilder models the bars.     *)
(* A command that fails before it has changed anything is not a step.      *)
(***************************************************************************)
EXTENDS BarPosition, Sequences, FiniteSets, SequencesExt

CONSTANTS
    Instruments, Accounts,
    Scales,           \* the ratios the operator uses, all <= max_scale
    InitInstruments,  \* the configuration file the process starts with
    InitAccounts,
    max_lookback,     \* bars that fill the window
    Volumes,          \* volumes B asks for
    MaxNet,           \* bound: |net position| of an instance
    warmup_bars,      \* archived bars to replay at start
    FlattensInDestroy \* B closes its position in on_destroy

ASSUME ManagerAssumption ==
    /\ Scales \subseteq Nat \ {0}
    /\ InitInstruments \subseteq Instruments /\ InitInstruments # {}
    /\ max_lookback \in Nat \ {0}
    /\ IsFiniteSet(Instruments)
    /\ InitAccounts \in UNION {[S -> Scales] : S \in SUBSET Accounts}
    /\ MaxNet \in Nat /\ warmup_bars \in Nat /\ Volumes \subseteq Nat
    /\ FlattensInDestroy \in BOOLEAN

VARIABLES
    phase,       \* off, starting, running, exiting, stopping, stopped
    todo,        \* calls the running handler still has to make
    disk,        \* the configuration file: instruments and accounts
    accounts,    \* accounts_: attached account -> ratio
    nodes,       \* instruments_: instrument -> instance
    subscribed,  \* instruments subscribed at the market data gateway
    mirror,      \* the logical positions last reported to the UI
    real,        \* history: what the account holds once every order sent is filled
    untracked,   \* history: pairs whose orders were waived, skipped or refused
    owed         \* history: instances initialised and not yet destroyed

config == <<disk, accounts>>
orders == <<mirror, real, untracked>>
vars   == <<phase, todo, config, nodes, subscribed, orders, owed>>

Pairs == Accounts \X Instruments

Node == [net : -MaxNet..MaxNet, live : BOOLEAN, failed : BOOLEAN,
         bars : 0..(max_lookback + 1),   \* bars opened, counted up to the first past the window
         stage : BOOLEAN,                \* callback_stage_entered_
         pending : BOOLEAN,              \* params_update_pending_
         tick : BOOLEAN,                 \* the tick snapshot has prices
         fresh : BOOLEAN,                \* history: B has read the current parameters
         last : {"none", "close", "open", "update"}]  \* history: last bar callback

AccountTable == UNION {[S -> Scales] : S \in SUBSET Accounts}

Calls ==
    [f : {"create", "replay"}, i : Instruments, add : BOOLEAN, left : 0..warmup_bars]
    \cup [f : {"close", "open", "update"}, i : Instruments, replay : BOOLEAN]
    \cup [f : {"warmup", "commit", "params", "destroy", "remove", "rollback"}, i : Instruments]
    \cup [f : {"drain", "enter_live", "clear"}]

(* Every variable has its type. *)
TypeOK ==
    /\ phase \in {"off", "starting", "running", "exiting", "stopping", "stopped"}
    /\ \A k \in DOMAIN todo : todo[k] \in Calls
    /\ disk \in [instruments : SUBSET Instruments, accounts : AccountTable]
    /\ accounts \in AccountTable
    /\ DOMAIN nodes \subseteq Instruments
    /\ \A i \in DOMAIN nodes : nodes[i] \in Node
    /\ subscribed \subseteq Instruments
    /\ mirror \in [Pairs -> Int]
    /\ real \in [Pairs -> Int]
    /\ untracked \subseteq Pairs
    /\ owed \subseteq Instruments

Init ==
    /\ phase = "off" /\ todo = <<>>
    /\ disk = [instruments |-> InitInstruments, accounts |-> InitAccounts]
    /\ accounts = [a \in {} |-> 1]
    /\ nodes = [i \in {} |-> 0]
    /\ subscribed = {}
    /\ mirror = [p \in Pairs |-> 0]
    /\ real = [p \in Pairs |-> 0]
    /\ untracked = {}
    /\ owed = {}

-----------------------------------------------------------------------------
(* Small steps shared by the handlers. *)

Idle == todo = <<>>
Ready == phase = "running" /\ Idle
Calling(f) == todo # <<>> /\ Head(todo).f = f
Done == todo' = Tail(todo)

With(i, node) == [j \in DOMAIN nodes \cup {i} |-> IF j = i THEN node ELSE nodes[j]]
Without(i) == Restrict(nodes, DOMAIN nodes \ {i})

FreshNode(net) ==
    [net |-> net, live |-> FALSE, failed |-> FALSE, bars |-> 0, stage |-> FALSE,
     pending |-> FALSE, tick |-> FALSE, fresh |-> TRUE, last |-> "none"]

(* logical_position_for: what an account should hold for the strategy. *)
Target(a, i) ==
    IF a \in DOMAIN accounts /\ i \in DOMAIN nodes
    THEN logical_position(nodes[i].net, accounts[a]) ELSE 0

(* Orders placed: each pair's position moves by delta[p] unless its order is
   refused; a pair whose order did not go out is no longer tracked. *)
Place(delta, refused) ==
    LET moved == {p \in Pairs : delta[p] # 0}
        lost  == (moved \cap refused) \cup untracked
    IN  /\ untracked' = lost
        /\ real' = [p \in Pairs |-> IF p \in lost THEN 0 ELSE real[p] + delta[p]]

(* What one intent of B may make of a net position. *)
Trades(net) ==
    {net} \cup ({resolve_target(t, n, net) : t \in Intents, n \in Volumes}
                \cap (-MaxNet)..MaxNet)

(* fanout_positions: a live instance sends every account the difference of its
   logical positions and reports the new one; before that it only keeps books. *)
fanout_positions(i, net_after) ==
    LET n     == nodes[i]
        delta == [p \in Pairs |->
                    IF n.live /\ p[2] = i /\ p[1] \in DOMAIN accounts
                    THEN fanout_delta(n.net, net_after, accounts[p[1]]) ELSE 0]
    IN  /\ \E refused \in SUBSET {p \in Pairs : delta[p] # 0} : Place(delta, refused)
        /\ mirror' = [p \in Pairs |->
                        IF delta[p] # 0 THEN logical_position(net_after, accounts[p[1]])
                        ELSE mirror[p]]

(* publish_all_positions: every account's logical position, zero included. *)
publish_all_positions(S) ==
    mirror' = [p \in Pairs |-> IF p[2] \in S /\ p[1] \in DOMAIN accounts
                               THEN Target(p[1], p[2]) ELSE mirror[p]]

(* submit_sync_order for every pair of moved: it goes out when the instance is
   live and has a price (always, with `market`); the others are not synced. *)
Sync(delta, sync, market) ==
    LET out == {p \in Pairs : /\ delta[p] # 0 /\ sync
                              /\ nodes[p[2]].live /\ (market \/ nodes[p[2]].tick)}
    IN  \E refused \in SUBSET out :
            Place(delta, {p \in Pairs : delta[p] # 0 /\ p \notin out \ refused})

(* The logical positions change and nothing is sent (replayed positions). *)
NoOrders(delta) == Place(delta, Pairs)

-----------------------------------------------------------------------------
(* on_start, up to its blocking steps: configuration, subscription. *)

on_start ==
    /\ phase = "off"
    /\ accounts' = disk.accounts
    /\ subscribed' = disk.instruments
    /\ phase' = "starting"
    /\ LET ids == SetToSeq(disk.instruments)
       IN  todo' = [k \in DOMAIN ids |->
                       [f |-> "create", i |-> ids[k], add |-> FALSE, left |-> 0]]
                   \o [k \in DOMAIN ids |-> [f |-> "warmup", i |-> ids[k]]]
                   \o <<[f |-> "drain"], [f |-> "enter_live"]>>
    /\ UNCHANGED <<disk, nodes, orders, owed>>

(* The file is missing or invalid, or the subscription fails. *)
on_start_fails ==
    /\ phase = "off"
    /\ phase' = "exiting"
    /\ UNCHANGED <<todo, config, nodes, subscribed, orders, owed>>

(* One instance: metadata, then B's on_init, which may already trade (in the
   books only).  At a command a failure takes the subscription back. *)
create_instance ==
    /\ Calling("create")
    /\ LET c == Head(todo)
       IN  \/ \E net \in Trades(0) :
                 /\ nodes' = With(c.i, FreshNode(net))
                 /\ owed' = owed \cup {c.i}
                 /\ todo' = (IF c.add THEN <<[f |-> "warmup", i |-> c.i],
                                             [f |-> "commit", i |-> c.i]>>
                             ELSE <<>>) \o Tail(todo)
                 /\ UNCHANGED subscribed
           \/ /\ subscribed' = IF c.add THEN subscribed \ {c.i} ELSE subscribed
              /\ Done
              /\ UNCHANGED <<nodes, owed>>
    /\ UNCHANGED <<phase, config, orders>>

(* Only the newest warmup_bars bars are replayed. *)
ClippedHistory(bars) == IF bars > warmup_bars THEN warmup_bars ELSE bars

(* warmup_history_replay, warmup_single_instrument: the archive has more bars of
   the instrument than are wanted, fewer, or none (cold start). *)
warmup_history_replay ==
    /\ Calling("warmup")
    /\ LET i == Head(todo).i
       IN  IF i \in DOMAIN nodes
           THEN \E bars \in 0..(warmup_bars + 1) :
                   todo' = <<[f |-> "replay", i |-> i, add |-> FALSE,
                              left |-> ClippedHistory(bars)]>> \o Tail(todo)
           ELSE Done
    /\ UNCHANGED <<phase, config, nodes, subscribed, orders, owed>>

(* The events a tick of instrument i raises: a tick of a new bar closes the bar
   before it, if there is one, and every accepted tick is an update. *)
TickEvents(i, new_bar, replay) ==
    LET E(f) == [f |-> f, i |-> i, replay |-> replay]
    IN  IF ~new_bar THEN <<E("update")>>
        ELSE IF nodes[i].bars = 0 THEN <<E("open"), E("update")>>
        ELSE <<E("close"), E("open"), E("update")>>

(* One archived bar is fed as synthetic ticks: the first opens it, the other
   three are updates like the one shown. *)
replay_instrument_history ==
    /\ Calling("replay")
    /\ LET c == Head(todo)
       IN  IF c.left = 0 \/ nodes[c.i].failed THEN Done
           ELSE todo' = TickEvents(c.i, TRUE, TRUE)
                        \o <<[c EXCEPT !.left = @ - 1]>> \o Tail(todo)
    /\ UNCHANGED <<phase, config, nodes, subscribed, orders, owed>>

LiveInstance(i) == i \in DOMAIN nodes /\ ~nodes[i].failed

FeedTick(i) ==
    /\ LiveInstance(i)
    /\ \E new_bar \in BOOLEAN :
          /\ new_bar \/ nodes[i].bars > 0
          /\ todo' = TickEvents(i, new_bar, FALSE) \o todo
    /\ UNCHANGED <<phase, config, nodes, subscribed, orders, owed>>

(* The ticks that arrived during the replay are taken before going live. *)
drain_buffered_ticks ==
    /\ Calling("drain")
    /\ \/ \E i \in Instruments : FeedTick(i)
       \/ Done /\ UNCHANGED <<phase, config, nodes, subscribed, orders, owed>>

enter_live ==
    /\ Calling("enter_live")
    /\ nodes' = [i \in DOMAIN nodes |-> [nodes[i] EXCEPT !.live = ~nodes[i].failed]]
    /\ publish_all_positions(DOMAIN nodes)
    /\ NoOrders([p \in Pairs |-> Target(p[1], p[2])])
    /\ phase' = "running"
    /\ Done
    /\ UNCHANGED <<config, subscribed, owed>>

-----------------------------------------------------------------------------
(* Ticks and B's callbacks. *)

on_tick(i) == Ready /\ FeedTick(i)

CloseGateLate(bars) == bars > max_lookback
bar_callback_enabled(bars) == bars > max_lookback
close_callback_enabled(bars) == bars >= max_lookback
CallbackEnabled(f, bars) ==
    \/ f = "close" /\ close_callback_enabled(bars)
    \/ f # "close" /\ bar_callback_enabled(bars)

(* invoke_b, on_callback_delivered: B is called, may trade, may throw (which
   ends the instance); a parameter change it has missed follows. *)
Deliver(i, node, event) ==
    \E net \in Trades(node.net), throws \in BOOLEAN :
        /\ fanout_positions(i, net)
        /\ nodes' = With(i, [node EXCEPT !.net = net, !.failed = throws, !.last = event,
                                         !.stage = @ \/ ~throws,
                                         !.pending = @ /\ throws])
        /\ todo' = (IF node.pending /\ ~throws THEN <<[f |-> "params", i |-> i]>> ELSE <<>>)
                   \o Tail(todo)

(* A bar event: refreshes the tick snapshot (not from the archive), moves the
   window, and reaches B once the window is full. *)
Dispatch(f) ==
    /\ Calling(f)
    /\ LET c    == Head(todo)
           n    == nodes[c.i]
           bars == IF f = "open" /\ n.bars <= max_lookback THEN n.bars + 1 ELSE n.bars
           node == [n EXCEPT !.tick = @ \/ ~c.replay, !.bars = bars]
       IN  IF n.failed THEN Done /\ UNCHANGED <<nodes, orders>>
           ELSE IF CallbackEnabled(f, bars) THEN Deliver(c.i, node, f)
           ELSE nodes' = With(c.i, node) /\ Done /\ UNCHANGED orders
    /\ UNCHANGED <<phase, config, subscribed, owed>>

dispatch_bar_close  == Dispatch("close")
dispatch_bar_open   == Dispatch("open")
dispatch_bar_update == Dispatch("update")

(* on_params_update: B reads the parameters again. *)
invoke_params_update ==
    /\ Calling("params")
    /\ LET i == Head(todo).i
       IN  \E net \in Trades(nodes[i].net), throws \in BOOLEAN :
              /\ fanout_positions(i, net)
              /\ nodes' = [nodes EXCEPT ![i].net = net, ![i].failed = throws, ![i].fresh = TRUE]
    /\ Done
    /\ UNCHANGED <<phase, config, subscribed, owed>>

(* dispatch_on_destroy: the instance is still live, so that a B that flattens
   here sends orders; what it throws is only reported. *)
dispatch_on_destroy ==
    /\ Calling("destroy")
    /\ LET i == Head(todo).i
       IN  \E net \in {nodes[i].net} \cup
                      (IF FlattensInDestroy /\ ~nodes[i].failed THEN {0} ELSE {}) :
              /\ fanout_positions(i, net)
              /\ nodes' = [nodes EXCEPT ![i].net = net]
              /\ owed' = owed \ {i}
    /\ Done
    /\ UNCHANGED <<phase, config, subscribed>>

-----------------------------------------------------------------------------
(* The operator's commands (on_ui_input).  The configuration is written first
   (commit_config_with), memory changes after. *)

Commit(instruments, table) == disk' = [instruments |-> instruments, accounts |-> table]

run_instrument_add(i) ==
    /\ Ready /\ i \notin DOMAIN nodes
    /\ subscribed' = subscribed \cup {i}
    /\ todo' = <<[f |-> "create", i |-> i, add |-> TRUE, left |-> 0]>>
    /\ UNCHANGED <<phase, config, nodes, orders, owed>>

(* The end of instrument add: the file is written once the instance works; if
   that fails the instance is taken down again. *)
finish_instrument_add ==
    /\ Calling("commit")
    /\ LET i == Head(todo).i
       IN  \/ /\ Commit(disk.instruments \cup {i}, disk.accounts)
              /\ publish_all_positions({i})
              /\ NoOrders([p \in Pairs |-> IF p[2] = i THEN Target(p[1], i) ELSE 0])
              /\ nodes' = [nodes EXCEPT ![i].live = ~nodes[i].failed]
              /\ Done
           \/ /\ todo' = <<[f |-> "destroy", i |-> i], [f |-> "rollback", i |-> i]>>
              /\ UNCHANGED <<disk, nodes, orders>>
    /\ UNCHANGED <<phase, accounts, subscribed, owed>>

rollback_instrument_add ==
    /\ Calling("rollback")
    /\ nodes' = Without(Head(todo).i)
    /\ subscribed' = subscribed \ {Head(todo).i}
    /\ Done
    /\ UNCHANGED <<phase, config, orders, owed>>

(* The file must keep an instrument.  The closing orders go out before the
   instance is destroyed; its books are left as they are.  unsubscribe_one may
   fail, which is only reported. *)
run_instrument_del(i, sync, market) ==
    /\ Ready /\ i \in DOMAIN nodes
    /\ disk.instruments \ {i} # {}
    /\ Commit(disk.instruments \ {i}, disk.accounts)
    /\ Sync([p \in Pairs |-> IF p[2] = i THEN -Target(p[1], i) ELSE 0], sync, market)
    /\ subscribed' \in {subscribed, subscribed \ {i}}
    /\ todo' = <<[f |-> "destroy", i |-> i], [f |-> "remove", i |-> i]>>
    /\ UNCHANGED <<phase, accounts, nodes, mirror, owed>>

(* No zero is reported. *)
RemoveSilently ==
    /\ Calling("remove")
    /\ nodes' = Without(Head(todo).i)
    /\ Done
    /\ UNCHANGED <<phase, config, subscribed, orders, owed>>

(* The end of instrument del: zero for every attached account. *)
finish_instrument_del ==
    /\ Calling("remove")
    /\ LET i == Head(todo).i
       IN  /\ mirror' = [p \in Pairs |-> IF p[2] = i /\ p[1] \in DOMAIN accounts
                                         THEN 0 ELSE mirror[p]]
           /\ nodes' = Without(i)
    /\ Done
    /\ UNCHANGED <<phase, config, subscribed, real, untracked, owed>>

(* Attach an account or change its ratio: report its new logical positions,
   then, with `sync`, send the difference to the old ones. *)
Rescale(a, scale, sync, market) ==
    LET table == [b \in DOMAIN accounts \cup {a} |-> IF b = a THEN scale ELSE accounts[b]]
        L(i)  == IF i \in DOMAIN nodes THEN logical_position(nodes[i].net, scale) ELSE 0
    IN  /\ Commit(disk.instruments, table)
        /\ accounts' = table
        /\ mirror' = [p \in Pairs |-> IF p[1] = a /\ p[2] \in DOMAIN nodes
                                      THEN L(p[2]) ELSE mirror[p]]
        /\ Sync([p \in Pairs |-> IF p[1] = a THEN L(p[2]) - Target(a, p[2]) ELSE 0],
                sync, market)
        /\ UNCHANGED <<phase, todo, nodes, subscribed, owed>>

run_account_add(a, scale, sync, market) ==
    /\ Ready /\ a \notin DOMAIN accounts
    /\ Rescale(a, scale, sync, market)

run_account_set(a, scale, sync, market) ==
    /\ Ready /\ a \in DOMAIN accounts /\ accounts[a] # scale
    /\ Rescale(a, scale, sync, market)

(* Detach an account; its positions are zeroed with one wildcard report. *)
run_account_del(a, sync, market) ==
    /\ Ready /\ a \in DOMAIN accounts
    /\ Commit(disk.instruments, Restrict(accounts, DOMAIN accounts \ {a}))
    /\ Sync([p \in Pairs |-> IF p[1] = a THEN -Target(a, p[2]) ELSE 0], sync, market)
    /\ accounts' = Restrict(accounts, DOMAIN accounts \ {a})
    /\ mirror' = [p \in Pairs |-> IF p[1] = a THEN 0 ELSE mirror[p]]
    /\ UNCHANGED <<phase, todo, nodes, subscribed, owed>>

(* dispatch_params_update: instances in their callback stage are told now, the
   others keep one pending update. *)
run_param_set ==
    /\ Ready
    /\ LET live == {i \in DOMAIN nodes : ~nodes[i].failed}
           now  == SetToSeq({i \in live : nodes[i].stage})
       IN  /\ nodes' = [i \in DOMAIN nodes |->
                          IF i \in live
                          THEN [nodes[i] EXCEPT !.fresh = FALSE, !.pending = ~nodes[i].stage]
                          ELSE nodes[i]]
           /\ todo' = [k \in DOMAIN now |-> [f |-> "params", i |-> now[k]]]
    /\ UNCHANGED <<phase, config, subscribed, orders, owed>>

run_quit ==
    /\ Ready
    /\ phase' = "exiting"
    /\ UNCHANGED <<todo, config, nodes, subscribed, orders, owed>>

(* on_stop, after should_exit or a SHUTDOWN frame: the last handler. *)
on_stop ==
    /\ phase \in {"running", "exiting"} /\ Idle
    /\ phase' = "stopping"
    /\ LET ids == SetToSeq(DOMAIN nodes)
       IN  todo' = [k \in DOMAIN ids |-> [f |-> "destroy", i |-> ids[k]]] \o <<[f |-> "clear"]>>
    /\ UNCHANGED <<config, nodes, subscribed, orders, owed>>

finish_stop ==
    /\ Calling("clear")
    /\ phase' = "stopped"
    /\ nodes' = [i \in {} |-> 0]
    /\ Done
    /\ UNCHANGED <<config, subscribed, orders, owed>>

Next ==
    \/ on_start \/ on_start_fails
    \/ create_instance \/ warmup_history_replay \/ replay_instrument_history
    \/ drain_buffered_ticks \/ enter_live
    \/ \E i \in Instruments : on_tick(i) \/ run_instrument_add(i)
    \/ dispatch_bar_close \/ dispatch_bar_open \/ dispatch_bar_update
    \/ invoke_params_update \/ dispatch_on_destroy
    \/ finish_instrument_add \/ rollback_instrument_add \/ finish_instrument_del
    \/ \E sync, market \in BOOLEAN :
          \/ \E i \in Instruments : run_instrument_del(i, sync, market)
          \/ \E a \in Accounts : \/ run_account_del(a, sync, market)
                                 \/ \E s \in Scales : \/ run_account_add(a, s, sync, market)
                                                      \/ run_account_set(a, s, sync, market)
    \/ run_param_set \/ run_quit \/ on_stop \/ finish_stop

Spec == Init /\ [][Next]_vars

-----------------------------------------------------------------------------
(* Properties. *)

(* Between two handlers of a running strategy the UI shows, for every account
   and instrument, exactly the logical position the books give: whatever the
   order of trades, attachments, changes of ratio and removals, nothing is
   left over and nothing is missing (publish_position's callers). *)
MirrorIsLedger ==
    Ready => \A p \in Pairs : mirror[p] = Target(p[1], p[2])

(* As long as no order of a pair was waived (nosync, replayed position),
   skipped or refused, the orders sent add up to the logical position:
   rounding never drifts, and sync commands send what they must, once. *)
OrdersFollowLedger ==
    Ready => \A p \in Pairs \ untracked : real[p] = Target(p[1], p[2])

(* A replayed position is virtual: while an instance is not live its account
   positions and reports do not move, except when it goes live. *)
ReplayIsVirtual ==
    [][\A p \in Pairs : real'[p] # real[p] /\ p \notin untracked'
                        => p[2] \in DOMAIN nodes /\ nodes[p[2]].live]_vars

(* A command either changes memory and the file or neither: between handlers
   the attached accounts are those of the file, and every instance is of a
   configured and subscribed instrument, so that a restart comes back to
   the same table ("先写盘成功，再改内存"). *)
FileIsMemory ==
    Ready => /\ disk.accounts = accounts
             /\ DOMAIN nodes \subseteq disk.instruments
             /\ DOMAIN nodes \subseteq subscribed

(* B sees whole bars: its first bar callback is the close of the last silent
   bar, then open and update follow in turn; the two gates, one tested
   before the window moves and one after, never let an open through whose
   close was withheld. *)
CallbackOrder ==
    [][\A i \in DOMAIN nodes \cap DOMAIN nodes' :
          nodes'[i].last # nodes[i].last =>
              <<nodes[i].last, nodes'[i].last>> \in
                 {<<"none", "close">>, <<"close", "open">>, <<"open", "update">>,
                  <<"update", "close">>}]_vars

(* B never works on with parameters it has not been told about: between
   handlers an instance has read the current ones, or is still silent and has
   exactly one update waiting; an update is delivered only for a change. *)
ParamsReachEveryInstance ==
    /\ Ready => \A i \in DOMAIN nodes :
                   nodes[i].failed \/ nodes[i].fresh \/ (nodes[i].pending /\ ~nodes[i].stage)
    /\ Calling("params") => ~nodes[Head(todo).i].fresh

(* Every instance whose on_init returned gets on_destroy exactly once: at
   instrument del, at a rolled back instrument add, or at the end. *)
DestroyedOnce ==
    /\ Calling("destroy") => Head(todo).i \in owed
    /\ Ready => owed = DOMAIN nodes
    /\ phase = "stopped" => owed = {}

(* The tables a command touches agree with each other between two handlers: the
   positions shown, the configuration file and the instances to be destroyed. *)
StructureOK ==
    /\ TypeOK
    /\ MirrorIsLedger
    /\ FileIsMemory
    /\ DestroyedOnce

(* manager.h dispatch_bar_close, replay_instrument_history: what an instance is
   called with is in order and told of every change of the parameters, and what
   it does before it is live is not sent. *)
InstanceProtocol == CallbackOrder /\ ReplayIsVirtual /\ []ParamsReachEveryInstance

=============================================================================
