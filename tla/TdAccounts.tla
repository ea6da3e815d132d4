----------------------------- MODULE TdAccounts -----------------------------
(***************************************************************************)
(* The trading accounts of the platform.  Every trading gateway keeps the  *)
(* configuration of its own accounts (ctp/td/td_api_config.cpp) and        *)
(* reports it whole after every request to change it.  The web server      *)
(* projects these reports into one registry, account to gateway, in memory *)
(* and in platform.db (td_account_registry.cpp), checks requests against   *)
(* it (td_account_controller.cpp) and passes reports on; a browser loads   *)
(* the registry by request and shows it with the configurations it was     *)
(* sent (tdAccounts.ts).                                                   *)
(*                                                                         *)
(* The configuration of an account is "none", "on" or "off".  Frames are   *)
(* applied in the order they were written (for the exception see           *)
(* WebMirror).  The master is external.                                    *)
(***************************************************************************)
EXTENDS Integers, Sequences, FiniteSets, Functions

CONSTANTS Gateways, Accounts,
          MaxSubmits,     \* bound: operations of the browser
          MaxTurns        \* bound: starts, exits, sessions, added and removed gateways,
                          \* failing writes, lost connections, restarts of the server

(* The master is a process too, and no gateway is called like it. *)
ASSUME AccountAssumption == "master" \notin Gateways

VARIABLES own,        \* config_ of every gateway
          live,       \* external: the gateways in the master's configuration
          up,         \* external: those that run
          active,     \* accounts with a session
          toGw,       \* TD_REQ_MODIFY_CONFIG on their way
          asked,      \* QUERY_FULL_SNAPSHOT not answered yet
          frames,     \* frames the server has not applied
          entries,    \* TdAccountRegistry::entries_
          snapshot,   \* has_snapshot_
          configs,    \* the domain td_config of the mirror
          store,      \* the table td_account_registry
          linked, sent,          \* the WebSocket, and what is sent on it
          list,                  \* the store of the browser
          loads, retry,          \* its last request for the registry, and when to repeat it
          waiting, posts,        \* its pending keys, and its requests that are not answered well
          submits, turns,
          contested,  \* ghost: accounts two gateways had at the same time
          unsaved,    \* ghost: gateways with rows that could not be written, removed or read
          stray,      \* ghost: gateways that reported when not configured, or were pruned
          unseen,     \* ghost: the browser missed a data_changed
          ignored     \* ghost: requests that reached no running gateway

gateways == <<own, live, up, active, toGw, asked>>
registry == <<entries, snapshot, configs, store>>
page     == <<list, loads, retry, waiting, posts, submits>>
accountVars == <<gateways, frames, registry, linked, sent, page, turns,
                 contested, unsaved, stray, unseen, ignored>>

-----------------------------------------------------------------------------
Put(f, x, v) == [y \in DOMAIN f \cup {x} |-> IF y = x THEN v ELSE f[y]]

Holds(conf) == {a \in Accounts : conf[a] # "none"}
Report(g) == [k |-> "config", g |-> g, conf |-> own'[g]]
Processes == [k |-> "processes", live |-> live']

Turn == turns < MaxTurns /\ turns' = turns + 1

-----------------------------------------------------------------------------
(* The trading gateway. *)

(* An account that is there cannot be added, one that is not cannot be
   changed; removing one that is not there changes nothing. *)
apply_config_op(conf, c) ==
    CASE c.op = "add"    -> IF conf[c.a] = "none" THEN [conf EXCEPT ![c.a] = "on"] ELSE conf
      [] c.op = "update" -> IF conf[c.a] = "none" THEN conf ELSE [conf EXCEPT ![c.a] = c.to]
      [] OTHER           -> [conf EXCEPT ![c.a] = "none"]

is_connection_op(op) == op \in {"update", "remove"}

(* Refused, not saved and rolled back, or done: the configuration is reported
   each time.  A gateway that does not run never reads the request. *)
apply_config_change ==
    LET c == Head(toGw)
        refused == is_connection_op(c.op) /\ <<c.g, c.a>> \in active
    IN /\ toGw # <<>> /\ toGw' = Tail(toGw)
       /\ IF c.g \notin up
          THEN /\ ignored' = ignored \cup {<<c.g, c.a, c.op>>}
               /\ UNCHANGED <<own, frames, turns>>
          ELSE /\ \/ own' = [own EXCEPT ![c.g] = IF refused THEN @ ELSE apply_config_op(@, c)]
                     /\ UNCHANGED turns
                  \/ ~ refused /\ Turn /\ UNCHANGED own
               /\ frames' = Append(frames, Report(c.g))
               /\ UNCHANGED ignored
       /\ contested' = contested \cup {a \in Accounts :
                         \E g, h \in Gateways : g # h /\ a \in Holds(own'[g]) \cap Holds(own'[h])}
       /\ UNCHANGED <<live, up, active, asked, registry, linked, sent, page,
                      unsaved, stray, unseen>>

Others == UNCHANGED <<registry, linked, sent, page, contested, unsaved, unseen, ignored>>

(* report_full_snapshot, at the start and when it is asked for. *)
GatewayStarts(g) ==
    /\ g \in live \ up /\ Turn /\ up' = up \cup {g}
    /\ UNCHANGED <<own, live, active, toGw, asked, stray>>
    /\ frames' = Append(frames, Report(g))
    /\ Others

GatewayAnswers(g) ==
    /\ g \in asked \cap up /\ asked' = asked \ {g}
    /\ UNCHANGED <<own, live, up, active, toGw, turns, stray>>
    /\ frames' = Append(frames, Report(g))
    /\ Others

GatewayExits(g) ==
    /\ g \in up /\ Turn /\ up' = up \ {g} /\ asked' = asked \ {g}
    /\ active' = {x \in active : x[1] # g}
    /\ UNCHANGED <<own, live, toGw, frames, stray>> /\ Others

SessionChanges(g, a) ==
    /\ g \in up /\ Turn
    /\ IF <<g, a>> \in active THEN active' = active \ {<<g, a>>}
       ELSE own[g][a] = "on" /\ active' = active \cup {<<g, a>>}
    /\ UNCHANGED <<own, live, up, toGw, asked, frames, stray>> /\ Others

(* The master: a gateway is configured or removed, or the server asked. *)
MasterReports ==
    /\ \/ \E g \in Gateways : /\ Turn /\ UNCHANGED asked
                              /\ live' = IF g \in live THEN live \ {g} ELSE live \cup {g}
                              /\ stray' = IF g \in live THEN stray \cup {g} ELSE stray
       \/ "master" \in asked /\ asked' = asked \ {"master"} /\ UNCHANGED <<live, turns, stray>>
    /\ UNCHANGED <<own, up, active, toGw>>
    /\ frames' = Append(frames, Processes)
    /\ Others

-----------------------------------------------------------------------------
(* TdAccountRegistry. *)

(* The plausible bug: what is no longer reported stays. *)
ReconcileMerges(es, g, conf) ==
    [a \in DOMAIN es \cup Holds(conf) |->
        IF a \in Holds(conf) THEN [gw |-> g, on |-> conf[a] = "on"] ELSE es[a]]

reconcile_gateway(es, g, conf) ==
    [a \in {b \in DOMAIN es : es[b].gw # g} \cup Holds(conf) |->
        IF a \in Holds(conf) THEN [gw |-> g, on |-> conf[a] = "on"] ELSE es[a]]

Owners(es) == {es[a].gw : a \in DOMAIN es}

(* The accounts a report takes over from other gateways. *)
Taken(g, conf) == {a \in Holds(conf) \cap DOMAIN entries : entries[a].gw # g}

Owned(es, g) == Restrict(es, {a \in DOMAIN es : es[a].gw = g})

replace_gateway(rows, g, as) ==
    [a \in {b \in DOMAIN rows : rows[b] # g} \cup as |-> IF a \in as THEN g ELSE rows[a]]

prune_gateways_not_in(es, names) == Restrict(es, {a \in DOMAIN es : es[a].gw \in names})

load(rows) == [a \in DOMAIN rows |-> [gw |-> rows[a], on |-> TRUE]]

available == snapshot \/ entries # <<>>

-----------------------------------------------------------------------------
(* The frames as the server applies them. *)
Broadcast(msgs) == sent' = IF linked THEN sent \o msgs ELSE sent
Notice(changed) == IF changed THEN <<[t |-> "data_changed"]>> ELSE <<>>

(* on_rtn_td_config: mirror, registry, table, then the two messages. *)
on_rtn_td_config(f) ==
    LET changed == Owned(entries', f.g) # Owned(entries, f.g)
    IN /\ configs' = Put(configs, f.g, f.conf) /\ snapshot' = TRUE
       /\ entries' = reconcile_gateway(entries, f.g, f.conf)
       /\ \/ store' = replace_gateway(store, f.g, Holds(f.conf)) /\ unsaved' = unsaved \ {f.g}
             /\ UNCHANGED turns
          \/ Turn /\ UNCHANGED store
             /\ unsaved' = unsaved \cup {f.g} \cup Owners(Restrict(entries, Taken(f.g, f.conf)))
       /\ Broadcast(Notice(changed) \o <<[t |-> "config", g |-> f.g, conf |-> f.conf]>>)
       /\ unseen' = (unseen \/ (changed /\ ~ linked))
       /\ stray' = IF f.g \in live THEN stray \ {f.g} ELSE stray \cup {f.g}

(* on_rtn_process_config: the entries and the rows of the gateways that left. *)
on_rtn_process_config(f) ==
    LET gone == Owners(entries) \ f.live
    IN /\ entries' = prune_gateways_not_in(entries, f.live)
       /\ \E failed \in SUBSET gone :
            /\ store' = Restrict(store, {a \in DOMAIN store : store[a] \notin gone \ failed})
            /\ unsaved' = unsaved \cup failed
            /\ IF failed = {} THEN UNCHANGED turns ELSE Turn
       /\ Broadcast(Notice(gone # {}))
       /\ unseen' = (unseen \/ (gone # {} /\ ~ linked))
       /\ stray' = stray \cup gone
       /\ UNCHANGED <<configs, snapshot>>

ApplyFrame ==
    /\ frames # <<>> /\ frames' = Tail(frames)
    /\ LET f == Head(frames)
       IN \/ f.k = "config" /\ on_rtn_td_config(f)
          \/ f.k = "processes" /\ on_rtn_process_config(f)
    /\ UNCHANGED <<gateways, linked, page, contested, ignored>>

-----------------------------------------------------------------------------
(* TdAccountCtrl. *)
check_gateway_ready(g) == g \in live /\ g \in up

(* A good answer changes nothing in the browser.
   create: the account must be new to the whole platform.  update and remove
   find the gateway in the registry, whatever the browser believes. *)
Admitted(r) ==
    CASE r.op = "add" -> check_gateway_ready(r.g) /\ r.a \notin DOMAIN entries
      [] OTHER        -> r.a \in DOMAIN entries /\ check_gateway_ready(entries[r.a].gw)

Target(r) == IF r.op = "add" THEN r.g ELSE entries[r.a].gw

dispatch(r) ==
    /\ r.at = "server"
    /\ \/ /\ Admitted(r)
          /\ toGw' = Append(toGw, [g |-> Target(r), op |-> r.op, a |-> r.a, to |-> r.to])
          /\ posts' = posts \ {r}
          /\ ignored' = IF Target(r) = r.g THEN ignored ELSE ignored \cup {<<r.g, r.a, r.op>>}
       \/ /\ posts' = (posts \ {r}) \cup {[r EXCEPT !.at = "failed"]}
          /\ UNCHANGED <<toGw, ignored>>
    /\ UNCHANGED <<own, live, up, active, asked, frames, registry, linked, sent, list, loads, retry,
                   waiting, submits, turns, contested, unsaved, stray, unseen>>

(* GET /api/td/accounts. *)
AnswerList(l) ==
    /\ l.at = "server"
    /\ \/ loads' = (loads \ {l}) \cup {[l EXCEPT !.at = "answer", !.avail = available, !.reg = entries]}
          /\ UNCHANGED turns
       \/ Turn /\ loads' = (loads \ {l}) \cup {[l EXCEPT !.at = "failed"]}
    /\ UNCHANGED <<gateways, frames, registry, linked, sent, list, retry, waiting, posts, submits,
                   contested, unsaved, stray, unseen, ignored>>

-----------------------------------------------------------------------------
(* The page of the browser. *)
loadRegistry == loads' = {[at |-> "server", avail |-> FALSE, reg |-> <<>>]}

settle(keys) == waiting' = waiting \ keys /\ ignored' = ignored \ keys

KeysOf(g) == {k \in waiting : k[1] = g}

(* Only the answer to the last request counts (generation), so that the
   others are left out; anything but a list is asked for again later. *)
TakeList(l) ==
    /\ l.at \in {"answer", "failed"} /\ loads' = loads \ {l}
    /\ IF l.at = "answer" /\ l.avail
       THEN retry' = FALSE /\ list' = [list EXCEPT !.avail = TRUE, !.reg = l.reg]
       ELSE retry' = TRUE /\ list' = IF l.at = "failed" THEN list ELSE [list EXCEPT !.avail = FALSE]
    /\ UNCHANGED <<gateways, frames, registry, linked, sent, waiting, posts, submits, turns,
                   contested, unsaved, stray, unseen, ignored>>

Retry ==
    /\ retry /\ retry' = FALSE /\ loadRegistry /\ unseen' = FALSE
    /\ UNCHANGED <<gateways, frames, registry, linked, sent, list, waiting, posts, submits, turns,
                   contested, unsaved, stray, ignored>>

(* gatewayOf: the registry, or a configuration that has the account. *)
gatewayOf(a) ==
    IF a \in DOMAIN list.reg THEN {list.reg[a].gw}
    ELSE {g \in DOMAIN list.confs : a \in Holds(list.confs[g])}

Submit(g, a, op, to) ==
    /\ submits < MaxSubmits /\ submits' = submits + 1
    /\ IF op = "add" THEN list.avail => a \notin DOMAIN list.reg ELSE g \in gatewayOf(a)
    /\ <<g, a, op>> \notin waiting
    /\ waiting' = waiting \cup {<<g, a, op>>}
    /\ posts' = posts \cup {[n |-> submits, g |-> g, a |-> a, op |-> op, to |-> to, at |-> "server"]}
    /\ UNCHANGED <<gateways, frames, registry, linked, sent, list, loads, retry, turns,
                   contested, unsaved, stray, unseen, ignored>>

Respond(r) ==
    /\ r.at = "failed" /\ posts' = posts \ {r}
    /\ settle({<<r.g, r.a, r.op>>})
    /\ UNCHANGED <<gateways, frames, registry, linked, sent, list, loads, retry, submits, turns,
                   contested, unsaved, stray, unseen>>

Timeout(key) ==
    /\ key \in waiting /\ settle({key})
    /\ UNCHANGED <<gateways, frames, registry, linked, sent, list, loads, retry, posts, submits, turns,
                   contested, unsaved, stray, unseen>>

(* applyTdConfig ends every operation on that gateway; a snapshot is one
   applyTdConfig for each gateway in it. *)
applyTdConfig(confs) ==
    /\ list' = [list EXCEPT !.confs = [g \in DOMAIN @ \cup DOMAIN confs |->
                                          IF g \in DOMAIN confs THEN confs[g] ELSE @[g]]]
    /\ settle(UNION {KeysOf(g) : g \in DOMAIN confs})

Receive ==
    /\ sent # <<>> /\ sent' = Tail(sent)
    /\ LET m == Head(sent)
       IN \/ m.t = "data_changed" /\ loadRegistry /\ UNCHANGED <<list, waiting, ignored>>
          \/ m.t = "config" /\ applyTdConfig([g \in {m.g} |-> m.conf]) /\ UNCHANGED loads
          \/ m.t = "snapshot" /\ applyTdConfig(m.confs) /\ UNCHANGED loads
    /\ UNCHANGED <<gateways, frames, registry, linked, retry, posts, submits, turns,
                   contested, unsaved, stray, unseen>>

Connect ==
    /\ ~ linked /\ linked' = TRUE /\ sent' = <<[t |-> "snapshot", confs |-> configs]>>
    /\ UNCHANGED <<gateways, frames, registry, page, turns, contested, unsaved, stray, unseen, ignored>>

Disconnect ==
    /\ linked /\ Turn /\ linked' = FALSE
    /\ unseen' = (unseen \/ \E i \in DOMAIN sent : sent[i].t = "data_changed") /\ sent' = <<>>
    /\ UNCHANGED <<gateways, frames, registry, page, contested, unsaved, stray, ignored>>

(* The server starts again: from the table, or from nothing when it cannot
   be read. *)
ServerRestarts ==
    /\ Turn
    /\ frames' = <<>> /\ configs' = <<>> /\ snapshot' = FALSE
    /\ \/ entries' = load(store) /\ UNCHANGED unsaved
       \/ entries' = <<>> /\ unsaved' = Gateways
    /\ asked' = up \cup {"master"}
    /\ linked' = FALSE /\ sent' = <<>> /\ unseen' = TRUE /\ ignored' = ignored \cup waiting
    /\ loads' = {IF l.at = "server" THEN [l EXCEPT !.at = "failed"] ELSE l : l \in loads}
    /\ posts' = {IF r.at = "server" THEN [r EXCEPT !.at = "failed"] ELSE r : r \in posts}
    /\ UNCHANGED <<own, live, up, active, toGw, store, list, retry, waiting, submits, contested, stray>>

-----------------------------------------------------------------------------
(* One gateway has the accounts, or none has them; the server has heard of
   all and the page shows it. *)
AccountInit ==
    /\ \E has \in BOOLEAN :
         LET first == CHOOSE g \in Gateways : TRUE
         IN own = [g \in Gateways |-> [a \in Accounts |-> IF g = first /\ has THEN "on" ELSE "none"]]
    /\ live = Gateways /\ up = Gateways /\ active = {} /\ toGw = <<>>
    /\ asked = {} /\ frames = <<>>
    /\ store = [a \in {b \in Accounts : \E g \in Gateways : b \in Holds(own[g])} |->
                  CHOOSE g \in Gateways : a \in Holds(own[g])]
    /\ entries = load(store) /\ snapshot = TRUE /\ configs = own
    /\ linked = TRUE /\ sent = <<>>
    /\ list = [reg |-> entries, avail |-> TRUE, confs |-> own]
    /\ loads = {} /\ retry = FALSE /\ waiting = {} /\ posts = {}
    /\ submits = 0 /\ turns = 0
    /\ contested = {} /\ unsaved = {} /\ stray = {} /\ unseen = FALSE /\ ignored = {}

AccountNext ==
    \/ apply_config_change
    \/ \E g \in Gateways : GatewayStarts(g) \/ GatewayAnswers(g) \/ GatewayExits(g)
                             \/ (\E a \in Accounts : SessionChanges(g, a))
    \/ MasterReports
    \/ ApplyFrame
    \/ \E r \in posts : dispatch(r) \/ Respond(r)
    \/ \E l \in loads : AnswerList(l) \/ TakeList(l)
    \/ \E g \in Gateways, a \in Accounts, op \in {"add", "update", "remove"}, to \in {"on", "off"} :
         (op = "update" \/ to = "on") /\ Submit(g, a, op, to)
    \/ \E key \in waiting : Timeout(key)
    \/ Retry \/ Receive \/ Connect \/ Disconnect \/ ServerRestarts

AccountSpec == AccountInit /\ [][AccountNext]_accountVars

-----------------------------------------------------------------------------
AccountTypeOK ==
    /\ DOMAIN entries \subseteq Accounts /\ DOMAIN store \subseteq Accounts
    /\ \A g \in Gateways : own[g] \in [Accounts -> {"none", "on", "off"}]
    /\ Cardinality(loads) <= 1

Quiet == frames = <<>> /\ asked = {}

(* td_account_registry.cpp: when every frame is applied, an account that only
   one gateway ever had at a time is in the registry exactly when a configured
   gateway has it, under that gateway and as it is enabled there. *)
RegistryFollows ==
    Quiet => \A a \in Accounts \ contested :
        /\ \A g \in live \ stray : a \in Holds(own[g]) /\ (g \in up \/ g \in DOMAIN configs) =>
              a \in DOMAIN entries /\ entries[a].gw = g
        /\ a \in DOMAIN entries /\ entries[a].gw \notin stray =>
              LET g == entries[a].gw
              IN /\ g \in live
                 /\ g \in DOMAIN configs => a \in Holds(own[g]) /\ entries[a].on = (own[g][a] = "on")

(* The table holds what the memory holds, gateway by gateway, unless a write
   that was to add or remove rows of that gateway has failed: a restart
   forgets nothing and brings nothing back, also of an account that two
   gateways claim. *)
StoreFollows ==
    \A a \in Accounts, g \in Gateways \ unsaved :
        (a \in DOMAIN store /\ store[a] = g) <=> (a \in DOMAIN entries /\ entries[a].gw = g)

(* tdAccounts.ts: a page that has received everything shows the registry,
   whatever requests crossed on the way, unless it was not connected when the
   registry changed. *)
ListFollows ==
    linked /\ sent = <<>> /\ loads = {} /\ ~ retry /\ ~ unseen =>
        /\ list.avail /\ list.reg = entries
        /\ \A g \in DOMAIN configs : g \in DOMAIN list.confs /\ list.confs[g] = configs[g]

(* td_api_config.cpp apply_config_change: every request is answered, so that
   no operation waits for its timeout, unless its gateway did not run, the
   registry gave it to another gateway than the page, or the server restarted. *)
SubmitsAnswered ==
    Quiet /\ toGw = <<>> /\ posts = {} /\ linked /\ sent = <<>> => waiting \subseteq ignored

RegistryHonest == AccountTypeOK /\ RegistryFollows /\ StoreFollows /\ ListFollows /\ SubmitsAnswered
=============================================================================
