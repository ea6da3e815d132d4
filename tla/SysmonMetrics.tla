--------------------------- MODULE SysmonMetrics ---------------------------
(***************************************************************************)
(* What the system monitor measures and says at every tick                 *)
(* (apps/sysmon/main.cpp): gauges, rates against a baseline, the CPU with   *)
(* its saturation tracker, the threshold log (thresholds.cpp) and the      *)
(* snapshot it publishes (snapshot_builder.cpp).                           *)
(*                                                                         *)
(* A gauge reading is Null or a level; a volume list gives the free level  *)
(* of every mount.  Of the CPU counters only the class of their difference *)
(* to the baseline is kept: unusable, below or above the threshold.        *)
(***************************************************************************)
EXTENDS Integers, Sequences, FiniteSets

CONSTANTS
    Kinds,            \* bound: the family of readings that varies
    Cores, Mounts, Devices,
    Virtual,          \* devices that are hidden when the configuration says so
    MaxLevel,         \* levels of a gauge, the threshold among them
    MaxCounter,       \* cumulative counters
    Repeats,          \* log_repeat_sec
    Sustains,         \* cpu_sustain_samples
    MaxClock, MaxSets,\* bounds
    Null,             \* nothing was read
    Nothing,          \* read, but there is no such thing as a swap or memory
    Gone              \* switched off, or the object has vanished

(* The bounds, and that the three marks are none of the values beside them:
   levels, findings, tables of a reading, alarms. *)
ASSUME MetricsAssumption ==
    /\ Kinds \subseteq {"gauges", "memory", "swap", "volumes", "disk_io", "network", "cpu"}
    /\ {MaxLevel, MaxCounter, MaxClock, MaxSets} \subseteq Nat
    /\ Repeats \subseteq Nat /\ Sustains \subseteq Nat \ {0}
    /\ Virtual \subseteq Devices
    /\ {Null, Gone} \cap BOOLEAN = {} /\ {Null, Nothing} \cap Nat = {}
    /\ Null # Gone /\ Null # Nothing
    /\ Null \notin {"high", "low"}
    /\ \A ds \in SUBSET Devices : /\ Null \notin [ds -> Nat \cup {Null}]
                                  /\ Null \notin [at : Nat, sample : [ds -> Nat]]
    /\ Null \notin [since : Nat, milestone : Nat, every : Nat]

VARIABLES
    kind,       \* the family that varies in this behaviour
    clock, deadline, sets,
    conf,       \* groups, level (threshold), repeat, sustain, hidden
    gauge,      \* temperature, frequency, memory, swap, volumes, shm_dir, load
    rate,       \* disk_io and network, with their baselines
    cpu, tracker,
    alarms,     \* states_ of ThresholdEvaluator
    missed,
    raw,        \* history: the readings of the last tick
    logbook,    \* history: what the log says of every subject
    growth,     \* history: counters at the first sample, and what was published
    runs        \* history: high usages in a row, per core

metrics == <<gauge, rate, cpu, tracker, alarms, missed>>
told    == <<raw, logbook, growth, runs>>
mvars   == <<kind, clock, deadline, sets, conf, metrics, told>>

Gauges  == {"temperature", "frequency", "memory", "swap", "volumes", "shm_dir", "load"}
Rates   == {"disk_io", "network"}
Groups  == (Gauges \ {"shm_dir", "load"}) \cup Rates \cup {"cpu"}
Family(k) == IF k = "gauges" THEN {"temperature", "frequency", "cpu"} ELSE {k}

----------------------------------------------------------------------------
(* The collectors: a reading fails as a whole (Null), and a single volume,
   device or core may be missing or unreadable. *)

Levels == 0..MaxLevel

(* A level, or the fact that there is no memory or swap at all. *)
collect_usage == {Null, Nothing} \cup Levels

read_temperatures == {Null, 1}
read_core_frequencies == {Null, 1}
read_shm_dir == {Null, 1}
read_load_average == {Null, 1}

read_volumes == {Null} \cup UNION {[ms -> Levels \cup {Null}] : ms \in SUBSET Mounts}

Counters == {Null} \cup UNION {[ds -> 0..MaxCounter] : ds \in (SUBSET Devices) \ {{}}}
read_disk_io == Counters
read_network == Counters

read_cpu_times ==
    {Null} \cup [cores : SUBSET Cores, high : SUBSET Cores, bad : SUBSET Cores,
                 total : BOOLEAN, switches : BOOLEAN]

(* Bound: only the readings of one family vary, and what a reading says of
   absent cores does not count; the totals fail with a core. *)
Canonical(t) ==
    t = Null \/ (t.high \cup t.bad \subseteq t.cores /\ t.high \cap t.bad = {}
                   /\ t.total = t.switches /\ t.total = (t.bad = {}))

Collected(k) ==
    CASE k = "gauges"  -> [temperature : read_temperatures, frequency : read_core_frequencies,
                           shm_dir : read_shm_dir, load : read_load_average]
      [] k = "memory"  -> [memory : collect_usage]
      [] k = "swap"    -> [swap : collect_usage]
      [] k = "volumes" -> [volumes : read_volumes]
      [] k = "disk_io" -> [disk_io : read_disk_io]
      [] k = "network" -> [network : read_network]
      [] OTHER         -> [cpu : {t \in read_cpu_times : Canonical(t)}]

Reading(r, d) == IF d \in DOMAIN r THEN r[d] ELSE Null

----------------------------------------------------------------------------
(* Gauges: a reading replaces the value, a failure or a disabled group
   clears it; that a gauge was read once is remembered, and whether there was
   anything to read. *)

NoGauge == [disabled |-> FALSE, collected |-> FALSE, supported |-> FALSE, value |-> Null]

refresh_gauge(g, enabled, v) ==
    IF ~ enabled THEN [g EXCEPT !.disabled = TRUE, !.value = Null]
    ELSE IF v = Null THEN [g EXCEPT !.disabled = FALSE, !.value = Null]
    ELSE [disabled |-> FALSE, collected |-> TRUE, supported |-> v # Nothing, value |-> v]

group_enabled(d) == d \notin Groups \/ d \in conf.groups

(* Temperature and frequency, memory and swap, volumes and shm directory. *)
refresh_metrics(d, r) == refresh_gauge(gauge[d], group_enabled(d), Reading(r, d))

(* The load is read with the CPU group on, after a CPU failure too. *)
refresh_load_average(r) ==
    IF "cpu" \in conf.groups THEN refresh_gauge(gauge["load"], TRUE, Reading(r, "load"))
    ELSE [gauge["load"] EXCEPT !.value = Null]

----------------------------------------------------------------------------
(* Rates: against the last successful sample of the same device. *)

NoRate == [disabled |-> FALSE, collected |-> FALSE, value |-> Null, baseline |-> Null]

counter_delta(prev, cur) == IF cur >= prev THEN cur - prev ELSE Null

(* Mutant: a device without a baseline is measured from zero. *)
RateFromZero(base, t, cur, d) ==
    LET prev == IF base # Null /\ d \in DOMAIN base.sample THEN base.sample[d] ELSE 0
    IN IF base = Null \/ t <= base.at THEN Null ELSE counter_delta(prev, cur[d])

(* What a device moved since its baseline; the rate is this over the time. *)
compute_rate(base, t, cur, d) ==
    IF base = Null \/ t <= base.at \/ d \notin DOMAIN base.sample THEN Null
    ELSE counter_delta(base.sample[d], cur[d])

refresh_rate(x, enabled, t, cur) ==
    IF ~ enabled THEN [x EXCEPT !.disabled = TRUE, !.value = Null, !.baseline = Null]
    ELSE IF cur = Null THEN [x EXCEPT !.disabled = FALSE, !.value = Null]
    ELSE [disabled |-> FALSE, collected |-> TRUE,
          value |-> [d \in DOMAIN cur |-> compute_rate(x.baseline, t, cur, d)],
          baseline |-> [at |-> t, sample |-> cur]]

refresh_disk_io(r, t) == refresh_rate(rate["disk_io"], group_enabled("disk_io"), t, Reading(r, "disk_io"))
refresh_network(r, t) == refresh_rate(rate["network"], group_enabled("network"), t, Reading(r, "network"))

----------------------------------------------------------------------------
(* CoreSaturationTracker: the count of a core stops at the required number;
   another set of cores starts all counts again. *)

saturation_update(tr, usage, required) ==
    LET old == IF DOMAIN tr = DOMAIN usage THEN tr ELSE [c \in DOMAIN usage |-> 0]
    IN [c \in DOMAIN usage |->
          CASE usage[c] = "high" -> IF old[c] < required THEN old[c] + 1 ELSE old[c]
            [] usage[c] = "low"  -> 0
            [] OTHER             -> old[c]]

NoCpu == [disabled |-> FALSE, prev |-> Null, cores_collected |-> FALSE, rates_collected |-> FALSE,
          usage |-> <<>>, saturated |-> {}, total |-> Null, switches |-> Null]

clear_cpu_values(c) ==
    [c EXCEPT !.usage = [i \in DOMAIN @ |-> Null], !.saturated = {}, !.total = Null, !.switches = Null]

apply_baseline(c, t) ==
    [c EXCEPT !.prev = t, !.cores_collected = @ \/ t.cores # {},
              !.usage = IF t.cores # {} THEN [i \in t.cores |-> Null] ELSE @,
              !.saturated = {}, !.rates_collected = @ \/ t.switches, !.switches = Null]

(* Another set of cores than that of the baseline: no core has a usage. *)
compute_core_usages(prev, t) ==
    [i \in t.cores |-> IF prev.cores # t.cores \/ i \in t.bad THEN Null
                       ELSE IF i \in t.high THEN "high" ELSE "low"]

(* The CPU part of measure_once: the CPU metrics, the tracker and whether
   the tick was missed. *)
measure_cpu(t, at) ==
    LET on     == [cpu EXCEPT !.disabled = FALSE]
        usage  == compute_core_usages(cpu.prev, t)
        counts == saturation_update(tracker, usage, conf.sustain)
        bare   == [clear_cpu_values(on) EXCEPT !.prev = t]
        full   == [bare EXCEPT !.usage = usage, !.cores_collected = TRUE,
                               !.saturated = {i \in t.cores : counts[i] >= conf.sustain}]
        rated(c) == [c EXCEPT !.total = IF t.total THEN at ELSE Null,
                              !.rates_collected = @ \/ (t.switches /\ cpu.prev.switches),
                              !.switches = IF t.switches /\ cpu.prev.switches THEN at ELSE Null]
    IN IF "cpu" \notin conf.groups
       THEN [cpu |-> [clear_cpu_values(cpu) EXCEPT !.disabled = TRUE, !.prev = Null],
             tracker |-> <<>>, missed |-> 0]
       ELSE IF t = Null THEN [cpu |-> clear_cpu_values(on), tracker |-> tracker, missed |-> 1]
       ELSE IF cpu.prev = Null THEN [cpu |-> apply_baseline(on, t), tracker |-> <<>>, missed |-> 0]
       ELSE [cpu |-> rated(IF t.cores # {} THEN full ELSE bare),
             tracker |-> IF t.cores # {} THEN counts ELSE tracker,
             missed |-> IF t.total THEN 0 ELSE 1]

----------------------------------------------------------------------------
(* ThresholdEvaluator. *)

Subjects == {<<"memory">>, <<"swap">>, <<"cpu">>} \cup {<<"volume", m>> : m \in Mounts}

(* Milestones are counted from the beginning; another interval takes effect
   from the next one on, and those that were missed are not made up for. *)
repeat_due(s, t, every) ==
    LET n == (t - s.since) \div every
    IN IF every <= 0 THEN [due |-> FALSE, next |-> s]
       ELSE IF every # s.every
       THEN [due |-> FALSE, next |-> [s EXCEPT !.every = every, !.milestone = n]]
       ELSE IF n <= s.milestone THEN [due |-> FALSE, next |-> s]
       ELSE [due |-> TRUE, next |-> [s EXCEPT !.milestone = n]]

(* What one evaluation finds: not applicable or vanished (Gone), not
   readable (Null), breached or not.  The CPU is the one of the tick before. *)
make_threshold_inputs(g) ==
    LET level(d) == g[d].value
        usage(d) == IF level(d) \in Levels THEN level(d) >= conf.level ELSE Null
        volume(m) ==
            IF g["volumes"].disabled THEN Gone
            ELSE IF g["volumes"].value = Null THEN Null
            ELSE IF m \notin DOMAIN g["volumes"].value THEN Gone
            ELSE IF g["volumes"].value[m] \in Levels THEN g["volumes"].value[m] < conf.level
            ELSE Null
    IN [s \in Subjects |->
          CASE s = <<"memory">> -> IF g["memory"].disabled THEN Gone ELSE usage("memory")
            [] s = <<"swap">>   -> IF g["swap"].disabled \/ ~ g["swap"].supported THEN Gone
                                   ELSE usage("swap")
            [] s = <<"cpu">>    -> IF cpu.disabled THEN Gone
                                   ELSE IF \E i \in DOMAIN cpu.usage : cpu.usage[i] # Null
                                   THEN cpu.saturated # {} ELSE Null
            [] OTHER            -> volume(s[2])]

transition(s, t) == [since |-> t, milestone |-> 0, every |-> conf.repeat]

(* The state and the record of one subject. *)
evaluate(s, found, t) ==
    LET active == s \in DOMAIN alarms
        again  == repeat_due(alarms[s], t, conf.repeat)
    IN CASE found = Gone            -> [state |-> Null, record |-> "none"]
         [] found = Null              -> [state |-> IF active THEN alarms[s] ELSE Null, record |-> "none"]
         [] found = FALSE             -> [state |-> Null, record |-> IF active THEN "recovered" ELSE "none"]
         [] found = TRUE /\ ~ active  -> [state |-> transition(s, t), record |-> "entered"]
         [] OTHER                     -> [state |-> again.next,
                                          record |-> IF again.due THEN "ongoing" ELSE "none"]

----------------------------------------------------------------------------
(* advance_deadline: the deadlines stay on their grid; those that are past
   count as missed, one that is due now does not. *)
advance_deadline(last, t) ==
    LET next == IF t > last + 1 THEN t ELSE last + 1 IN [next |-> next, missed |-> next - last - 1]

Known(f) == LET ds == {s \in DOMAIN f : f[s] # Null} IN [s \in ds |-> f[s]]

(* History: what was published of every counter since its first sample. *)
Growth(g, x, new, enabled, cur) ==
    IF ~ enabled THEN <<>>
    ELSE IF cur = Null THEN g
    ELSE [d \in DOMAIN cur |->
            LET moved == IF new.value[d] = Null THEN 0 ELSE new.value[d]
            IN IF /\ d \in DOMAIN g /\ d \in DOMAIN x.baseline.sample
                  /\ cur[d] >= x.baseline.sample[d] /\ new.baseline.at > x.baseline.at
               THEN [g[d] EXCEPT !.published = @ + moved]
               ELSE [first |-> cur[d], published |-> moved]]

(* History: high usages in a row, since the cores are these. *)
Runs(old, c) ==
    [i \in DOMAIN c.usage |->
       IF DOMAIN old # DOMAIN c.usage \/ c.disabled \/ cpu.prev = Null \/ c.usage[i] = "low" THEN 0
       ELSE IF c.usage[i] = "high" THEN old[i] + 1 ELSE old[i]]

(* History: the last record of a subject and the one before it. *)
Logged(l, record, gone, t) ==
    CASE record = "entered"   -> [open |-> TRUE, since |-> t, prior |-> t, last |-> t, record |-> record]
      [] record = "ongoing"   -> [l EXCEPT !.prior = l.last, !.last = t, !.record = record]
      [] record = "recovered" -> [l EXCEPT !.open = FALSE, !.record = record]
      [] OTHER                -> [l EXCEPT !.open = @ /\ ~ gone, !.record = record]

(* measure_once with evaluate_thresholds: the CPU comes last. *)
measure_once(t, r) ==
    LET g     == [d \in Gauges |-> IF d = "load" THEN refresh_load_average(r) ELSE refresh_metrics(d, r)]
        found == make_threshold_inputs(g)
        out   == [s \in Subjects |-> evaluate(s, found[s], t)]
        c     == measure_cpu(Reading(r, "cpu"), t)
    IN /\ clock' = t
       /\ gauge' = g
       /\ rate' = [d \in Rates |-> IF d = "disk_io" THEN refresh_disk_io(r, t) ELSE refresh_network(r, t)]
       /\ alarms' = Known([s \in Subjects |-> out[s].state])
       /\ cpu' = c.cpu /\ tracker' = c.tracker
       /\ raw' = [reading |-> r, conf |-> conf]
       /\ logbook' = [s \in Subjects |-> Logged(logbook[s], out[s].record, found[s] = Gone, t)]
       /\ growth' = [d \in Rates |-> Growth(growth[d], rate[d], rate'[d], group_enabled(d), Reading(r, d))]
       /\ runs' = Runs(runs, c.cpu)
       /\ UNCHANGED <<kind, sets, conf>>

(* SysmonApp::init: the first readings, before the timers are set. *)
init ==
    /\ deadline = -1
    /\ \E r \in Collected(kind) : measure_once(0, r)
    /\ deadline' = 1 /\ missed' = 0

(* The timer fires at its deadline or later (bound: in time, or two late). *)
on_measure ==
    /\ deadline >= 0
    /\ \E t \in {deadline, deadline + 2} \cap 0..MaxClock, r \in Collected(kind) :
         /\ measure_once(t, r)
         /\ LET tick == advance_deadline(deadline, t)
            IN /\ deadline' = tick.next
               /\ missed' = missed + tick.missed + measure_cpu(Reading(r, "cpu"), t).missed

(* apply_sysmon_config: the timers start again, the groups and thresholds
   count from the next tick on. *)
apply_sysmon_config ==
    /\ deadline >= 0 /\ sets < MaxSets /\ sets' = sets + 1
    /\ \/ \E d \in Family(kind) :
            conf' = [conf EXCEPT !.groups = IF d \in @ THEN @ \ {d} ELSE @ \cup {d}]
       \/ kind \in {"memory", "volumes"} /\ \E l \in 1..(MaxLevel + 1) : conf' = [conf EXCEPT !.level = l]
       \/ kind \in {"memory", "cpu"} /\ \E n \in Repeats : conf' = [conf EXCEPT !.repeat = n]
       \/ kind = "cpu" /\ \E n \in Sustains : conf' = [conf EXCEPT !.sustain = n]
       \/ kind \in Rates /\ conf' = [conf EXCEPT !.hidden = IF @ = {} THEN Virtual ELSE {}]
    /\ conf' # conf
    /\ deadline' = clock + 1
    /\ UNCHANGED <<kind, clock, metrics, told>>

MetricsInit ==
    /\ kind \in Kinds
    /\ clock = 0 /\ deadline = -1 /\ sets = 0
    /\ conf \in [groups : {Groups, Groups \ Family(kind)}, level : {1},
                 repeat : {n \in Repeats : \A k \in Repeats : k <= n},
                 sustain : {n \in Sustains : \A k \in Sustains : n <= k}, hidden : {{}}]
    /\ gauge = [d \in Gauges |-> NoGauge]
    /\ rate = [d \in Rates |-> NoRate]
    /\ cpu = NoCpu /\ tracker = <<>> /\ alarms = <<>> /\ missed = 0
    /\ raw = [reading |-> <<>>, conf |-> conf]
    /\ logbook = [s \in Subjects |->
                 [open |-> FALSE, since |-> 0, prior |-> 0, last |-> 0, record |-> "none"]]
    /\ growth = [d \in Rates |-> <<>>] /\ runs = <<>>

MetricsNext == init \/ on_measure \/ apply_sysmon_config

MetricsSpec == MetricsInit /\ [][MetricsNext]_mvars

----------------------------------------------------------------------------
(* The snapshot of the moment: pushed by its timer, on request, and after a
   configuration.  Hidden devices are left out here, not when they are read. *)

Shown(g) == IF ~ g.disabled /\ g.collected THEN g.value ELSE Null

Availability(g, missing) ==
    IF g.disabled THEN "disabled_by_config" ELSE IF g.collected THEN "available" ELSE missing

Domains == Gauges \cup Rates \cup {"cpu"}

snapshot_values ==
    [d \in Domains |->
        CASE d = "load"   -> IF cpu.disabled THEN Null ELSE gauge[d].value
          [] d = "memory" -> IF Shown(gauge[d]) = Nothing THEN Null ELSE Shown(gauge[d])
          [] d \in Gauges \ {"load", "memory"} -> Shown(gauge[d])
          [] d \in Rates  -> IF Shown(rate[d]) = Null THEN Null
                             ELSE [x \in DOMAIN rate[d].value \ conf.hidden |-> rate[d].value[x]]
          [] OTHER -> IF cpu.disabled THEN Null ELSE cpu.total]

snapshot_availability ==
    [d \in Domains |->
        CASE d = "load" -> IF cpu.disabled THEN "disabled_by_config"
                           ELSE Availability(gauge[d], "collect_failed")
          [] d = "swap" -> IF gauge[d].collected /\ ~ gauge[d].disabled /\ ~ gauge[d].supported
                           THEN "unsupported" ELSE Availability(gauge[d], "collect_failed")
          [] d = "temperature" -> Availability(gauge[d], "no_sensor")
          [] d = "frequency"   -> Availability(gauge[d], "unsupported")
          [] d \in {"memory", "volumes", "shm_dir"} -> Availability(gauge[d], "collect_failed")
          [] d \in Rates       -> Availability(rate[d], "collect_failed")
          [] OTHER -> IF cpu.disabled THEN "disabled_by_config" ELSE "available"]

build_snapshot == [value |-> snapshot_values, availability |-> snapshot_availability]

----------------------------------------------------------------------------
(* Properties. *)

Was(d) == IF d \in raw.conf.groups \cup {"shm_dir"} THEN Reading(raw.reading, d) ELSE Null

(* The snapshot shows what the last tick read and nothing else: a failed or
   switched-off reading never lives on as the value of an earlier tick, and a
   reading is not withheld.  A metric that was read once stays available
   through failures and is unavailable exactly while its group is off. *)
SnapshotHonest ==
    deadline >= 0 =>
      LET s == build_snapshot
      IN /\ \A d \in {"temperature", "frequency", "swap", "volumes", "shm_dir"} : s.value[d] = Was(d)
         /\ s.value["memory"] = IF Was("memory") = Nothing THEN Null ELSE Was("memory")
         /\ \A d \in Rates : (s.value[d] = Null) <=> (Was(d) = Null)
         /\ \A d \in Family(kind) \ {"cpu"} :
              /\ (s.availability[d] = "disabled_by_config") <=> (d \notin raw.conf.groups)
              /\ s.value[d] # Null => s.availability[d] \in {"available", "unsupported"}
         /\ cpu.total # Null => cpu.total = clock /\ Was("cpu").total
         /\ s.value["load"] = IF "cpu" \in raw.conf.groups THEN Reading(raw.reading, "load") ELSE Null

(* The rates of a device add up to what its counter moved since its first
   sample: nothing is published twice or from before the device appeared, was
   switched on again or was reset, and a failed reading loses nothing. *)
RatesConserve ==
    \A d \in Rates :
      /\ rate[d].baseline # Null => DOMAIN growth[d] = DOMAIN rate[d].baseline.sample
      /\ \A x \in DOMAIN growth[d] :
           rate[d].baseline.sample[x] = growth[d][x].first + growth[d][x].published

MetricsHonest == SnapshotHonest /\ RatesConserve

(* A subject whose reading is over its limit has an open alarm in the log, one
   whose reading is not has none, and an unreadable tick changes neither; one
   that is switched off or gone is closed without a word. *)
LogFollowsReadings ==
    \A s \in Subjects \ {<<"cpu">>} :
      LET d == IF Len(s) = 2 THEN "volumes" ELSE s[1]
          v == IF d # "volumes" THEN Was(d)
               ELSE IF Was(d) = Null \/ s[2] \notin DOMAIN Was(d) THEN Null ELSE Was(d)[s[2]]
      IN /\ v \in Levels =>
              (logbook[s].open <=> IF d = "volumes" THEN v < raw.conf.level ELSE v >= raw.conf.level)
         /\ d \notin raw.conf.groups => ~ logbook[s].open
         /\ logbook[s].open <=> s \in DOMAIN alarms

(* Between two reminders lies a multiple of the interval that is configured,
   counted from the beginning of the alarm. *)
RemindersSpaced ==
    \A s \in Subjects :
      logbook[s].record = "ongoing" =>
        LET n(t) == (t - logbook[s].since) \div raw.conf.repeat
        IN raw.conf.repeat > 0 /\ n(logbook[s].last) > n(logbook[s].prior)

(* A core counts as saturated only after the configured number of high usages
   in a row, unreadable ones left out, and while the number is not changed it
   does count from then on. *)
SaturationEarned ==
    \A i \in DOMAIN cpu.usage :
      /\ i \in cpu.saturated => runs[i] >= raw.conf.sustain
      /\ (sets = 0 /\ runs[i] >= raw.conf.sustain /\ cpu.usage[i] # Null) => i \in cpu.saturated

AlarmsHonest == LogFollowsReadings /\ RemindersSpaced /\ SaturationEarned

(* What sysmon publishes and what it alarms about are what it has read. *)
ReadingsHonest == MetricsHonest /\ AlarmsHonest
=============================================================================
