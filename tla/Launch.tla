------------------------------- MODULE Launch -------------------------------
(***************************************************************************)
(* From the environment to a running worker: load_settings with its        *)
(* overrides and lockouts, make_broker, boot with the experiment it names  *)
(* and the fills it books, and the calendar; over days on which the owner  *)
(* deploys other files and the broker goes on filling.  Boot and Reconcile *)
(* take the boot apart: here it is one step, committed at its end.         *)
(***************************************************************************)
EXTENDS Fees, Sequences, FiniteSets

CONSTANTS
    StartFiles,     \* the configuration directory at first
    Amended,        \* bound: the kinds of fee whose schedule is amended
    MaxDay, MaxDeploys, MaxFills,
    MaxExperiments  \* bound: no boot starts an experiment after so many

Modes == {"LIVE", "PAPER", "DRY_RUN"}

\* A row of a schedule, dates as days; rates are numbered as they are deployed.  No
\* rate is published to end before it begins.
Row == { r \in [from : 1..MaxDay, to : {OpenEnded} \cup 1..MaxDay, rate : Nat \ {None}] :
            r.to = OpenEnded \/ r.from <= r.to }

\* risk_policy.yaml: the mode, live_enabled and the rest, as a number; fees.yaml.
Files == [mode : Modes, liveEnabled : BOOLEAN, rest : Nat, fees : [Kinds -> SUBSET Row]]

\* EXECUTION_MODE, LIVE_ENABLED, EXPERIMENT_ID, and the paper keys.
Env == [mode : Modes \cup {"unset"}, liveEnabled : BOOLEAN, named : BOOLEAN, keys : BOOLEAN]

ASSUME LaunchAssumption ==
    /\ MaxDay \in Nat
    /\ StartFiles \in Files /\ Amended \subseteq Kinds
    /\ \A k \in Kinds : \A r, q \in StartFiles.fees[k] : r.from = q.from => r = q

VARIABLES
    day,
    files, deploys,
    inForce,        \* the row of each kind in force today, kept day by day
    due,            \* history: the rates that were in force, by day and kind
    stage,          \* "off", "brokered", "booted" or "running"
    env, settings, broker,
    experiments,    \* the table: name and recorded mode
    working,        \* external: experiments with an entry order open at the broker
    fills,          \* external: the broker's FILL activities
    booked,         \* what the ledger charged for them
    since           \* how many fills there were when this process booted

process == <<stage, env, settings, broker, since>>
owner == <<files, deploys>>
calendar == <<day, inForce, due>>
outside == <<working, fills>>
vars == <<calendar, owner, process, experiments, outside, booked>>

NoEnv == [mode |-> "unset", liveEnabled |-> FALSE, named |-> FALSE, keys |-> FALSE]
NoSettings == [mode |-> "none", fees |-> [k \in Kinds |-> {}], version |-> <<>>]

-----------------------------------------------------------------------------
\* Days pass and orders fill before a process starts or once it runs: the boot reads
\* the account in one step, and nothing else on the way up depends on either.
Settled == stage \in {"off", "running"}

\* The days go by: a row that starts today replaces the one in force, and a row
\* whose last day was yesterday goes.
Starting(k) == { r \in files.fees[k] : r.from = day + 1 }

InForceTomorrow(k) ==
    IF Starting(k) # {} THEN CHOOSE r \in Starting(k) : TRUE
    ELSE IF inForce[k].to # OpenEnded /\ inForce[k].to <= day THEN NoRow
    ELSE inForce[k]

NewDay ==
    /\ day < MaxDay /\ Settled
    /\ day' = day + 1
    /\ inForce' = [k \in Kinds |-> InForceTomorrow(k)]
    /\ due' = Append(due, [k \in Kinds |-> inForce'[k].rate])
    /\ UNCHANGED <<owner, process, experiments, outside, booked>>

\* The owner deploys, in time: a rate before it applies, or the end of the row
\* in force before it has passed.  Another image runs once the process is off.
Replace ==
    /\ deploys < MaxDeploys /\ stage = "off"
    /\ deploys' = deploys + 1

DeployRisk ==
    /\ Replace
    /\ \/ \E m \in Modes \ {files.mode} : files' = [files EXCEPT !.mode = m]
       \/ files' = [files EXCEPT !.liveEnabled = ~@]
       \/ files' = [files EXCEPT !.rest = @ + 1]
    /\ UNCHANGED <<calendar, process, experiments, outside, booked>>

DeployRate(k) ==
    /\ Replace
    /\ \E from \in day + 1..MaxDay, to \in {OpenEnded} \cup 1..MaxDay :
          /\ to = OpenEnded \/ to >= from
          /\ ~\E r \in files.fees[k] : r.from = from
          /\ files' = [files EXCEPT !.fees[k] = @ \cup {[from |-> from, to |-> to, rate |-> 10 + deploys]}]
    /\ UNCHANGED <<calendar, process, experiments, outside, booked>>

EndRate(k) ==
    /\ Replace
    /\ inForce[k] # NoRow
    /\ \E to \in ({OpenEnded} \cup day..MaxDay) \ {inForce[k].to} :
          LET ended == [inForce[k] EXCEPT !.to = to] IN
          /\ files' = [files EXCEPT !.fees[k] = (@ \ {inForce[k]}) \cup {ended}]
          /\ inForce' = [inForce EXCEPT ![k] = ended]
    /\ UNCHANGED <<day, due, process, experiments, outside, booked>>

-----------------------------------------------------------------------------
\* The process ends.
Exit ==
    /\ stage' = "off" /\ env' = NoEnv /\ settings' = NoSettings /\ broker' = "none" /\ since' = 0

\* The environment overrides the file.
ModeOf(f, e) == IF e.mode = "unset" THEN f.mode ELSE e.mode

\* config_version: the hash of what is in force, the override included, and fees.
Version(f, e) == <<ModeOf(f, e), f.liveEnabled, f.rest, f.fees>>

\* LIVE_ENABLED of the environment, live_enabled of the file, or LIVE in force.
LockedOut(f, e) == e.liveEnabled \/ f.liveEnabled \/ ModeOf(f, e) = "LIVE"

BrokerOf(mode, e) ==
    CASE mode = "PAPER" -> "paper"
      [] mode = "DRY_RUN" /\ e.keys -> "null"
      [] mode = "DRY_RUN" /\ ~e.keys -> "null without client"

\* main, load_settings and make_broker, at the start of a process.  A lockout is exit
\* code 3; PAPER needs the keys; DRY_RUN never submits, and reads if it has them.
Start(e) ==
    /\ stage = "off"
    /\ IF LockedOut(files, e) \/ (ModeOf(files, e) = "PAPER" /\ ~e.keys) THEN UNCHANGED process
       ELSE /\ stage' = "brokered" /\ env' = e
            /\ settings' = [mode |-> ModeOf(files, e), fees |-> files.fees, version |-> Version(files, e)]
            /\ broker' = BrokerOf(ModeOf(files, e), e)
            /\ UNCHANGED since
    /\ UNCHANGED <<calendar, owner, experiments, outside, booked>>

\* EXPERIMENT_ID, or the mode and the version.
Name == IF env.named THEN <<"EXPERIMENT_ID">> ELSE <<settings.mode, settings.version>>

Reads == broker \in {"paper", "null"}

\* Shares that some of the fills have left at the broker: all of them, or an experiment's own.
Sides(some, side) == { i \in some : fills[i].side = side }
Net(some) == Cardinality(Sides(some, "buy")) - Cardinality(Sides(some, "sell"))
Of(name) == { i \in DOMAIN fills : fills[i].of = name }
Held(name) == Net(Of(name))
BrokerQty == Net(DOMAIN fills)

\* Mutant: only a PAPER boot compares the positions.
AgreesInPaperOnly == broker = "paper" => BrokerQty = Held(Name)

\* reconcile compares the account with the positions of this experiment, once
\* every fill is in the ledger; a broker that cannot read has no positions.
Agrees ==
    /\ Reads /\ BrokerQty # 0 => BrokerQty = Held(Name)
    /\ settings.mode = "PAPER" /\ BrokerQty = 0 => Held(Name) = 0

\* The fills reconcile replays: those of every experiment, whatever the mode.
ToReplay == IF Reads THEN SubSeq(fills, Len(booked) + 1, Len(fills)) ELSE <<>>

Replayed ==
    [i \in DOMAIN ToReplay |->
        [lines |-> Lines(settings.fees, ToReplay[i].day, ToReplay[i].side), version |-> settings.version]]

AllChargeable ==
    \A i \in DOMAIN ToReplay : Chargeable(settings.fees, ToReplay[i].day, ToReplay[i].side)

Recorded == { x \in experiments : x.name = Name }

\* Mutant: the mode of the experiment is not compared.
MismatchNever == FALSE

\* The experiment of that name was started in another mode.
Mismatch == \E x \in Recorded : x.mode # settings.mode

\* boot: the experiment is recorded first, and stays; a mode mismatch or a broker
\* nobody can explain halts (exit code 2), a fill without a rate raises, and nothing is
\* booked.  boot-check ends here, run goes on.
Boot ==
    /\ stage = "brokered"
    /\ Recorded # {} \/ Cardinality(experiments) < MaxExperiments
    /\ experiments' = IF Recorded = {} THEN experiments \cup {[name |-> Name, mode |-> settings.mode]}
                      ELSE experiments
    /\ \/ Mismatch /\ Exit /\ UNCHANGED booked
       \/ ~Mismatch /\ ~AllChargeable /\ Exit /\ UNCHANGED booked
       \/ ~Mismatch /\ AllChargeable /\ ~Agrees /\ Exit /\ UNCHANGED booked
       \/ /\ ~Mismatch /\ AllChargeable /\ Agrees
          /\ booked' = booked \o Replayed
          /\ \/ Exit
             \/ stage' = "booted" /\ since' = Len(fills) /\ UNCHANGED <<env, settings, broker>>
    /\ UNCHANGED <<calendar, owner, outside>>

\* Mutant: the calendar needs no keys.
RunWithoutCalendar ==
    /\ stage = "booted"
    /\ stage' = "running"
    /\ UNCHANGED <<env, settings, broker, since>>
    /\ UNCHANGED <<calendar, owner, experiments, outside, booked>>

\* cmd_run: the trading calendar needs the keys in every mode.
Run ==
    /\ stage = "booted"
    /\ IF ~env.keys THEN Exit
       ELSE stage' = "running" /\ UNCHANGED <<env, settings, broker, since>>
    /\ UNCHANGED <<calendar, owner, experiments, outside, booked>>

\* Deployed over, restarted, crashed.
Kill ==
    /\ stage # "off"
    /\ Exit
    /\ UNCHANGED <<calendar, owner, experiments, outside, booked>>

-----------------------------------------------------------------------------
\* The worker sends an entry; NullBroker refuses to.
Submit ==
    /\ stage = "running" /\ broker = "paper"
    /\ Len(fills) + Cardinality(working) < MaxFills
    /\ working' = working \cup {Name}
    /\ UNCHANGED <<calendar, owner, process, experiments, fills, booked>>

\* The broker fills an entry, or sells out of a position: its orders outlive the
\* process that sent them.
FillBuy(e) ==
    /\ Settled /\ e \in working /\ Len(fills) < MaxFills
    /\ working' = working \ {e}
    /\ fills' = Append(fills, [day |-> day, side |-> "buy", of |-> e])
    /\ UNCHANGED <<calendar, owner, process, experiments, booked>>

FillSell(e) ==
    /\ Settled /\ Held(e) > 0 /\ Len(fills) < MaxFills
    /\ fills' = Append(fills, [day |-> day, side |-> "sell", of |-> e])
    /\ UNCHANGED <<calendar, owner, process, experiments, working, booked>>

Init ==
    /\ day = 1 /\ files = StartFiles /\ deploys = 0
    /\ inForce = [k \in Kinds |-> LET now == { r \in StartFiles.fees[k] : r.from = 1 }
                                  IN  IF now = {} THEN NoRow ELSE CHOOSE r \in now : TRUE]
    /\ due = <<[k \in Kinds |-> inForce[k].rate]>>
    /\ stage = "off" /\ env = NoEnv /\ settings = NoSettings
    /\ broker = "none" /\ since = 0
    /\ experiments = {}
    /\ working = {} /\ fills = <<>> /\ booked = <<>>

Next ==
    \/ NewDay \/ DeployRisk
    \/ \E k \in Amended : DeployRate(k) \/ EndRate(k)
    \/ \E e \in Env : Start(e)
    \/ Boot \/ Run \/ Kill \/ Submit
    \/ \E x \in experiments : FillBuy(x.name) \/ FillSell(x.name)

Spec == Init /\ [][Next]_vars

-----------------------------------------------------------------------------
\* ADR-0012: a fill is charged the rates in force on its own day, however much
\* later a boot books it and whatever was deployed in between; a sale is not booked
\* on a day without its rates, and a rate nobody published is never charged.
FeesAreThoseOfTheDay ==
    \A i \in DOMAIN booked :
        LET f == fills[i] IN
        /\ booked[i].lines = [k \in Kinds |-> IF k = "cat" \/ f.side = "sell" THEN due[f.day][k] ELSE None]
        /\ f.side = "sell" => None \notin {booked[i].lines["sec"], booked[i].lines["taf"]}

\* ADR-0020: whatever the file and the environment say, a process that runs, runs in
\* the mode its experiment was recorded with, which is not LIVE, and through the
\* broker of that mode; LIVE leaves nothing in the database either.
RunsWhatItRecorded ==
    /\ stage \in {"booted", "running"} =>
          /\ [name |-> Name, mode |-> settings.mode] \in experiments
          /\ settings.mode \in {"PAPER", "DRY_RUN"} /\ (broker = "paper" <=> settings.mode = "PAPER")
    /\ \A x \in experiments : x.mode # "LIVE"
    /\ \A x, y \in experiments : x.name = y.name => x = y
    /\ \A e \in working : [name |-> e, mode |-> "PAPER"] \in experiments

\* Section 8.6: no worker runs over shares that were at the broker when it booted
\* and that another experiment bought; neither a mode that only observes nor missing
\* keys gets around it.
RunsOverItsOwnShares ==
    stage = "running" => Net((1..since) \ Of(Name)) = 0
=============================================================================
