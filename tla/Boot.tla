-------------------------------- MODULE Boot --------------------------------
(***************************************************************************)
(* The boot sequence: exposure checks, the experiment row, the version     *)
(* registries, the experiment phase, the portfolios and their opening      *)
(* balances, the broker policy and the reconciliation (its outcome only:   *)
(* Reconcile models it), in that order, and the halts that stop it.        *)
(* Everything runs on one connection: connect leaves a transaction open,   *)
(* so each db.transaction() is a savepoint in it, and losing the           *)
(* connection loses whatever was not committed.                            *)
(***************************************************************************)
EXTENDS Integers, Sequences, FiniteSets, SequencesExt

CONSTANTS
    Builds,         \* deployments that may boot the experiment
    Portfolios,     \* PORTFOLIO_SET
    MaxBoots

\* config/phase_change.yaml: valid stands for a reason and a known category,
\* declares for what for_versions names.
Change == [sequence : Nat, valid : BOOLEAN, declares : STRING]

\* A deployment: the mode and BROKER_POLICY_ENFORCE of its settings; a version
\* string (the five registries move together here), the content it stands for,
\* the code SHA; and the phase_change.yaml it ships with.
Build == [mode : {"PAPER", "DRY_RUN"}, enforce : BOOLEAN, version : STRING,
          content : STRING, code : STRING, change : Change]

ASSUME BootAssumption == Builds \subseteq Build

VARIABLES
    saved,      \* the database, committed
    view,       \* the database as the connection sees it
    point,      \* the savepoint of the transaction in progress
    account,    \* external: the account configuration matches BrokerPolicy
    build,      \* the deployment that boots
    pc,         \* where its boot stands, or how it ended
    boots

bootVars == <<saved, view, point, account, build, pc, boots>>

\* experiment_phases: a row, with the record that justified it.
Phase == [seq : Nat, open : BOOLEAN, version : STRING, code : STRING, change : Change]

\* The halts a boot records, by code.
HaltCodes == {"MODE_MISMATCH", "PHASE_REASON_MISSING", "BROKER_POLICY_HALT", "RECONCILE_HALT"}

Tables == [mode : {"none", "PAPER", "DRY_RUN"}, registry : SUBSET (STRING \X STRING),
           phases : Seq(Phase), portfolios : SUBSET Portfolios,
           opening : SUBSET Portfolios, checks : Seq({"match", "applied"}),
           reconciliations : Seq({"agree", "halt"}), halts : Seq(HaltCodes)]

Empty == [mode |-> "none", registry |-> {}, phases |-> <<>>, portfolios |-> {},
          opening |-> {}, checks |-> <<>>, reconciliations |-> <<>>, halts |-> <<>>]

\* drift: a tracked version of the phase is not in force any more.
Drifted(phase, b) == phase.version # b.version \/ phase.code # b.code

\* ensure_phase opens at most one phase, the last.
OpenPhase == view.phases[Len(view.phases)]

-----------------------------------------------------------------------------
BootInit ==
    /\ saved = Empty /\ view = Empty /\ point = Empty
    /\ account \in BOOLEAN
    /\ build \in Builds
    /\ pc = "idle"
    /\ boots = 0

Ended == {"idle", "up", "halted", "raised"}

\* A deployment boots, on a new connection or (as the tests do) on the last one's.
StartBoot(b) ==
    /\ pc \in Ended /\ boots < MaxBoots
    /\ build' = b /\ pc' = "checks" /\ boots' = boots + 1
    /\ UNCHANGED <<saved, view, point, account>>

\* run_exposure_checks and schema_is_current halt before there is an experiment
\* to record the halt against.
RunExposureChecks ==
    /\ pc = "checks"
    /\ pc' \in {"experiment", "halted"}
    /\ UNCHANGED <<saved, view, point, account, build, boots>>

\* get_experiment or create_experiment, in a savepoint of its own; then the main
\* transaction begins.
EnsureExperiment ==
    /\ pc = "experiment"
    /\ view' = IF view.mode = "none" THEN [view EXCEPT !.mode = build.mode] ELSE view
    /\ point' = view'
    /\ pc' = "register"
    /\ UNCHANGED <<saved, account, build, boots>>

\* Mutant: the halt is recorded without rolling back.
HaltWithoutRollback(code) ==
    /\ view' = [view EXCEPT !.halts = Append(@, code)]
    /\ pc' = "halted"

\* A BootHalt: the main transaction rolls back, then the halt is recorded, a
\* halted reconciliation with it.
Halt(code) ==
    /\ view' = [point EXCEPT
            !.halts = Append(@, code),
            !.reconciliations = IF code = "RECONCILE_HALT" THEN Append(@, "halt") ELSE @]
    /\ pc' = "halted"

\* Any other exception: rolled back, and nothing is recorded.
Raise == view' = point /\ pc' = "raised"

\* register_version: the version string is registered with another content.
Reused(b) == \E v \in view.registry : v[1] = b.version /\ v[2] # b.content

\* The mode check and register_all: a reused version string raises
\* VERSION_REUSED, which is not a BootHalt.
RegisterAll ==
    /\ pc = "register"
    /\ \/ view.mode # build.mode /\ Halt("MODE_MISMATCH")
       \/ view.mode = build.mode /\ Reused(build) /\ Raise
       \/ /\ view.mode = build.mode /\ ~Reused(build)
          /\ view' = [view EXCEPT !.registry = @ \cup {<<build.version, build.content>>}]
          /\ pc' = "phase"
    /\ UNCHANGED <<saved, point, account, build, boots>>

\* Mutant: a record that has justified a phase justifies the next one.
JustifiedByStale(phase, b) ==
    /\ b.change.valid
    /\ b.version # phase.version => b.change.declares = b.version

\* ensure_phase: phase_change.yaml is for the next phase, gives a reason, and
\* names every registry version that drifted.
Justified(phase, b) ==
    /\ b.change.sequence = phase.seq + 1
    /\ b.change.valid
    /\ b.version # phase.version => b.change.declares = b.version

NewPhase(seq) == [seq |-> seq, open |-> TRUE, version |-> build.version,
                  code |-> build.code, change |-> build.change]

\* Mutant: only the registries count as drift.
EnsurePhaseIgnoringCode ==
    /\ pc = "phase"
    /\ \/ /\ view.phases = <<>>
          /\ view' = [view EXCEPT !.phases = <<NewPhase(1)>>]
          /\ pc' = "portfolios"
       \/ /\ view.phases # <<>> /\ OpenPhase.version = build.version
          /\ pc' = "portfolios"
          /\ UNCHANGED view
    /\ UNCHANGED <<saved, point, account, build, boots>>

\* ensure_phase: the first phase needs no reason; without drift the open phase
\* goes on; a justified drift closes it and opens the next.
EnsurePhase ==
    /\ pc = "phase"
    /\ \/ /\ view.phases = <<>>
          /\ view' = [view EXCEPT !.phases = <<NewPhase(1)>>]
          /\ pc' = "portfolios"
       \/ /\ view.phases # <<>> /\ ~Drifted(OpenPhase, build)
          /\ pc' = "portfolios"
          /\ UNCHANGED view
       \/ /\ view.phases # <<>> /\ Drifted(OpenPhase, build) /\ Justified(OpenPhase, build)
          /\ view' = [view EXCEPT !.phases =
                Append([@ EXCEPT ![Len(@)].open = FALSE], NewPhase(OpenPhase.seq + 1))]
          /\ pc' = "portfolios"
       \/ /\ view.phases # <<>> /\ Drifted(OpenPhase, build) /\ ~Justified(OpenPhase, build)
          /\ Halt("PHASE_REASON_MISSING")
    /\ UNCHANGED <<saved, point, account, build, boots>>

\* ensure_portfolios, ensure_initial_equity and verify_cash_chain (which the
\* chain trigger of cash_ledger keeps true).
EnsurePortfolios ==
    /\ pc = "portfolios"
    /\ view' = [view EXCEPT !.portfolios = Portfolios, !.opening = Portfolios]
    /\ pc' = IF build.mode = "PAPER" THEN "policy" ELSE "reconcile"
    /\ UNCHANGED <<saved, point, account, build, boots>>

\* Mutant: a difference is noted and the boot goes on.
EnforcePolicyLeniently ==
    /\ pc = "policy"
    /\ view' = [view EXCEPT !.checks =
                    Append(@, IF account THEN "match" ELSE "halt")]
    /\ pc' = "reconcile"
    /\ UNCHANGED <<saved, point, account, build, boots>>

\* enforce_broker_policy: read, write if that is allowed, read again.  The row of
\* a check that halts is rolled back with the rest; what the broker accepted stays.
EnforcePolicy ==
    /\ pc = "policy"
    /\ \/ /\ account
          /\ view' = [view EXCEPT !.checks = Append(@, "match")]
          /\ pc' = "reconcile" /\ UNCHANGED account
       \/ /\ ~account /\ build.enforce
          /\ account' = TRUE
          /\ view' = [view EXCEPT !.checks = Append(@, "applied")]
          /\ pc' = "reconcile"
       \/ /\ ~account /\ build.enforce     \* the write or the second read fails
          /\ account' \in BOOLEAN
          /\ Halt("BROKER_POLICY_HALT")
       \/ /\ account \/ ~build.enforce     \* unreadable, or different and not to be written
          /\ UNCHANGED account
          /\ Halt("BROKER_POLICY_HALT")
    /\ UNCHANGED <<saved, point, build, boots>>

\* reconcile agrees, halts, or raises.
ReconcileBroker ==
    /\ pc = "reconcile"
    /\ \/ /\ view' = [view EXCEPT !.reconciliations = Append(@, "agree")]
          /\ pc' = "up"
       \/ Halt("RECONCILE_HALT")
       \/ Raise
    /\ UNCHANGED <<saved, point, account, build, boots>>

\* External: the owner edits the account configuration.  (While a worker runs,
\* nobody looks at it again until the next boot.)
EditAccount ==
    /\ pc \in Ended \ {"up"}
    /\ account' = ~account
    /\ UNCHANGED <<saved, view, point, build, pc, boots>>

\* The process ends or its connection is lost: PostgreSQL rolls back to what was
\* committed, and no statement of the program commits.
LoseConnection ==
    /\ pc # "idle"
    /\ view' = saved
    /\ pc' = "idle"
    /\ UNCHANGED <<saved, point, account, build, boots>>

BootStep ==
    \/ RunExposureChecks \/ EnsureExperiment \/ RegisterAll \/ EnsurePhase
    \/ EnsurePortfolios \/ EnforcePolicy \/ ReconcileBroker

BootNext ==
    \/ \E b \in Builds : StartBoot(b)
    \/ BootStep \/ EditAccount \/ LoseConnection

BootSpec == BootInit /\ [][BootNext]_bootVars

-----------------------------------------------------------------------------
TypeOK ==
    /\ saved = Empty /\ view \in Tables /\ point \in Tables
    /\ build \in Builds /\ account \in BOOLEAN
    /\ pc \in Ended \cup {"checks", "experiment", "register", "phase", "portfolios",
                          "policy", "reconcile"}

Chain(phases) ==
    \A i \in DOMAIN phases :
        /\ phases[i].seq = i
        /\ phases[i].open <=> i = Len(phases)
        /\ i > 1 =>
            /\ Drifted(phases[i - 1], phases[i])
            /\ phases[i].change.sequence = i /\ phases[i].change.valid
            /\ phases[i].version # phases[i - 1].version =>
                  phases[i].change.declares = phases[i].version

\* ADR-0019: the phases are a chain.  They are numbered without a gap, only the
\* last is open, and each after the first differs from the one before it and was
\* opened by a record written for it that names the new version: whatever order
\* the deployments come and go in, one record never justifies two phases.
PhasesAreJustified == Chain(view.phases)

\* SPEC 13.2, nothing changes silently: a worker that runs is the deployment the
\* open phase records, its versions stand for the content registered first, its
\* mode is the experiment's, every portfolio has its opening balance and, in
\* PAPER, the account was seen to match.
UpMeansInForce ==
    pc = "up" =>
        /\ ~Drifted(OpenPhase, build)
        /\ <<build.version, build.content>> \in view.registry
        /\ \A v \in view.registry : v[1] = build.version => v[2] = build.content
        /\ view.mode = build.mode
        /\ view.opening = Portfolios
        /\ build.mode = "PAPER" => account /\ Last(view.checks) \in {"match", "applied"}

\* A boot that halts leaves the database as its main transaction found it, but
\* for the halt itself (and a halted reconciliation).
HaltLeavesNoTrace ==
    [][ pc' = "halted" /\ pc \notin {"halted", "checks"} =>
          /\ \A f \in DOMAIN view \ {"halts", "reconciliations"} : view'[f] = point[f]
          /\ Front(view'.halts) = point.halts
          /\ IsPrefix(point.reconciliations, view'.reconciliations) ]_bootVars

\* boot: "the halt must survive".  A recorded halt is never lost, not even with
\* the process that recorded it.
HaltsSurvive == [][ IsPrefix(view.halts, view'.halts) ]_bootVars
=============================================================================
