------------------------------- MODULE Stops -------------------------------
(***************************************************************************)
(* The protective stops of the open positions: the pre-open re-arm job and *)
(* the two post-open verifications, each one transaction around a loop of  *)
(* broker calls.  Between two calls the broker routes, fills and ends      *)
(* orders; an exception or a crash rolls back what the job wrote about     *)
(* orders the broker already has.  A boot replays fills or halts; Reconcile*)
(* takes it apart, here the broker holds still for it.                     *)
(***************************************************************************)
EXTENDS Integers, FiniteSets, FiniteSetsExt, OrderStates, Sums

CONSTANTS
    Positions,      \* positions, each opened with Qty shares
    Qty,
    Orders,         \* 1..n, one for each system decision, oldest first
    MaxSessions

ASSUME StopsAssumption ==
    /\ Qty \in Nat \ {0} /\ MaxSessions \in Nat
    /\ IsFiniteSet(Positions) /\ "none" \notin Positions
    /\ Orders \in SUBSET (Nat \ {0}) /\ IsFiniteSet(Orders)

VARIABLES
    observeOnly,    \* DRY_RUN: the broker gateway only observes
    levels,         \* the positions with a working_invalidation_price
    ledger,         \* the ledger as the running job sees it
    saved,          \* the ledger, committed
    broker,         \* external: each order at the broker
    clock, due,     \* the scheduler's latest event, and whether its job is to run
    session,
    process,        \* "up", "down" or "halted"
    job

vars == <<observeOnly, levels, ledger, saved, broker, clock, due, session, process, job>>

\* The broker's words as far as the code tells them apart; accepted stands for
\* pending_new too, canceled for every end without a fill.
LIVE_STATUSES == {"new", "partially_filled", "filled"}
PENDING_STATUSES == {"accepted"}
BrokerOpen == {"accepted", "new", "partially_filled"}

STATUS_MAP ==
    [raw \in {"accepted", "new", "partially_filled", "filled", "canceled"} |->
        CASE raw \in {"accepted", "new"} -> "SUBMITTED"
          [] raw = "partially_filled"    -> "PARTIALLY_FILLED"
          [] raw = "filled"              -> "FILLED"
          [] raw = "canceled"            -> "CANCELLED"]

NoOrder == [status |-> "none", position |-> "none", booked |-> 0]
Absent == [status |-> "absent", position |-> "none", filled |-> 0, leaves |-> 0]

\* stop_coverage: the row of a position in this session.
NoCover == [result |-> "none", order |-> 0, verified |-> FALSE]

\* The events of a session, each with the one after it.
Following == [close |-> "stop_rearm", stop_rearm |-> "open", open |-> "post_open_verify_1",
              post_open_verify_1 |-> "post_open_verify_2", post_open_verify_2 |-> "close"]
Jobs == {"stop_rearm", "post_open_verify_1", "post_open_verify_2"}
MarketOpen == clock \in {"open", "post_open_verify_1", "post_open_verify_2"}

Idle == [kind |-> "none", rest |-> {}, on |-> "none", look |-> {},
         seen |-> "none", seenOrder |-> 0]

Running == job.kind # "none"

\* What the broker has sold of p, and what is left there.
SoldOf(p) == [o \in Orders |-> IF broker[o].position = p THEN broker[o].filled ELSE 0]
Held(p) == Qty - Tally(SoldOf(p), Qty)

\* protective_orders: the open ones; Min is the first by created_at.
Protective(p) == { o \in Orders : /\ ledger.order[o].position = p
                                  /\ ledger.order[o].status \in OpenStatuses }

-----------------------------------------------------------------------------
Init ==
    /\ observeOnly \in BOOLEAN
    /\ levels \in SUBSET Positions
    /\ ledger = [order |-> [o \in Orders |-> NoOrder],
                 qty   |-> [p \in Positions |-> Qty],
                 cover |-> [p \in Positions |-> NoCover]]
    /\ saved = ledger
    /\ broker = [o \in Orders |-> Absent]
    /\ clock = "close" /\ due = FALSE
    /\ session = 0
    /\ process = "up"
    /\ job = Idle

\* External: the broker routes an order, fills a share of it, or ends it.
BrokerStep(o) ==
    /\ \/ /\ broker[o].status = "accepted" /\ MarketOpen
          /\ broker' = [broker EXCEPT ![o].status = "new"]
       \/ /\ broker[o].status \in {"new", "partially_filled"} /\ MarketOpen
          /\ Held(broker[o].position) > 0
          /\ broker' = [broker EXCEPT ![o].filled = @ + 1, ![o].leaves = @ - 1,
                ![o].status = IF broker[o].leaves = 1 THEN "filled" ELSE "partially_filled"]
       \/ /\ broker[o].status \in BrokerOpen
          /\ broker' = [broker EXCEPT ![o].status = "canceled"]
    /\ UNCHANGED <<observeOnly, levels, ledger, saved, clock, due, session, process, job>>

\* The next event of the calendar: its job is to run if the process is up and
\* not still busy with an earlier one (next_event looks strictly after now).
Tick ==
    LET new == clock = "close"
    IN  /\ new => session < MaxSessions /\ ~Running
        /\ clock' = Following[clock]
        /\ session' = IF new THEN session + 1 ELSE session
        /\ ledger' = IF new THEN [ledger EXCEPT !.cover = [p \in Positions |-> NoCover]]
                     ELSE ledger
        /\ saved' = IF new THEN ledger' ELSE saved
        /\ due' = (clock' \in Jobs /\ process = "up" /\ ~Running)
        /\ UNCHANGED <<observeOnly, levels, broker, process, job>>

\* The orders a new decision may still get (bound).
Unused == { o \in Orders : broker[o].status = "absent" /\ ledger.order[o] = NoOrder }

\* create_system_decision: a new decision, hence a client_order_id never used.
NextDecision == Min(Unused)

StartJob ==
    /\ due /\ process = "up"
    /\ Cardinality(Unused) >= Cardinality(Positions)
    /\ due' = FALSE
    /\ job' = [Idle EXCEPT !.kind = clock,
                           !.rest = { p \in Positions : ledger.qty[p] > 0 }]
    /\ UNCHANGED <<observeOnly, levels, ledger, saved, broker, clock, session, process>>

\* The job is done with p; row is its stop_coverage.
Done(p, row) ==
    /\ ledger' = [ledger EXCEPT !.cover[p] = row]
    /\ job' = [Idle EXCEPT !.kind = job.kind, !.rest = job.rest \ {p}]

\* rearm and verify_post_open, the head of the loop over open_positions.
NextPosition(p) ==
    LET rearm == job.kind = "stop_rearm" IN
    /\ Running /\ job.on = "none" /\ p \in job.rest
    /\ \/ /\ p \notin levels
          /\ Done(p, IF rearm THEN [NoCover EXCEPT !.result = "missing"] ELSE ledger.cover[p])
       \/ /\ p \in levels /\ observeOnly /\ ~rearm
          /\ Done(p, [NoCover EXCEPT !.result = "not_applicable", !.verified = TRUE])
       \/ /\ p \in levels /\ ~(observeOnly /\ ~rearm)
          /\ job' = [job EXCEPT !.on = p,
                                !.look = IF observeOnly THEN {} ELSE Protective(p)]
          /\ UNCHANGED ledger
    /\ UNCHANGED <<observeOnly, levels, saved, broker, clock, due, session, process>>

\* Mutant: the broker's word is stored as it comes.
LookRearmUnmapped ==
    LET o == Min(job.look)  raw == broker[o].status IN
    /\ job.kind = "stop_rearm" /\ job.look # {}
    /\ ledger' = [ledger EXCEPT !.order[o].status = raw]
    /\ job' = [job EXCEPT !.look = @ \ {o}]
    /\ UNCHANGED <<observeOnly, levels, saved, broker, clock, due, session, process>>

\* Mutant: only a stop that is exactly SUBMITTED counts as live.
LookRearmSubmittedOnly ==
    LET o == Min(job.look)  now == STATUS_MAP[broker[o].status] IN
    /\ job.kind = "stop_rearm" /\ job.look # {}
    /\ \/ /\ now = "SUBMITTED"
          /\ Done(job.on, [ledger.cover[job.on] EXCEPT !.order = o])
       \/ /\ now # "SUBMITTED"
          /\ ledger' = [ledger EXCEPT !.order[o].status = now]
          /\ job' = [job EXCEPT !.look = @ \ {o}]
    /\ UNCHANGED <<observeOnly, levels, saved, broker, clock, due, session, process>>

\* rearm asks for one protective order: live is confirmed, anything else is
\* taken over from the broker, fills or not.
LookRearm ==
    LET o == Min(job.look)  now == STATUS_MAP[broker[o].status] IN
    /\ job.kind = "stop_rearm" /\ job.look # {}
    /\ \/ /\ now \in WorkingStatuses
          /\ Done(job.on, [ledger.cover[job.on] EXCEPT !.order = o])
       \/ /\ now \notin WorkingStatuses
          /\ ledger' = [ledger EXCEPT !.order[o].status = now]
          /\ job' = [job EXCEPT !.look = @ \ {o}]
    /\ UNCHANGED <<observeOnly, levels, saved, broker, clock, due, session, process>>

\* verify_post_open asks for one: the loop ends at the first live status.
LookVerify ==
    LET o == Min(job.look)  raw == broker[o].status IN
    /\ job.kind \in Jobs \ {"stop_rearm"} /\ job.look # {}
    /\ job' = [job EXCEPT !.seen = raw, !.seenOrder = o,
                          !.look = IF raw \in LIVE_STATUSES THEN {} ELSE @ \ {o}]
    /\ UNCHANGED <<observeOnly, levels, ledger, saved, broker, clock, due, session, process>>

\* AlpacaPaperBroker.submit: the id is new to the broker, so the order is placed.
Submitted(o, p) ==
    [broker EXCEPT ![o] = [status |-> "accepted", position |-> p,
                           filled |-> 0, leaves |-> ledger.qty[p]]]

\* _sell_order and _submit for the whole ledger quantity under a fresh decision,
\* hence a fresh client_order_id.  (A refused or failed submit is Fail.)
SellWith(o, p, row) ==
    /\ broker' = IF observeOnly THEN broker ELSE Submitted(o, p)
    /\ ledger' = [ledger EXCEPT
            !.order[o] = [status |-> IF observeOnly THEN "FILL_PENDING_RECONSTRUCTION"
                                     ELSE "SUBMITTED",
                          position |-> p, booked |-> 0],
            !.cover[p] = [row EXCEPT !.order = o]]
    /\ job' = [Idle EXCEPT !.kind = job.kind, !.rest = job.rest \ {p}]

\* rearm found nothing live: a stop, or a market sell when the prior close has
\* already gapped below the level.
Arm(gap) ==
    /\ job.kind = "stop_rearm" /\ job.on # "none" /\ job.look = {}
    /\ SellWith(NextDecision, job.on,
                [ledger.cover[job.on] EXCEPT !.result =
                    IF observeOnly THEN "not_applicable"
                    ELSE IF gap THEN "software_stop_placed" ELSE "none"])
    /\ UNCHANGED <<observeOnly, levels, saved, clock, due, session, process>>

Verifying == job.kind \in Jobs \ {"stop_rearm"} /\ job.on # "none" /\ job.look = {}
PendingAccepted == job.kind = "post_open_verify_1" /\ job.seen \in PENDING_STATUSES

\* verify_post_open: a live stop is confirmed.
ConfirmLive ==
    /\ Verifying /\ job.seen \in LIVE_STATUSES
    /\ Done(job.on, [result |-> "live", order |-> job.seenOrder, verified |-> TRUE])
    /\ UNCHANGED <<observeOnly, levels, saved, broker, clock, due, session, process>>

\* Mutant: the final verification waits too.
WaitForPendingAlways ==
    /\ Verifying /\ job.seen \in PENDING_STATUSES
    /\ Done(job.on, ledger.cover[job.on])
    /\ UNCHANGED <<observeOnly, levels, saved, broker, clock, due, session, process>>

\* A pending stop is waited for, but not by the final verification.
WaitForPending ==
    /\ Verifying /\ PendingAccepted
    /\ Done(job.on, ledger.cover[job.on])
    /\ UNCHANGED <<observeOnly, levels, saved, broker, clock, due, session, process>>

\* A naked lot: sold at market when the last price is at the level or below,
\* otherwise armed again.
Protect(below) ==
    /\ Verifying /\ job.seen \notin LIVE_STATUSES /\ ~PendingAccepted
    /\ SellWith(NextDecision, job.on,
                [result |-> IF below THEN "software_stop_placed" ELSE "missing",
                 order |-> 0, verified |-> TRUE])
    /\ UNCHANGED <<observeOnly, levels, saved, clock, due, session, process>>

FinishJob ==
    /\ Running /\ job.on = "none" /\ job.rest = {}
    /\ saved' = ledger
    /\ job' = Idle
    /\ UNCHANGED <<observeOnly, levels, ledger, broker, clock, due, session, process>>

\* A call raises (which ends run_forever), or the process dies or is replaced.
Fail ==
    /\ process = "up"
    /\ process' = "down"
    /\ ledger' = saved
    /\ job' = Idle /\ due' = FALSE
    /\ UNCHANGED <<observeOnly, levels, saved, broker, clock, session>>

-----------------------------------------------------------------------------
\* The boot's reconciliation of a broker that holds still.
Unbooked(o) == broker[o].filled - ledger.order[o].booked
\* Mutant: the replay alone, without the comparison of the open orders.
UnknownWhenFilled(o) == ledger.order[o] = NoOrder /\ broker[o].filled > 0

UnknownToLedger(o) ==
    /\ ledger.order[o] = NoOrder
    /\ broker[o].status \in BrokerOpen \/ broker[o].filled > 0
Stranded(o) ==
    /\ ledger.order[o] # NoOrder /\ Unbooked(o) > 0
    /\ ledger.order[o].status \notin FillStatuses

Boot ==
    /\ process = "down"
    /\ ~\E o \in Orders : Stranded(o)   \* apply_fill raises and the boot dies
    /\ \/ /\ \E o \in Orders : UnknownToLedger(o)
          /\ process' = "halted"
          /\ UNCHANGED <<ledger, saved>>
       \/ /\ ~\E o \in Orders : UnknownToLedger(o)
          /\ process' = "up"
          /\ ledger' = [ledger EXCEPT
                !.order = [o \in Orders |->
                    IF ledger.order[o].status \in WorkingStatuses
                    THEN [ledger.order[o] EXCEPT !.booked = broker[o].filled,
                            !.status = IF broker[o].status = "accepted" THEN @
                                       ELSE STATUS_MAP[broker[o].status]]
                    ELSE [ledger.order[o] EXCEPT !.booked = broker[o].filled]],
                !.qty = [p \in Positions |-> Held(p)]]
          /\ saved' = ledger'
    /\ UNCHANGED <<observeOnly, levels, broker, clock, due, session, job>>

Next ==
    \/ \E o \in Orders : BrokerStep(o)
    \/ Tick \/ StartJob
    \/ \E p \in Positions : NextPosition(p)
    \/ LookRearm \/ LookVerify
    \/ \E b \in BOOLEAN : Arm(b) \/ Protect(b)
    \/ ConfirmLive \/ WaitForPending \/ FinishJob
    \/ Fail \/ Boot

Spec == Init /\ [][Next]_vars

-----------------------------------------------------------------------------
\* The ledger's quantities stay between what the broker holds and what was
\* bought, and an order is never booked beyond its fills.
TypeOK ==
    /\ observeOnly \in BOOLEAN /\ levels \subseteq Positions
    /\ \A led \in {ledger, saved} :
          /\ \A o \in Orders :
                /\ led.order[o].status \in Statuses
                /\ led.order[o].booked \in 0..broker[o].filled
          /\ \A p \in Positions :
                /\ led.qty[p] \in Held(p)..Qty
                /\ led.cover[p].order \in Orders \cup {0}
    /\ \A o \in Orders : broker[o].leaves \in 0..Qty
    /\ process \in {"up", "down", "halted"}
    /\ job.kind \in Jobs \cup {"none"} /\ job.rest \subseteq Positions

\* SPEC 8.3: when the final verification of a session has committed, every open
\* position with a level has a verified row, which names either an order the
\* broker had live or a new exit the ledger and the broker both have.
FinalVerificationCovers ==
    [][ job.kind = "post_open_verify_2" /\ job'.kind = "none" /\ process' = "up"
            /\ ~observeOnly =>
        \A p \in levels :
            saved'.qty[p] > 0 =>
                LET c == saved'.cover[p] IN
                /\ c.verified
                /\ saved'.order[c.order].position = p
                /\ c.result = "live" => broker'[c.order].status # "accepted"
                /\ broker'[c.order].status # "absent" ]_vars

\* An exit of p is submitted.
Submits(p) ==
    \E o \in Orders : broker[o] = Absent /\ broker'[o] # Absent /\ broker'[o].position = p

\* An order of p the ledger knows and the broker still works.
Sibling(p, o) ==
    broker[o].position = p /\ broker[o].status \in BrokerOpen /\ ledger.order[o] # NoOrder

\* The re-arm never puts a second exit next to one of the ledger's that the
\* broker still works, however the broker moves between the calls.
RearmNeverDoubles ==
    [][ job.kind = "stop_rearm" =>
        \A p \in Positions :
            Submits(p) => ~\E o \in Orders : Sibling(p, o) ]_vars

\* A worker that runs knows every order the broker works, and as a working one. A
\* job that dies after a submit leaves one whose row was rolled back (jobs.py:188);
\* no worker runs until a person has dealt with it.
UpKnowsItsOrders ==
    process = "up" =>
        \A o \in Orders :
            broker[o].status \in BrokerOpen => ledger.order[o].status \in WorkingStatuses
=============================================================================
