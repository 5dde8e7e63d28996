------------------------------ MODULE Timeline ------------------------------
(***************************************************************************)
(* The trading calendar and the timeline of a session: which event is due  *)
(* when, and which one the scheduler waits for.  Time is counted in ticks; *)
(* all of a session's events are on its own day.                           *)
(***************************************************************************)
EXTENDS Integers

CONSTANTS
    DayLength,          \* ticks of a day
    OpenAt,             \* the loaded calendar: session day -> time of the open
    CloseAt,            \* session day -> time of the close, earlier on a half-day
    OffsetsFromOpen,    \* event -> ticks after (or before) the open
    OffsetsFromClose,   \* event -> ticks after the close
    ScanFirstOffset,    \* open to the first intraday scan
    ScanInterval        \* SCAN_INTERVAL_MIN

Day(t) == t \div DayLength

\* The intraday scans: from the first offset on, while before the close.
ScanTimes(d) == {t \in (OpenAt[d] + ScanFirstOffset)..(CloseAt[d] - 1) :
                    (t - OpenAt[d] - ScanFirstOffset) % ScanInterval = 0}

\* plan_session: the events of the session on day d.
PlanSession(d) ==
    {[at |-> OpenAt[d] + OffsetsFromOpen[n], name |-> n] : n \in DOMAIN OffsetsFromOpen}
        \cup {[at |-> t, name |-> "intraday_scan"] : t \in ScanTimes(d)}
        \cup {[at |-> CloseAt[d] + OffsetsFromClose[n], name |-> n] : n \in DOMAIN OffsetsFromClose}

\* Every event of the loaded calendar.
Events == UNION {PlanSession(d) : d \in DOMAIN OpenAt}

\* Sorting by time is then a total order, and the day order is the time order.
ASSUME TimelineAssumption ==
    /\ DayLength \in Nat \ {0} /\ ScanInterval \in Nat \ {0}
    /\ \A d \in DOMAIN OpenAt : \A e \in PlanSession(d) : e.at \in Nat /\ Day(e.at) = d
    /\ \A e, f \in Events : e.at = f.at => e = f

\* Mutant: the walk over the days starts with tomorrow.
DueAfterToday(now) ==
    {e \in Events : /\ e.at > now
                    /\ Day(e.at) \in (Day(now) + 1)..(Day(now) + 29)}

\* next_event looks at today and the 29 days after it, at what is strictly
\* after now; empty is its LookupError.
Due(now) == {e \in Events : e.at > now /\ Day(e.at) \in Day(now)..(Day(now) + 29)}

\* Mutant: at now counts as well.
NextEventInclusive(now) ==
    LET due == {e \in Events : e.at >= now /\ Day(e.at) \in Day(now)..(Day(now) + 29)}
    IN  CHOOSE e \in due : \A f \in due : e.at <= f.at

\* next_event: the first of them.
NextEvent(now) == CHOOSE e \in Due(now) : \A f \in Due(now) : e.at <= f.at
=============================================================================
