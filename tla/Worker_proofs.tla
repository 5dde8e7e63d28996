--------------------------- MODULE Worker_proofs ---------------------------
(***************************************************************************)
(* The loop loses no event but behind a job and takes none twice, and what *)
(* a scan stores was chosen from that day's universe, for any calendar,    *)
(* any offsets, any length of jobs and any number of restarts.  In the     *)
(* second half, the inside of a scan (Scoring): calls match the verdicts   *)
(* they paid for, stand-ins are marked, and the ranking is fair, for       *)
(* any symbols, headlines, weights, penalties and failures.                *)
(***************************************************************************)
EXTENDS Worker, Scoring, Sums_proofs

-----------------------------------------------------------------------------
\* Days are in the order of times.
LEMMA DayMonotone ==
  ASSUME NEW x \in Nat, NEW y \in Nat, x <= y
  PROVE  Day(x) \in Nat /\ Day(x) <= Day(y)
BY TimelineAssumption DEF Day

LEMMA EventsAreTimed ==
  ASSUME NEW e \in Events
  PROVE  e.at \in Nat
BY TimelineAssumption DEF Events

\* The event the scheduler waits for is the first after now of the whole loaded
\* calendar: what lies beyond the thirty days it looks at is later still.
LEMMA NextIsFirst ==
  ASSUME NEW now \in Nat, Due(now) # {}
  PROVE  /\ NextEvent(now) \in Events
         /\ NextEvent(now).at \in Nat /\ now < NextEvent(now).at
         /\ \A f \in Events : now < f.at => NextEvent(now).at <= f.at
<1> DEFINE Times == {e.at : e \in Due(now)}
<1>1. Due(now) \subseteq Events
  BY DEF Due
<1>2. \E m \in Times : \A n \in Times : m <= n
  <2>1. Times \in SUBSET Nat /\ Times # {}
    BY <1>1, EventsAreTimed
  <2> HIDE DEF Times
  <2> QED BY <2>1, LeastNatural
<1>3. \E e \in Due(now) : \A f \in Due(now) : e.at <= f.at
  BY <1>2
<1>4. NextEvent(now) \in Due(now) /\ \A f \in Due(now) : NextEvent(now).at <= f.at
  BY <1>3 DEF NextEvent
<1>5. /\ NextEvent(now) \in Events
      /\ NextEvent(now).at \in Nat /\ now < NextEvent(now).at
      /\ Day(NextEvent(now).at) <= Day(now) + 29
  <2>1. NextEvent(now).at \in Nat
    BY <1>1, <1>4, EventsAreTimed
  <2>2. NextEvent(now) \in Events /\ NextEvent(now).at > now
        /\ Day(NextEvent(now).at) \in Day(now)..(Day(now) + 29)
    BY <1>4 DEF Due
  <2>3. Day(now) \in Nat
    BY DayMonotone
  <2> QED BY <2>1, <2>2, <2>3
<1>6. ASSUME NEW f \in Events, now < f.at
      PROVE  NextEvent(now).at <= f.at
  <2>1. f.at \in Nat
    BY EventsAreTimed
  <2>2. CASE f \in Due(now)
    BY <2>2, <1>4
  <2>3. CASE f \notin Due(now)
    <3>1. Day(now) \in Nat /\ Day(f.at) \in Nat /\ Day(now) <= Day(f.at)
      BY <2>1, <1>6, DayMonotone
    <3>2. Day(f.at) \notin Day(now)..(Day(now) + 29)
      BY <2>3, <2>1, <1>6 DEF Due
    <3>3. Day(NextEvent(now).at) < Day(f.at)
      <4>1. Day(NextEvent(now).at) \in Nat
        BY <1>5, DayMonotone
      <4> QED BY <3>1, <3>2, <4>1, <1>5
    <3>4. f.at < NextEvent(now).at => Day(f.at) <= Day(NextEvent(now).at)
      BY <2>1, <1>5, DayMonotone
    <3>5. Day(NextEvent(now).at) \in Nat
      BY <1>5, DayMonotone
    <3> QED BY <3>1, <3>3, <3>4, <3>5, <2>1, <1>5
  <2> QED BY <2>2, <2>3
<1> QED BY <1>5, <1>6

\* The screen is asked of every symbol that is eligible: whatever is known of a
\* symbol, and whatever floors it passes, it is eligible only if it may be traded.
LEMMA EligibleMayBeTraded ==
  ASSUME NEW s, NEW known, NEW floors, Classify(s, known, floors) = "eligible"
  PROVE  MayBeTraded(s)
<1>1. Screen(s) = "eligible"
  BY DEF Classify
<1> QED BY <1>1 DEF Screen, MayBeTraded

-----------------------------------------------------------------------------
(***************************************************************************)
(* The inductive invariant.                                                *)
(***************************************************************************)
Records ==
    /\ clock \in Nat /\ since \in 0..clock /\ lives \in 1..MaxLives
    /\ worker \in {"looking", "asleep", "down"} \cup Busy
    /\ next \in Events \cup {NoEvent}
    /\ last \in [event : Events \cup {NoEvent}, until : -1..clock]
    /\ registry \in [at : -1..clock, down : SUBSET Domains]
    /\ work \in [halted : BOOLEAN, daily : SUBSET Symbols]
    /\ instruments \in [Symbols -> Statuses \cup {"none"}]
    /\ scan.at \in Int /\ scan.at <= clock
    /\ scan.stamped \in Int /\ scan.stamped <= clock
    /\ scan.candidates \subseteq Symbols

\* Where the loop is among the events: at a job its event has come; looking, it has
\* left nothing of this life unseen but what came during the last job; asleep, the
\* same and the event it waits for is the first of those to come.
Seen(t) == \A e \in Events : since < e.at /\ e.at <= clock => e.at <= last.until \/ e = t

Loop ==
    /\ last.event.at <= clock
    /\ worker \in Busy => next.at <= clock
    /\ worker \in Busy \cup {"asleep"} => next \in Events
    /\ worker = "looking" => Seen(NoEvent)
    /\ worker = "asleep" =>
          /\ Seen(next) /\ last.event.at < next.at /\ clock <= next.at
          /\ \A e \in Events : clock < e.at => next.at <= e.at

\* The cached universe is what the instruments table was last given, what is eligible
\* in it passed the screen, and a scan that scores has that of its own date.
Backed(cch, table) ==
    \A s \in DOMAIN cch.members :
        /\ s \in Symbols /\ table[s] = cch.members[s]
        /\ cch.members[s] = "eligible" => MayBeTraded(s)

Chosen ==
    /\ Backed(cache, instruments)
    /\ worker = "scoring" => cache.day = Day(next.at)

WorkerInv == Records /\ Loop /\ Chosen

LEMMA WorkerInit == Init => WorkerInv
<1> SUFFICES ASSUME Init PROVE WorkerInv
  OBVIOUS
<1> USE DEF Init
<1>1. Records
  <2>1. registry \in [at : -1..clock, down : SUBSET Domains]
    BY DEF Unasked
  <2>2. last \in [event : Events \cup {NoEvent}, until : -1..clock]
    OBVIOUS
  <2>3. work \in [halted : BOOLEAN, daily : SUBSET Symbols]
    BY DEF NoWork
  <2>4. lives \in 1..MaxLives
    BY WorkerAssumption
  <2> QED BY <2>1, <2>2, <2>3, <2>4 DEF Records, NoScan
<1>2. Loop
  <2>1. Seen(NoEvent)
    BY EventsAreTimed DEF Seen
  <2> QED BY <2>1 DEF Loop, NoEvent, Busy, Stages
<1>3. Chosen
  BY DEF Chosen, Backed, NoCache
<1> QED BY <1>1, <1>2, <1>3 DEF WorkerInv

\* What every record of the state keeps when only the clock goes on.
LEMMA RecordsOverTime ==
  ASSUME WorkerInv, clock' \in Nat, clock <= clock',
         UNCHANGED <<worker, since, next, last, memory, instruments, scan, lives>>
  PROVE  Records'
BY DEF WorkerInv, Records, memory

LEMMA TickKeeps ==
  ASSUME WorkerInv, Tick PROVE WorkerInv'
<1> USE DEF WorkerInv
<1>0. UNCHANGED <<worker, since, next, last, memory, instruments, scan, lives>>
  BY DEF Tick
<1>1. Chosen'
  BY <1>0 DEF Chosen, memory
<1>2. CASE worker \in Busy /\ clock' = clock + 1
  <2>1. clock' \in Nat /\ clock <= clock'
    BY <1>2 DEF Records
  <2>2. Records'
    BY <2>1, <1>0, RecordsOverTime
  <2>3. next.at \in Int /\ last.event.at \in Int
    BY EventsAreTimed DEF Records, NoEvent
  <2>4. worker' \in Busy /\ worker' # "looking" /\ worker' # "asleep"
    BY <1>0, <1>2 DEF Busy, Stages
  <2>5. last.event.at <= clock' /\ next.at <= clock'
    BY <1>2, <2>3 DEF Loop, Records
  <2>6. Loop'
    BY <1>0, <1>2, <2>4, <2>5 DEF Loop
  <2> QED BY <1>1, <2>2, <2>6
<1>3. CASE worker = "asleep" /\ clock < next.at /\ clock' = next.at
  <2>1. next \in Events /\ next.at \in Nat
    BY <1>3, EventsAreTimed DEF Loop
  <2>2. Records'
    BY <2>1, <1>0, <1>3, RecordsOverTime DEF Records
  <2>3. ASSUME NEW e \in Events, since < e.at, e.at <= clock', e # next
        PROVE  e.at <= last.until
    <3>1. e.at \in Nat
      BY EventsAreTimed
    <3>2. ~(clock < e.at)
      <4>1. clock < e.at => e.at = next.at
        BY <3>1, <2>1, <2>3, <1>3 DEF Loop
      <4> QED BY <4>1, <2>1, <2>3, TimelineAssumption
    <3>3. e.at <= clock
      BY <3>1, <3>2 DEF Records
    <3> QED BY <3>3, <2>3, <1>3 DEF Loop, Seen
  <2>4. Seen(next)'
    BY <2>3, <1>0 DEF Seen
  <2>5. last.event.at \in Int /\ last.event.at < next.at
    BY <1>3, EventsAreTimed DEF Loop, Records, NoEvent
  <2>6. /\ last.event.at <= clock' /\ clock' <= next.at
        /\ \A e \in Events : clock' < e.at => next.at <= e.at
    <3>1. last.event.at <= clock' /\ clock' <= next.at
      BY <1>3, <2>1, <2>5
    <3>2. \A e \in Events : clock' < e.at => next.at <= e.at
      BY <1>3, <2>1, EventsAreTimed
    <3> QED BY <3>1, <3>2
  <2>7. worker' = "asleep" /\ ~("asleep" \in Busy)
    BY <1>0, <1>3 DEF Busy, Stages
  <2>8. Loop'
    BY <1>0, <2>1, <2>4, <2>5, <2>6, <2>7 DEF Loop
  <2> QED BY <1>1, <2>2, <2>8
<1>4. CASE worker = "down" /\ Due(clock) # {} /\ clock' = NextEvent(clock).at
  <2>1. clock' \in Nat /\ clock < clock'
    BY <1>4, NextIsFirst DEF Records
  <2>2. Records'
    BY <2>1, <1>0, RecordsOverTime DEF Records
  <2>3. last.event.at \in Int
    BY EventsAreTimed DEF Records, NoEvent
  <2>4. Loop'
    BY <1>0, <1>4, <2>1, <2>3 DEF Loop, Records, Busy, Stages
  <2> QED BY <1>1, <2>2, <2>4
<1> QED BY <1>2, <1>3, <1>4 DEF Tick

LEMMA LookKeeps ==
  ASSUME WorkerInv, Look PROVE WorkerInv'
<1> USE DEF WorkerInv
<1>0. /\ worker = "looking"
      /\ UNCHANGED <<clock, since, last, instruments, scan, lives>>
  BY DEF Look
<1>1. CASE /\ Due(clock) # {} /\ next' = NextEvent(clock)
           /\ worker' = "asleep" /\ UNCHANGED memory
  <2>1. /\ next' \in Events /\ next'.at \in Nat /\ clock < next'.at
        /\ \A e \in Events : clock < e.at => next'.at <= e.at
    BY <1>1, NextIsFirst DEF Records
  <2>2. Records'
    BY <1>0, <1>1, <2>1 DEF Records, memory
  <2>3. Seen(next)'
    <3>1. Seen(NoEvent) /\ ~(NoEvent \in Events)
      BY <1>0, EventsAreTimed DEF Loop, NoEvent
    <3> QED BY <1>0, <3>1 DEF Seen
  <2>4. last.event.at < next'.at
    <3>1. last.event.at \in Int
      BY EventsAreTimed DEF Records, NoEvent
    <3> QED BY <2>1, <3>1 DEF Loop, Records
  <2>5. Loop'
    BY <1>0, <1>1, <2>1, <2>3, <2>4 DEF Loop, Records, Busy, Stages
  <2>6. Chosen'
    BY <1>0, <1>1 DEF Chosen, memory
  <2> QED BY <2>2, <2>5, <2>6
<1>2. CASE worker' = "down" /\ Lose /\ UNCHANGED next
  <2>1. Records'
    BY <1>0, <1>2 DEF Records, Lose, Unasked, NoWork
  <2>2. Loop'
    BY <1>0, <1>2 DEF Loop, Busy, Stages
  <2>3. Chosen'
    BY <1>0, <1>2 DEF Chosen, Backed, Lose, NoCache
  <2> QED BY <2>1, <2>2, <2>3
<1> QED BY <1>1, <1>2 DEF Look

\* A job that is over leaves nothing behind that its own end does not explain.
LEMMA EndedIsSeen ==
  ASSUME WorkerInv, Ended, UNCHANGED <<clock, since, next>>,
         next \in Events, next.at <= clock, worker' \in {"looking", "down"}
  PROVE  Loop' /\ last' \in [event : Events \cup {NoEvent}, until : -1..clock]
<1>1. Seen(NoEvent)'
  BY DEF Seen, Ended
<1>2. last'.event.at <= clock
  BY DEF Ended
<1>3. worker' \notin Busy \cup {"asleep"}
  BY DEF Busy, Stages
<1>4. last' \in [event : Events \cup {NoEvent}, until : -1..clock]
  BY DEF Ended, WorkerInv, Records
<1> QED BY <1>1, <1>2, <1>3, <1>4 DEF Loop

\* A job that goes on stays at its event.
LEMMA StillBusy ==
  ASSUME WorkerInv, worker \in Busy, worker' \in Busy, UNCHANGED <<clock, since, next, last>>
  PROVE  Loop'
BY DEF WorkerInv, Loop, Busy, Stages

LEMMA WakeKeeps ==
  ASSUME WorkerInv, Wake PROVE WorkerInv'
<1> USE DEF WorkerInv
<1>0. /\ worker = "asleep" /\ next \in Events /\ next.at <= clock
      /\ UNCHANGED <<clock, since, next, registry, cache, instruments, scan, lives>>
  <2>1. next \in Events
    BY DEF Wake, Loop
  <2> QED BY <2>1, EventsAreTimed DEF Wake, Records
<1>1. CASE worker' = "looking" /\ Ended /\ UNCHANGED work
  <2>1. Loop' /\ last' \in [event : Events \cup {NoEvent}, until : -1..clock]
    BY <1>0, <1>1, EndedIsSeen
  <2>2. Records'
    BY <1>0, <1>1, <2>1 DEF Records
  <2>3. Chosen'
    BY <1>0, <1>1 DEF Chosen
  <2> QED BY <2>1, <2>2, <2>3
<1>2. CASE /\ worker' = "refreshing"
           /\ work' = [NoWork EXCEPT !.halted = "bars_quotes" \in registry.down]
           /\ UNCHANGED last
  <2>1. Loop'
    BY <1>0, <1>2 DEF Loop, Busy, Stages
  <2>4. work' \in [halted : BOOLEAN, daily : SUBSET Symbols]
    <3>1. work' = [halted |-> ("bars_quotes" \in registry.down), daily |-> {}]
      BY <1>2 DEF NoWork
    <3>2. ("bars_quotes" \in registry.down) \in BOOLEAN
      <4>1. CASE "bars_quotes" \in registry.down
        BY <4>1, Zenon
      <4>2. CASE ~("bars_quotes" \in registry.down)
        <5>1. ("bars_quotes" \in registry.down) = FALSE
          BY <4>2
        <5>2. FALSE \in BOOLEAN
          OBVIOUS
        <5> QED BY <5>1, <5>2
      <4> QED BY <4>1, <4>2
    <3> QED BY <3>1, <3>2, Zenon
  <2>2. Records'
    BY <1>0, <1>2, <2>4 DEF Records, Busy, Stages
  <2>3. Chosen'
    BY <1>0, <1>2 DEF Chosen
  <2> QED BY <2>1, <2>2, <2>3
<1>3. CASE worker' = "at a job" /\ UNCHANGED <<last, work>>
  <2>1. Loop'
    BY <1>0, <1>3 DEF Loop, Busy, Stages
  <2>2. Records'
    BY <1>0, <1>3 DEF Records, Busy, Stages
  <2>3. Chosen'
    BY <1>0, <1>3 DEF Chosen
  <2> QED BY <2>1, <2>2, <2>3
<1> QED BY <1>1, <1>2, <1>3 DEF Wake

LEMMA JobEndsKeeps ==
  ASSUME WorkerInv, JobEnds PROVE WorkerInv'
<1> USE DEF WorkerInv
<1>0. worker \in Busy /\ next \in Events /\ next.at <= clock
  BY DEF JobEnds, Loop, Busy
<1>1. Loop' /\ last' \in [event : Events \cup {NoEvent}, until : -1..clock]
  BY <1>0, EndedIsSeen DEF JobEnds
<1>2. Records'
  BY <1>1 DEF JobEnds, Records, memory
<1>3. Chosen'
  BY DEF JobEnds, Chosen, memory
<1> QED BY <1>1, <1>2, <1>3

LEMMA RefreshKeeps ==
  ASSUME WorkerInv, Refresh PROVE WorkerInv'
<1> USE DEF WorkerInv
<1>1. Loop'
  BY StillBusy DEF Refresh, Busy, Stages
<1>2. Records'
  <2>1. registry' \in [at : -1..clock, down : SUBSET Domains]
    BY DEF Refresh, Records
  <2>2. worker' \in Busy
    BY DEF Refresh, Busy, Stages
  <2> QED BY <2>1, <2>2 DEF Refresh, Records
<1>3. Chosen'
  BY DEF Refresh, Chosen
<1> QED BY <1>1, <1>2, <1>3

LEMMA ClassifyIsStatus ==
  ASSUME NEW s, NEW known, NEW floors
  PROVE  Classify(s, known, floors) \in Statuses
BY DEF Classify, Screen, Statuses

\* A universe that is built is backed by the table it is written to.
LEMMA BuiltIsBacked ==
  ASSUME WorkerInv, NEW daily, BuildUniverse(daily)
  PROVE  /\ Backed(cache', instruments') /\ cache'.day = Day(next.at)
         /\ instruments' \in [Symbols -> Statuses \cup {"none"}]
<1>1. PICK listed \in SUBSET Symbols :
       \E known \in Answers(listed) : \E floors \in SUBSET (daily \cap known) :
         /\ cache' = [day |-> Day(next.at),
                      members |-> [s \in listed |-> Classify(s, known, floors)]]
         /\ instruments' = Upserted([s \in listed |-> Classify(s, known, floors)])
  BY DEF BuildUniverse
<1>0. PICK known, floors :
         /\ cache' = [day |-> Day(next.at),
                      members |-> [s \in listed |-> Classify(s, known, floors)]]
         /\ instruments' = Upserted([s \in listed |-> Classify(s, known, floors)])
  BY <1>1
<1> DEFINE members == [s \in listed |-> Classify(s, known, floors)]
<1>2. DOMAIN members = listed /\ \A s \in listed : members[s] = Classify(s, known, floors)
  OBVIOUS
<1>3. \A s \in listed : members[s] \in Statuses /\ (members[s] = "eligible" => MayBeTraded(s))
  BY <1>2, ClassifyIsStatus, EligibleMayBeTraded
<1>4. cache'.day = Day(next.at) /\ cache'.members = members /\ instruments' = Upserted(members)
  BY <1>0
<1> HIDE DEF members
<1>5. instruments' = [s \in Symbols |-> IF s \in listed THEN members[s] ELSE instruments[s]]
  BY <1>2, <1>4 DEF Upserted
<1>6. instruments' \in [Symbols -> Statuses \cup {"none"}]
  BY <1>3, <1>5 DEF WorkerInv, Records
<1>7. Backed(cache', instruments')
  BY <1>2, <1>3, <1>4, <1>5 DEF Backed
<1> QED BY <1>4, <1>6, <1>7

LEMMA GatherKeeps ==
  ASSUME WorkerInv, Gather PROVE WorkerInv'
<1> USE DEF WorkerInv
<1>1. Loop'
  BY StillBusy DEF Gather, Busy, Stages
<1>2. PICK daily \in Pulls :
         /\ work' = [work EXCEPT !.daily = daily]
         /\ \/ Cached(Day(next.at)) /\ UNCHANGED <<cache, instruments>>
            \/ ~Cached(Day(next.at)) /\ BuildUniverse(daily)
  BY DEF Gather
<1>3. /\ Backed(cache', instruments') /\ cache'.day = Day(next.at)
      /\ instruments' \in [Symbols -> Statuses \cup {"none"}]
  <2>1. CASE Cached(Day(next.at)) /\ UNCHANGED <<cache, instruments>>
    BY <2>1 DEF Cached, Chosen, Records
  <2>2. CASE BuildUniverse(daily)
    BY <2>2, BuiltIsBacked
  <2> QED BY <1>2, <2>1, <2>2
<1>4. work' \in [halted : BOOLEAN, daily : SUBSET Symbols]
  BY <1>2 DEF Records, Pulls
<1>5. Records'
  BY <1>3, <1>4 DEF Gather, Records, Busy, Stages
<1>6. Chosen'
  BY <1>3 DEF Gather, Chosen
<1> QED BY <1>1, <1>5, <1>6

LEMMA ScoreAndStoreKeeps ==
  ASSUME WorkerInv, ScoreAndStore PROVE WorkerInv'
<1> USE DEF WorkerInv
<1>0. worker \in Busy /\ next \in Events /\ next.at <= clock
  BY DEF ScoreAndStore, Loop, Busy, Stages
<1>1. Loop' /\ last' \in [event : Events \cup {NoEvent}, until : -1..clock]
  BY <1>0, EndedIsSeen DEF ScoreAndStore
<1>2. PICK best \in Best(Scored) : scan' = Row(best)
  BY DEF ScoreAndStore
<1>3. best \subseteq Symbols
  BY DEF Best, Scored, Chosen, Backed
<1>4. /\ scan'.at = next.at /\ scan'.stamped = registry.at
      /\ scan'.candidates = best
  BY <1>2 DEF Row
<1>5. Records'
  <2>1. next.at \in Nat
    BY <1>0, EventsAreTimed
  <2>2. work' \in [halted : BOOLEAN, daily : SUBSET Symbols]
    BY DEF ScoreAndStore, NoWork
  <2>3. registry.at \in Int /\ registry.at <= clock
    BY DEF Records
  <2> QED BY <1>0, <1>1, <1>3, <1>4, <2>1, <2>2, <2>3 DEF ScoreAndStore, Records
<1>6. Chosen'
  BY DEF ScoreAndStore, Chosen
<1> QED BY <1>1, <1>5, <1>6

\* What is lost with a process leaves the rest backed.
LEMMA LostIsBacked ==
  ASSUME WorkerInv, Lose, UNCHANGED <<clock, instruments>>, worker' # "scoring"
  PROVE  /\ Chosen'
         /\ registry' \in [at : -1..clock, down : SUBSET Domains]
         /\ work' \in [halted : BOOLEAN, daily : SUBSET Symbols]
BY DEF WorkerInv, Records, Lose, Chosen, Backed, Unasked, NoCache, NoWork

LEMMA DieKeeps ==
  ASSUME WorkerInv, Die PROVE WorkerInv'
<1> USE DEF WorkerInv
<1>1. /\ Chosen'
      /\ registry' \in [at : -1..clock, down : SUBSET Domains]
      /\ work' \in [halted : BOOLEAN, daily : SUBSET Symbols]
  BY LostIsBacked DEF Die
<1>2. Loop' /\ last' \in [event : Events \cup {NoEvent}, until : -1..clock]
  <2>1. CASE worker \in Busy
    <3>1. next \in Events /\ next.at <= clock
      BY <2>1 DEF Loop
    <3> QED BY <2>1, <3>1, EndedIsSeen DEF Die
  <2>2. CASE worker \notin Busy
    <3>1. Loop'
      BY <2>2 DEF Die, Loop, Busy, Stages
    <3> QED BY <2>2, <3>1 DEF Die, Records
  <2> QED BY <2>1, <2>2
<1>3. Records'
  BY <1>1, <1>2 DEF Die, Records
<1> QED BY <1>1, <1>2, <1>3

LEMMA RestartKeeps ==
  ASSUME WorkerInv, Restart PROVE WorkerInv'
<1> USE DEF WorkerInv
<1>1. /\ Chosen'
      /\ registry' \in [at : -1..clock, down : SUBSET Domains]
      /\ work' \in [halted : BOOLEAN, daily : SUBSET Symbols]
  BY LostIsBacked DEF Restart
<1>2. Records'
  <2>1. since' \in 0..clock
    BY DEF Restart, Records
  <2>2. lives' \in 1..MaxLives
    BY WorkerAssumption DEF Restart, Records
  <2> QED BY <1>1, <2>1, <2>2 DEF Restart, Records
<1>3. Loop'
  <2>1. Seen(NoEvent)'
    BY EventsAreTimed DEF Seen, Restart, Records
  <2> QED BY <2>1 DEF Restart, Loop, Busy, Stages
<1> QED BY <1>1, <1>2, <1>3

LEMMA WorkerNext == WorkerInv /\ [Next]_vars => WorkerInv'
<1> SUFFICES ASSUME WorkerInv, [Next]_vars PROVE WorkerInv'
  OBVIOUS
<1>1. CASE Tick          BY <1>1, TickKeeps
<1>2. CASE Look          BY <1>2, LookKeeps
<1>3. CASE Wake          BY <1>3, WakeKeeps
<1>4. CASE JobEnds       BY <1>4, JobEndsKeeps
<1>5. CASE Refresh       BY <1>5, RefreshKeeps
<1>6. CASE Gather        BY <1>6, GatherKeeps
<1>7. CASE ScoreAndStore BY <1>7, ScoreAndStoreKeeps
<1>8. CASE Die           BY <1>8, DieKeeps
<1>9. CASE Restart       BY <1>9, RestartKeeps
<1>10. CASE UNCHANGED vars
  BY <1>10 DEF vars, memory, WorkerInv, Records, Loop, Seen, Chosen
<1> QED BY <1>1, <1>2, <1>3, <1>4, <1>5, <1>6, <1>7, <1>8, <1>9, <1>10 DEF Next

LEMMA WorkerInvariant == Spec => []WorkerInv
BY WorkerInit, WorkerNext, PTL DEF Spec

-----------------------------------------------------------------------------
\* The clock, the rows and the caches keep their types, and nothing stored is
\* stamped with a time still to come. (Scheduler, ScanRunner, SourceRegistry)
THEOREM WorkerTypeCorrect == Spec => []TypeOK
<1>1. WorkerInv => TypeOK
  <2> SUFFICES ASSUME WorkerInv PROVE TypeOK
    OBVIOUS
  <2>1. DOMAIN cache.members \subseteq Symbols
    BY DEF WorkerInv, Chosen, Backed
  <2> QED BY <2>1 DEF WorkerInv, Records, TypeOK
<1> QED BY <1>1, WorkerInvariant, PTL

\* For any calendar and jobs of any length: an event that a living worker has not
\* taken up when it waits for another came while a job was running.
\* (Scheduler.next_event, run_once)
THEOREM WorkerMissesOnlyBehindAJob == Spec => []MissedOnlyBehindAJob
<1>1. WorkerInv => MissedOnlyBehindAJob
  BY DEF WorkerInv, Loop, Seen, MissedOnlyBehindAJob
<1> QED BY <1>1, WorkerInvariant, PTL

\* No event is taken up twice and none out of order, over any number of restarts.
\* (Scheduler.next_event, run_once)
THEOREM WorkerNoEventTwice == Spec => NoEventTwice
<1>1. WorkerInv /\ [Next]_vars =>
        [worker = "asleep" /\ worker' # "asleep" /\ worker' # "down"
           => last.event.at < next.at]_vars
  BY DEF WorkerInv, Loop
<1> QED BY <1>1, WorkerInvariant, PTL DEF Spec, NoEventTwice

\* Whatever lists, answers and bars a scan is given, and wherever it is cut short: what
\* it stores was eligible in the universe the table was given on the scan's own date
\* and passed the screen. (ScanRunner.universe, classify, Scanner.run, persist_scan)
THEOREM WorkerCandidatesAreOfTheDay == Spec => CandidatesAreOfTheDay
<1> DEFINE Stored == scan' # scan =>
        /\ cache.day = Day(scan'.at)
        /\ \A s \in DOMAIN cache.members : instruments[s] = cache.members[s]
        /\ \A s \in scan'.candidates : MayBeTraded(s) /\ instruments[s] = "eligible"
<1>1. ASSUME WorkerInv, ScoreAndStore PROVE Stored
  <2>1. PICK best \in Best(Scored) : scan' = Row(best)
    BY <1>1 DEF ScoreAndStore
  <2>2. scan'.at = next.at /\ scan'.candidates = best
    BY <2>1 DEF Row
  <2>3. best \subseteq Scored
    BY DEF Best
  <2>4. worker = "scoring"
    BY <1>1 DEF ScoreAndStore
  <2> QED BY <1>1, <2>2, <2>3, <2>4 DEF WorkerInv, Chosen, Backed, Scored
<1>2. ASSUME [Next]_vars, ~ScoreAndStore PROVE scan' = scan
  BY <1>2 DEF Next, vars, Tick, Look, Wake, JobEnds, Refresh, Gather, Die, Restart
<1>3. WorkerInv /\ [Next]_vars => [Stored]_vars
  <2> HIDE DEF Stored
  <2>1. scan' = scan => Stored
    BY DEF Stored
  <2> QED BY <1>1, <1>2, <2>1
<1> QED BY <1>3, WorkerInvariant, PTL DEF Spec, CandidatesAreOfTheDay

-----------------------------------------------------------------------------
(***************************************************************************)
(* The scoring stage of a scan, taken apart in Scoring.  Whatever Jev does *)
(* at each headline and wherever the worker dies, a stored scan has a call *)
(* for each of its verdicts and says when the rule stood in for it;        *)
(* for any symbols, any number of headlines, any answers and any weights.  *)
(***************************************************************************)
\* What the scan in hand and the stored one are made of; a call in hand is about a
\* symbol that is still to be judged.
Kinds ==
    /\ todo \subseteq Eligible /\ headlines \in [Eligible -> 0..MaxHeadlines]
    /\ stage \in {"idle", "judging", "down"} /\ classifier \in {"jev", "keyword"}
    /\ key \in BOOLEAN /\ calls \in Nat /\ byJev \in Nat /\ byRule \in Nat /\ unavailable \in BOOLEAN
    /\ llmCalls \in Nat /\ answered \in Nat
    /\ at \in [symbol : Eligible \cup {None}, left : Nat, useJev : BOOLEAN, down : BOOLEAN,
               calls : Nat, strength : {at.strength}]
    /\ at.symbol = None => at = NoCall
    /\ at.symbol # None => stage = "judging" /\ at.symbol \in todo
    /\ stage # "judging" => calls = 0

\* Who judged: the rule has judged a headline exactly when that is noted, for the scan
\* or in the call in hand, or there is one for it to judge next.
ByWhom ==
    /\ classifier = "jev" /\ at.symbol # None => (at.useJev <=> ~at.down)
    /\ classifier = "keyword" => ~unavailable /\ ~at.useJev /\ ~at.down
    /\ at.down /\ at.left = 0 => byRule > 0
    /\ unavailable => byRule > 0
    /\ classifier = "jev" /\ byRule > 0 /\ stage = "judging" => unavailable \/ at.down
    /\ stage = "judging" => calls + at.calls = byJev

ScoringInv == Kinds /\ ByWhom /\ CallsMatchVerdicts /\ FallbackIsMarked

\* How many headlines the symbols in B have.
HeadlinesOf(h, B) == Tally([s \in B |-> h[s]], MaxHeadlines)

LEMMA ScoringSizes == IsFiniteSet(Eligible) /\ MaxHeadlines \in Nat /\ None \notin Eligible
BY ScoringAssumption DEF None

\* No symbol has no headlines.
LEMMA HeadlinesNone ==
    ASSUME NEW h
    PROVE  HeadlinesOf(h, {}) = 0
<1>1. Units([s \in {} |-> h[s]], MaxHeadlines) = {}
  BY DEF Units
<1> QED BY <1>1, FS_EmptySet DEF HeadlinesOf, Tally

\* One symbol more adds its headlines.
LEMMA HeadlinesAdd ==
    ASSUME NEW h \in [Eligible -> 0..MaxHeadlines],
           NEW B \in SUBSET Eligible, NEW s \in Eligible \ B
    PROVE  HeadlinesOf(h, B \cup {s}) = HeadlinesOf(h, B) + h[s] /\ HeadlinesOf(h, B) \in Nat
<1> DEFINE f == [x \in B |-> h[x]]
           g == [x \in B \cup {s} |-> h[x]]
<1>1. IsFiniteSet(B) /\ MaxHeadlines \in Nat
  BY ScoringSizes, FS_Subset
<1>2. Grows(f, g, s, MaxHeadlines) /\ g[s] = h[s] /\ DOMAIN f = B
  BY <1>1 DEF Grows
<1> HIDE DEF f, g
<1>3. Tally(g, MaxHeadlines) = Tally(f, MaxHeadlines) + g[s]
  BY <1>2, TallyAdd
<1>4. Tally(f, MaxHeadlines) \in Nat
  BY <1>1, <1>2, TallyType, Zenon
<1> QED BY <1>2, <1>3, <1>4 DEF HeadlinesOf, f, g

\* The symbols begun are those done and the one in hand.
LEMMA Begins ==
    ASSUME Kinds
    PROVE  /\ at.symbol = None => Begun = Eligible \ todo
           /\ at.symbol # None => Begun = (Eligible \ todo) \cup {at.symbol}
<1> QED BY ScoringSizes DEF Kinds, Begun

NoneInHand == at.symbol = None /\ at.left = 0 /\ at.calls = 0 /\ ~at.useJev /\ ~at.down

LEMMA NoCallIsNone == at = NoCall => NoneInHand
BY DEF NoCall, NoneInHand

\* What the invariant says of a step, part by part, the accounts with HeadlinesOf.
ScoringParts ==
    /\ Kinds /\ ByWhom /\ FallbackIsMarked
    /\ llmCalls + calls + at.calls <= answered
    /\ stage = "judging" => byJev + byRule + at.left = HeadlinesOf(headlines, Begun)
    /\ row.calls = row.byJev

LEMMA ScoringInvParts == ScoringInv <=> ScoringParts
BY DEF ScoringInv, ScoringParts, ByWhom, CallsMatchVerdicts, HeadlinesOf

LEMMA ScoringInvPartsPrime == ScoringInv' <=> ScoringParts'
<1>1. CallsMatchVerdicts' <=>
        /\ stage' = "judging" =>
              /\ byJev' + byRule' + at.left' = HeadlinesOf(headlines', Begun')
              /\ calls' + at.calls' = byJev'
        /\ row.calls' = row.byJev'
        /\ llmCalls' + calls' + at.calls' <= answered'
  BY DEF CallsMatchVerdicts, HeadlinesOf
<1>2. ByWhom' => (stage' = "judging" => calls' + at.calls' = byJev')
  BY DEF ByWhom
<1> QED BY <1>1, <1>2 DEF ScoringInv, ScoringParts

LEMMA ScoringInitially == ScoringInit => ScoringInv
<1> SUFFICES ASSUME ScoringInit PROVE ScoringParts
  BY ScoringInvParts
<1>1. NoneInHand
  BY NoCallIsNone DEF ScoringInit
<1>2. Kinds
  <2>1. at.strength = 0 /\ at \in [symbol : Eligible \cup {None}, left : Nat, useJev : BOOLEAN,
            down : BOOLEAN, calls : Nat, strength : {0}] /\ at = NoCall
    BY DEF ScoringInit, NoCall
  <2>2. todo \subseteq Eligible /\ headlines \in [Eligible -> 0..MaxHeadlines]
    BY ScoringSizes DEF ScoringInit
  <2>3. at.symbol = None
    BY <1>1 DEF NoneInHand
  <2> QED BY <2>1, <2>2, <2>3 DEF ScoringInit, Kinds
<1>3. ByWhom
  BY <1>1 DEF ScoringInit, ByWhom, NoneInHand
<1>4. FallbackIsMarked
  <2>1. row.unavailable = FALSE /\ row.byRule = 0
    BY DEF ScoringInit, NoRow
  <2>2. ~(row.byRule > 0)
    BY <2>1
  <2> QED BY <2>1, <2>2, Zenon DEF FallbackIsMarked
<1> QED BY <1>1, <1>2, <1>3, <1>4 DEF ScoringInit, ScoringParts, NoRow, NoneInHand

\* A step that leaves the stored scan alone leaves what it says true.
LEMMA RowKept ==
    ASSUME ScoringParts, UNCHANGED <<classifier, key, row>>
    PROVE  FallbackIsMarked' /\ row'.calls = row'.byJev
BY DEF ScoringParts, FallbackIsMarked

LEMMA StartScanKeeps ==
    ASSUME ScoringInv, StartScan
    PROVE  ScoringInv'
<1>1. ScoringParts /\ Kinds /\ ByWhom
  BY ScoringInvParts DEF ScoringParts
<1>2. /\ stage = "idle" /\ stage' = "judging" /\ headlines' \in [Eligible -> 0..MaxHeadlines]
      /\ todo' = Eligible /\ at' = NoCall /\ calls' = 0 /\ unavailable' = FALSE
      /\ byJev' = 0 /\ byRule' = 0
      /\ UNCHANGED <<classifier, key, row, llmCalls, answered>>
  BY DEF StartScan, Afresh, config
<1>3. NoneInHand' /\ NoneInHand /\ calls = 0
  <2>1. at = NoCall /\ calls = 0
    BY <1>1, <1>2 DEF Kinds
  <2> QED BY <1>2, <2>1, NoCallIsNone DEF NoCall, NoneInHand
<1>4. Kinds'
  <2>1. at' \in [symbol : Eligible \cup {None}, left : Nat, useJev : BOOLEAN, down : BOOLEAN,
                 calls : Nat, strength : {at'.strength}]
    BY <1>2 DEF NoCall
  <2> QED BY <1>1, <1>2, <1>3, <2>1 DEF Kinds, NoneInHand
<1>5. ByWhom'
  BY <1>2, <1>3 DEF ByWhom, NoneInHand
<1>6. HeadlinesOf(headlines', Begun') = 0
  <2>1. Begun' = {}
    BY <1>2, <1>3 DEF Begun, NoneInHand
  <2> QED BY <2>1, HeadlinesNone
<1>7. llmCalls' + calls' + at'.calls <= answered'
  BY <1>1, <1>2, <1>3 DEF ScoringParts, NoneInHand
<1> QED
  BY <1>1, <1>2, <1>3, <1>4, <1>5, <1>6, <1>7, RowKept, ScoringInvPartsPrime DEF ScoringParts, NoneInHand

\* A call in hand is of the same kind after any of its steps.
LEMMA CallKind ==
    ASSUME NEW c, NEW x \in Eligible \cup {None}, NEW l \in Nat, NEW u \in BOOLEAN,
           NEW d \in BOOLEAN, NEW k \in Nat, NEW g,
           c = [symbol |-> x, left |-> l, useJev |-> u, down |-> d, calls |-> k, strength |-> g]
    PROVE  /\ c \in [symbol : Eligible \cup {None}, left : Nat, useJev : BOOLEAN, down : BOOLEAN,
                     calls : Nat, strength : {c.strength}]
           /\ c.symbol = x /\ c.left = l /\ c.useJev = u /\ c.down = d /\ c.calls = k
OBVIOUS

LEMMA ClassifyKeeps ==
    ASSUME ScoringInv, NEW s \in Eligible, ClassifySymbol(s)
    PROVE  ScoringInv'
<1>1. ScoringParts /\ Kinds /\ ByWhom
  BY ScoringInvParts DEF ScoringParts
<1>2. /\ stage = "judging" /\ at = NoCall /\ s \in todo
      /\ UNCHANGED <<classifier, key, stage, headlines, calls, unavailable, byJev, byRule, row,
                     llmCalls, answered>>
  BY DEF ClassifySymbol, config
<1>3. NoneInHand /\ Begun = Eligible \ todo /\ None \notin Eligible
  BY <1>1, <1>2, NoCallIsNone, Begins, ScoringSizes DEF NoneInHand
<1>4. /\ HeadlinesOf(headlines, Begun \cup {s}) = HeadlinesOf(headlines, Begun) + headlines[s]
      /\ HeadlinesOf(headlines, Begun) \in Nat /\ headlines[s] \in 0..MaxHeadlines
  BY <1>1, <1>2, <1>3, HeadlinesAdd DEF Kinds
<1>5. CASE headlines[s] = 0
  <2>1. todo' = todo \ {s} /\ at' = at
    BY <1>5 DEF ClassifySymbol
  <2>2. Begun' = Begun \cup {s}
    BY <1>1, <1>2, <1>3, <2>1 DEF Begun, NoneInHand, Kinds
  <2>3. Kinds'
    BY <1>1, <1>2, <1>3, <2>1 DEF Kinds, NoneInHand
  <2>4. ByWhom'
    BY <1>1, <1>2, <2>1 DEF ByWhom
  <2> QED BY <1>1, <1>2, <1>4, <1>5, <2>1, <2>2, <2>3, <2>4, RowKept, ScoringInvPartsPrime
          DEF ScoringParts, Kinds
<1>6. CASE headlines[s] # 0
  <2>1. /\ todo' = todo
        /\ at' = [NoCall EXCEPT !.symbol = s, !.left = headlines[s],
                                  !.useJev = classifier = "jev" /\ key,
                                  !.down = classifier = "jev" /\ ~key]
    BY <1>6 DEF ClassifySymbol
  <2>2. /\ at'.symbol = s /\ at'.left = headlines[s] /\ at'.calls = 0
        /\ at'.useJev = (classifier = "jev" /\ key) /\ at'.down = (classifier = "jev" /\ ~key)
        /\ at' \in [symbol : Eligible \cup {None}, left : Nat, useJev : BOOLEAN, down : BOOLEAN,
                    calls : Nat, strength : {at'.strength}]
    <3> DEFINE u == classifier = "jev" /\ key
               d == classifier = "jev" /\ ~key
    <3>1. at' = [symbol |-> s, left |-> headlines[s], useJev |-> u, down |-> d, calls |-> 0,
                 strength |-> 0]
      BY <2>1, Zenon DEF NoCall
    <3>2. s \in Eligible \cup {None} /\ headlines[s] \in Nat /\ 0 \in Nat /\ u \in BOOLEAN
          /\ d \in BOOLEAN
      BY <1>4
    <3> HIDE DEF u, d
    <3>3. /\ at'.symbol = s /\ at'.left = headlines[s] /\ at'.calls = 0
          /\ at'.useJev = u /\ at'.down = d
          /\ at' \in [symbol : Eligible \cup {None}, left : Nat, useJev : BOOLEAN, down : BOOLEAN,
                      calls : Nat, strength : {at'.strength}]
      BY ONLY <3>1, <3>2, CallKind
    <3> QED BY <3>3 DEF u, d
  <2>3. Begun' = Begun \cup {s}
    BY <1>1, <1>2, <1>3, <2>1, <2>2 DEF Begun, NoneInHand, Kinds
  <2>4. Kinds'
    BY <1>1, <1>2, <1>3, <2>1, <2>2 DEF Kinds
  <2>5. ByWhom'
    BY <1>1, <1>2, <1>3, <1>4, <1>6, <2>2 DEF ByWhom, NoneInHand, Kinds
  <2> QED BY <1>1, <1>2, <1>3, <1>4, <2>2, <2>3, <2>4, <2>5, RowKept, ScoringInvPartsPrime
          DEF ScoringParts, Kinds, NoneInHand
<1> QED BY <1>5, <1>6

\* What every step of a call in hand has in common: the symbols begun stay the same.
LEMMA InHand ==
    ASSUME Kinds, at.left > 0
    PROVE  at.symbol # None /\ stage = "judging"
<1>1. at.symbol # None
  BY NoCallIsNone DEF Kinds, NoneInHand
<1> QED BY <1>1 DEF Kinds

LEMMA JevAnswersKeeps ==
    ASSUME ScoringInv, NEW m, JevAnswers(m)
    PROVE  ScoringInv'
<1>1. ScoringParts /\ Kinds /\ ByWhom
  BY ScoringInvParts DEF ScoringParts
<1>2. /\ at.left > 0 /\ at.useJev /\ answered' = answered + 1 /\ byJev' = byJev + 1
      /\ at' = [at EXCEPT !.left = @ - 1, !.calls = @ + 1, !.strength = Stronger(@, m)]
      /\ UNCHANGED <<classifier, key, stage, headlines, todo, calls, unavailable, byRule, row,
                     llmCalls>>
  BY DEF JevAnswers, config
<1>3. at.symbol # None /\ stage = "judging"
  BY <1>1, <1>2, InHand
<1>4. /\ at'.symbol = at.symbol /\ at'.left = at.left - 1 /\ at'.calls = at.calls + 1
      /\ at'.useJev = at.useJev /\ at'.down = at.down
      /\ at' \in [symbol : Eligible \cup {None}, left : Nat, useJev : BOOLEAN, down : BOOLEAN,
                  calls : Nat, strength : {at'.strength}]
  <2>1. /\ at.symbol \in Eligible \cup {None} /\ at.left - 1 \in Nat /\ at.useJev \in BOOLEAN
        /\ at.down \in BOOLEAN /\ at.calls + 1 \in Nat
    BY <1>1, <1>2 DEF Kinds
  <2>2. \E g : at' = [symbol |-> at.symbol, left |-> at.left - 1, useJev |-> at.useJev,
                      down |-> at.down, calls |-> at.calls + 1, strength |-> g]
    BY <1>1, <1>2 DEF Kinds
  <2> QED BY ONLY <2>1, <2>2, CallKind
<1>5. Begun' = Begun
  BY <1>2, <1>4 DEF Begun
<1>6. Kinds'
  BY <1>1, <1>2, <1>3, <1>4 DEF Kinds
<1>7. ByWhom'
  <2>1. /\ at'.symbol = at.symbol /\ at'.calls = at.calls + 1 /\ (at'.useJev <=> at.useJev)
        /\ (at'.down <=> at.down) /\ (unavailable' <=> unavailable) /\ classifier \in {"jev", "keyword"}
    BY <1>1, <1>2, <1>4 DEF Kinds
  <2>2. calls + at'.calls = calls + at.calls + 1 /\ byRule' = byRule
    BY <1>1, <1>2, <1>4 DEF Kinds
  <2> QED BY <1>1, <1>2, <1>3, <2>1, <2>2 DEF ByWhom
<1> QED BY <1>1, <1>2, <1>3, <1>4, <1>5, <1>6, <1>7, RowKept, ScoringInvPartsPrime
        DEF ScoringParts, Kinds

LEMMA RuleJudgesKeeps ==
    ASSUME ScoringInv, RuleJudges
    PROVE  ScoringInv'
<1>1. ScoringParts /\ Kinds /\ ByWhom
  BY ScoringInvParts DEF ScoringParts
<1>2. /\ at.left > 0 /\ ~at.useJev /\ byRule' = byRule + 1
      /\ \E m : at' = [at EXCEPT !.left = @ - 1, !.strength = m]
      /\ UNCHANGED <<classifier, key, stage, headlines, todo, calls, unavailable, byJev, row,
                     llmCalls, answered>>
  BY DEF RuleJudges, config
<1>3. at.symbol # None /\ stage = "judging"
  BY <1>1, <1>2, InHand
<1>4. /\ at'.symbol = at.symbol /\ at'.left = at.left - 1 /\ at'.calls = at.calls
      /\ at'.useJev = at.useJev /\ at'.down = at.down
      /\ at' \in [symbol : Eligible \cup {None}, left : Nat, useJev : BOOLEAN, down : BOOLEAN,
                  calls : Nat, strength : {at'.strength}]
  <2>1. /\ at.symbol \in Eligible \cup {None} /\ at.left - 1 \in Nat /\ at.useJev \in BOOLEAN
        /\ at.down \in BOOLEAN /\ at.calls \in Nat
    BY <1>1, <1>2 DEF Kinds
  <2>2. \E g : at' = [symbol |-> at.symbol, left |-> at.left - 1, useJev |-> at.useJev,
                      down |-> at.down, calls |-> at.calls, strength |-> g]
    BY <1>1, <1>2 DEF Kinds
  <2> QED BY ONLY <2>1, <2>2, CallKind
<1>5. Begun' = Begun
  BY <1>2, <1>4 DEF Begun
<1>6. Kinds'
  BY <1>1, <1>2, <1>3, <1>4 DEF Kinds
<1>7. ByWhom'
  <2>1. /\ at'.symbol = at.symbol /\ at'.calls = at.calls /\ (at'.useJev <=> at.useJev)
        /\ (at'.down <=> at.down) /\ (unavailable' <=> unavailable) /\ classifier \in {"jev", "keyword"}
    BY <1>1, <1>2, <1>4 DEF Kinds
  <2>2. byRule' > 0 /\ calls' + at'.calls = calls + at.calls
    BY <1>1, <1>2, <1>4 DEF Kinds
  <2> QED BY <1>1, <1>2, <1>3, <2>1, <2>2 DEF ByWhom
<1> QED BY <1>1, <1>2, <1>3, <1>4, <1>5, <1>6, <1>7, RowKept, ScoringInvPartsPrime
        DEF ScoringParts, Kinds

LEMMA JevFailsKeeps ==
    ASSUME ScoringInv, JevFails
    PROVE  ScoringInv'
<1>1. ScoringParts /\ Kinds /\ ByWhom
  BY ScoringInvParts DEF ScoringParts
<1>2. /\ at.left > 0 /\ at.useJev
      /\ at' = [at EXCEPT !.useJev = FALSE, !.down = TRUE]
      /\ UNCHANGED <<classifier, key, stage, headlines, todo, calls, unavailable, byJev, byRule,
                     row, llmCalls, answered>>
  BY DEF JevFails, config
<1>3. at.symbol # None /\ stage = "judging"
  BY <1>1, <1>2, InHand
<1>4. /\ at'.symbol = at.symbol /\ at'.left = at.left /\ at'.calls = at.calls
      /\ at'.useJev = FALSE /\ at'.down = TRUE
      /\ at' \in [symbol : Eligible \cup {None}, left : Nat, useJev : BOOLEAN, down : BOOLEAN,
                  calls : Nat, strength : {at'.strength}]
  BY <1>1, <1>2 DEF Kinds
<1>5. Begun' = Begun
  BY <1>2, <1>4 DEF Begun
<1>6. Kinds'
  BY <1>1, <1>2, <1>3, <1>4 DEF Kinds
<1>7. ByWhom'
  BY <1>1, <1>2, <1>3, <1>4 DEF ByWhom, Kinds
<1> QED BY <1>1, <1>2, <1>3, <1>4, <1>5, <1>6, <1>7, RowKept, ScoringInvPartsPrime
        DEF ScoringParts, Kinds

\* A scan that is given up takes its calls with it, and has nothing recorded.
LEMMA AbandonKeeps ==
    ASSUME ScoringInv, Abandon, answered' \in {answered, answered + 1}
    PROVE  ScoringInv'
<1>1. ScoringParts /\ Kinds /\ ByWhom
  BY ScoringInvParts DEF ScoringParts
<1>2. /\ stage' = "down" /\ headlines' = [s \in Eligible |-> 0]
      /\ todo' = Eligible /\ at' = NoCall /\ calls' = 0 /\ unavailable' = FALSE
      /\ byJev' = 0 /\ byRule' = 0
      /\ UNCHANGED <<classifier, key, row, llmCalls>>
  BY DEF Abandon, Afresh, config
<1>3. NoneInHand'
  BY <1>2 DEF NoCall, NoneInHand
<1>4. Kinds'
  <2>1. at' \in [symbol : Eligible \cup {None}, left : Nat, useJev : BOOLEAN, down : BOOLEAN,
                 calls : Nat, strength : {at'.strength}]
    BY <1>2 DEF NoCall
  <2>2. headlines' \in [Eligible -> 0..MaxHeadlines]
    BY <1>2, ScoringSizes
  <2>3. answered' \in Nat
    BY <1>1, <1>2 DEF Kinds
  <2> QED BY <1>1, <1>2, <1>3, <2>1, <2>2, <2>3 DEF Kinds, NoneInHand
<1>5. ByWhom'
  BY <1>2, <1>3 DEF ByWhom, NoneInHand
<1>6. llmCalls' + calls' + at'.calls <= answered'
  BY <1>1, <1>2, <1>3 DEF ScoringParts, NoneInHand, Kinds
<1> QED BY <1>1, <1>2, <1>4, <1>5, <1>6, RowKept, ScoringInvPartsPrime DEF ScoringParts

LEMMA ClassifiedKeeps ==
    ASSUME ScoringInv, Classified
    PROVE  ScoringInv'
<1>1. ScoringParts /\ Kinds /\ ByWhom
  BY ScoringInvParts DEF ScoringParts
<1>2. /\ at.symbol # None /\ at.left = 0 /\ calls' = calls + at.calls
      /\ unavailable' = (unavailable \/ at.down)
      /\ todo' = todo \ {at.symbol} /\ at' = NoCall
      /\ UNCHANGED <<classifier, key, stage, headlines, byJev, byRule, row, llmCalls, answered>>
  BY DEF Classified, config
<1>3. NoneInHand' /\ stage = "judging" /\ at.symbol \in todo
  BY <1>1, <1>2 DEF NoCall, NoneInHand, Kinds
<1>4. Kinds'
  <2>1. at' \in [symbol : Eligible \cup {None}, left : Nat, useJev : BOOLEAN, down : BOOLEAN,
                 calls : Nat, strength : {at'.strength}]
    BY <1>2 DEF NoCall
  <2>2. calls' \in Nat /\ unavailable' \in BOOLEAN
    BY <1>1, <1>2 DEF Kinds
  <2> QED BY <1>1, <1>2, <1>3, <2>1, <2>2 DEF Kinds, NoneInHand
<1>5. ByWhom'
  BY <1>1, <1>2, <1>3 DEF ByWhom, NoneInHand, Kinds
<1>6. Begun' = Begun
  BY <1>1, <1>2, <1>3 DEF Begun, NoneInHand, Kinds
<1>7. llmCalls' + calls' + at'.calls <= answered'
  BY <1>1, <1>2, <1>3 DEF ScoringParts, NoneInHand, Kinds
<1> QED BY <1>1, <1>2, <1>3, <1>4, <1>5, <1>6, <1>7, RowKept, ScoringInvPartsPrime
        DEF ScoringParts, NoneInHand

LEMMA StoreKeeps ==
    ASSUME ScoringInv, Store
    PROVE  ScoringInv'
<1>1. ScoringParts /\ Kinds /\ ByWhom
  BY ScoringInvParts DEF ScoringParts
<1>2. /\ stage = "judging" /\ at = NoCall /\ stage' = "idle"
      /\ row'.unavailable = unavailable /\ row'.calls = calls /\ row'.byJev = byJev
      /\ row'.byRule = byRule
      /\ llmCalls' = llmCalls + calls /\ calls' = 0 /\ headlines' = [s \in Eligible |-> 0]
      /\ UNCHANGED <<classifier, key, todo, at, unavailable, byJev, byRule, answered>>
  BY DEF Store, config
<1>3. NoneInHand
  BY <1>2, NoCallIsNone
<1>4. Kinds'
  BY <1>1, <1>2, <1>3, ScoringSizes DEF Kinds, NoneInHand
<1>5. ByWhom'
  BY <1>1, <1>2, <1>3 DEF ByWhom, NoneInHand
<1>6. row'.calls = row'.byJev
  BY <1>1, <1>2, <1>3 DEF ByWhom, Kinds, NoneInHand
<1>7. FallbackIsMarked'
  <2>1. unavailable <=> (classifier = "jev" /\ byRule > 0)
    BY <1>1, <1>2, <1>3 DEF ByWhom, Kinds, NoneInHand
  <2>2. row'.unavailable = unavailable /\ unavailable \in BOOLEAN /\ row'.byRule = byRule
        /\ classifier' = classifier
    BY <1>1, <1>2 DEF Kinds
  <2> QED BY <2>1, <2>2, Zenon DEF FallbackIsMarked
<1>8. llmCalls' + calls' + at'.calls <= answered'
  BY <1>1, <1>2, <1>3 DEF ScoringParts, NoneInHand, Kinds
<1> QED BY <1>2, <1>4, <1>5, <1>6, <1>7, <1>8, ScoringInvPartsPrime DEF ScoringParts

LEMMA ScoringRestartKeeps ==
    ASSUME ScoringInv, RestartWorker
    PROVE  ScoringInv'
<1>1. ScoringParts /\ Kinds /\ ByWhom
  BY ScoringInvParts DEF ScoringParts
<1>2. /\ stage = "down" /\ stage' = "idle"
      /\ UNCHANGED <<classifier, key, headlines, todo, at, calls, unavailable, byJev, byRule, row,
                     llmCalls, answered>>
  BY DEF RestartWorker, config, judged
<1>3. Kinds'
  BY <1>1, <1>2 DEF Kinds
<1>4. ByWhom'
  BY <1>1, <1>2 DEF ByWhom
<1> QED BY <1>1, <1>2, <1>3, <1>4, RowKept, ScoringInvPartsPrime DEF ScoringParts

LEMMA ScoringStays ==
    ASSUME ScoringInv, UNCHANGED scoringVars
    PROVE  ScoringInv'
<1>1. ScoringParts /\ Kinds /\ ByWhom
  BY ScoringInvParts DEF ScoringParts
<1>2. UNCHANGED <<classifier, key, stage, headlines, todo, at, calls, unavailable, byJev, byRule,
                  row, llmCalls, answered>>
  BY DEF scoringVars, config, judged
<1>3. Kinds'
  BY <1>1, <1>2 DEF Kinds
<1>4. ByWhom'
  BY <1>1, <1>2 DEF ByWhom
<1>5. Begun' = Begun
  BY <1>2 DEF Begun
<1> QED BY <1>1, <1>2, <1>3, <1>4, <1>5, RowKept, ScoringInvPartsPrime DEF ScoringParts

LEMMA ScoringStep == ScoringInv /\ [ScoringNext]_scoringVars => ScoringInv'
<1> SUFFICES ASSUME ScoringInv, [ScoringNext]_scoringVars PROVE ScoringInv'
  OBVIOUS
<1>1. CASE JevAnswersUnreadably
  BY <1>1, AbandonKeeps DEF JevAnswersUnreadably
<1>2. CASE DieJudging
  BY <1>2, AbandonKeeps DEF DieJudging
<1> QED
  BY <1>1, <1>2, StartScanKeeps, ClassifyKeeps, JevAnswersKeeps, RuleJudgesKeeps, JevFailsKeeps,
     ClassifiedKeeps, StoreKeeps, ScoringRestartKeeps, ScoringStays DEF ScoringNext

LEMMA ScoringInvariant == ScoringSpec => []ScoringInv
<1>1. ScoringInit => ScoringInv
  BY ScoringInitially
<1> QED BY <1>1, ScoringStep, PTL DEF ScoringSpec

\* Every headline of the symbols begun has been judged once or is still to be; a scan
\* has a call for each of Jev's verdicts, in hand and stored; and no answer is recorded
\* twice. (catalyst.py, classify; runner.py, run_and_persist)
THEOREM ScoringCallsMatchVerdicts == ScoringSpec => []CallsMatchVerdicts
<1>1. ScoringInv => CallsMatchVerdicts
  BY DEF ScoringInv
<1> QED BY <1>1, ScoringInvariant, PTL

\* A stored scan says that its catalysts are the rule's exactly when Jev was to judge
\* and the rule judged a headline, whichever calls failed. (ADR-0023; runner.py, run)
THEOREM ScoringFallbackIsMarked == ScoringSpec => []FallbackIsMarked
<1>1. ScoringInv => FallbackIsMarked
  BY DEF ScoringInv
<1> QED BY <1>1, ScoringInvariant, PTL

-----------------------------------------------------------------------------
(***************************************************************************)
(* The ranking.  In units of Whole \div Full divided by the weight of what *)
(* is available, a weighted score is a sum of products.                    *)
(***************************************************************************)
LEMMA Quotient ==
    ASSUME NEW a \in Nat, NEW b \in Nat \ {0}
    PROVE  a \div b \in Nat /\ (a % b = 0 => a = b * (a \div b))
OBVIOUS

LEMMA Exact ==
    ASSUME NEW b \in Nat \ {0}, NEW c \in Nat
    PROVE  (b * c) \div b = c
OBVIOUS

LEMMA Magnify ==
    ASSUME NEW a \in Nat, NEW b \in Nat, NEW c \in Nat \ {0}
    PROVE  /\ a < b <=> a * c < b * c
           /\ a <= b <=> a * c <= b * c
OBVIOUS

LEMMA ScoringUnit ==
    /\ Full \in Nat \ {0} /\ Whole \in Nat \ {0} /\ Whole \div Full \in Nat \ {0}
    /\ Whole = Full * (Whole \div Full)
<1>1. Full \in Nat \ {0} /\ Whole \in Nat \ {0} /\ Whole % Full = 0
  BY ScoringAssumption
<1>2. Whole \div Full \in Nat /\ Whole = Full * (Whole \div Full)
  BY <1>1, Quotient
<1>3. Whole \div Full # 0
  BY <1>1, <1>2
<1> QED BY <1>1, <1>2, <1>3

LEMMA Weights ==
    /\ Weight["technical"] \in Nat \ {0} /\ Weight["intraday"] \in Nat \ {0}
    /\ Weight["catalyst"] \in Nat \ {0}
BY ScoringAssumption DEF Signals

\* The weight of a set of signals, taken apart.
W(S, k) == IF k \in S THEN Weight[k] ELSE 0

LEMMA WeightParts ==
    ASSUME NEW S \in SUBSET Signals
    PROVE  /\ WeightOf(S) = W(S, "technical") + W(S, "intraday") + W(S, "catalyst")
           /\ W(S, "technical") \in Nat /\ W(S, "intraday") \in Nat /\ W(S, "catalyst") \in Nat
BY Weights DEF WeightOf, Total, W, Signals

\* What one point of a signal is worth when S is available.
Worth(S) == (Whole \div Full) \div WeightOf(S)

LEMMA WorthType ==
    ASSUME NEW S \in SUBSET Signals, "technical" \in S
    PROVE  /\ WeightOf(S) \in Nat \ {0} /\ Worth(S) \in Nat \ {0}
           /\ Whole \div Full = WeightOf(S) * Worth(S)
<1>1. WeightOf(S) \in Nat \ {0}
  BY WeightParts, Weights DEF W
<1>2. (Whole \div Full) % WeightOf(S) = 0
  BY ScoringAssumption
<1>3. Worth(S) \in Nat /\ Whole \div Full = WeightOf(S) * Worth(S)
  BY <1>1, <1>2, ScoringUnit, Quotient DEF Worth
<1>4. Worth(S) # 0
  BY <1>1, <1>3, ScoringUnit
<1> QED BY <1>1, <1>3, <1>4

\* A strength is a signal, or none yet.
Strengths ==
    /\ at.strength \in 0..Full
    /\ signal \in [Eligible -> {None} \cup 0..Full]

\* The value of a signal, and what it counts for.
V(s, f, k) == IF k \in Available(s, f) THEN Value(s, f)[k] ELSE 0

LEMMA Values ==
    ASSUME Strengths, NEW f \in [Eligible -> Facts], NEW s \in Eligible
    PROVE  /\ Available(s, f) \in SUBSET Signals /\ "technical" \in Available(s, f)
           /\ \A k \in Signals : V(s, f, k) \in 0..Full
           /\ V(s, f, "technical") \in {0, Full}
           /\ "intraday" \in Available(s, f) => V(s, f, "intraday") = Full
           /\ "catalyst" \in Available(s, f) <=> signal[s] # None
           /\ V(s, f, "catalyst") = IF signal[s] = None THEN 0 ELSE signal[s]
           /\ f[s].overbought \in BOOLEAN /\ f[s].earnings \in BOOLEAN
<1>1. /\ f[s].technical \in {0, Full} /\ f[s].intraday \in {None, Full}
      /\ f[s].overbought \in BOOLEAN /\ f[s].earnings \in BOOLEAN
  BY DEF Facts
<1>2. signal[s] \in {None} \cup 0..Full
  BY DEF Strengths
<1>3. /\ Value(s, f)["technical"] = f[s].technical /\ Value(s, f)["intraday"] = f[s].intraday
      /\ Value(s, f)["catalyst"] = signal[s]
  BY DEF Value
<1>4. Full \in Nat \ {0} /\ None = -1
  BY ScoringUnit DEF None
<1>5. \A k : k \in Available(s, f) <=> k \in Signals /\ Value(s, f)[k] # None
  BY DEF Available
<1>6. Available(s, f) \in SUBSET Signals
  BY DEF Available
<1>7. /\ "technical" \in Available(s, f)
      /\ "intraday" \in Available(s, f) <=> f[s].intraday # None
      /\ "catalyst" \in Available(s, f) <=> signal[s] # None
  BY <1>1, <1>3, <1>4, <1>5 DEF Signals
<1>8. /\ V(s, f, "technical") = f[s].technical
      /\ V(s, f, "intraday") = IF f[s].intraday # None THEN f[s].intraday ELSE 0
      /\ V(s, f, "catalyst") = IF signal[s] = None THEN 0 ELSE signal[s]
  BY <1>3, <1>7 DEF V
<1>9. \A k \in Signals : V(s, f, k) \in 0..Full
  BY <1>1, <1>2, <1>4, <1>8 DEF Signals
<1> QED BY <1>1, <1>6, <1>7, <1>8, <1>9

LEMMA GainedParts ==
    ASSUME Strengths, NEW f \in [Eligible -> Facts], NEW s \in Eligible, NEW S, S = Available(s, f)
    PROVE  /\ Gained(s, f) = W(S, "technical") * V(s, f, "technical")
                             + W(S, "intraday") * V(s, f, "intraday")
                             + W(S, "catalyst") * V(s, f, "catalyst")
           /\ Gained(s, f) \in Nat
<1> DEFINE G(k) == IF k \in Available(s, f) THEN Weight[k] * Value(s, f)[k] ELSE 0
<1>1. Gained(s, f) = G("technical") + G("intraday") + G("catalyst")
  BY DEF Gained, Total, Signals
<1>2. ASSUME NEW k \in Signals
      PROVE  G(k) = W(S, k) * V(s, f, k) /\ G(k) \in Nat
  <2>1. V(s, f, k) \in Nat /\ Weight[k] \in Nat
    BY Values, ScoringUnit, ScoringAssumption
  <2>2. CASE k \in S
    BY <2>1, <2>2 DEF W, V
  <2>3. CASE k \notin S
    <3>1. W(S, k) = 0 /\ V(s, f, k) = 0
      BY <2>3 DEF W, V
    <3> QED BY <2>3, <3>1
  <2> QED BY <2>2, <2>3
<1>3. "technical" \in Signals /\ "intraday" \in Signals /\ "catalyst" \in Signals
  BY DEF Signals
<1> HIDE DEF G
<1> QED BY <1>1, <1>2, <1>3

LEMMA WeightedIs ==
    ASSUME Strengths, NEW f \in [Eligible -> Facts], NEW s \in Eligible, NEW S, S = Available(s, f)
    PROVE  Weighted(s, f) = Gained(s, f) * Worth(S) /\ Weighted(s, f) \in Nat
<1>1. S \in SUBSET Signals /\ "technical" \in S
  BY Values
<1> DEFINE g == Gained(s, f)
           d == WeightOf(S)
           q == Worth(S)
           u == Whole \div Full
<1>2. g \in Nat /\ d \in Nat \ {0} /\ q \in Nat /\ u = d * q
  BY <1>1, GainedParts, WorthType
<1>3. Weighted(s, f) = (g * u) \div d
  BY DEF Weighted
<1> HIDE DEF g, d, q, u
<1>4. g * u = d * (g * q) /\ g * q \in Nat
  BY <1>2
<1>5. (g * u) \div d = g * q
  BY <1>2, <1>4, Exact
<1> QED BY <1>3, <1>4, <1>5 DEF g, q

-----------------------------------------------------------------------------
\* A product of naturals.
LEMMA Products ==
    ASSUME NEW w \in Nat, NEW x \in Nat, NEW y \in Nat, x <= y
    PROVE  /\ w * x \in Nat /\ w * y \in Nat /\ w * x <= w * y
           /\ (w # 0 /\ x < y) => w * x < w * y
OBVIOUS

\* A symbol that is nowhere behind in what both have, and ahead somewhere, gains more.
LEMMA GainsMore ==
    ASSUME Strengths, NEW f \in [Eligible -> Facts], NEW s \in Eligible, NEW t \in Eligible,
           Dominates(s, t, f)
    PROVE  /\ Available(s, f) = Available(t, f)
           /\ \A k \in Signals : V(t, f, k) <= V(s, f, k)
           /\ \E k \in Available(s, f) : V(t, f, k) < V(s, f, k)
           /\ Gained(t, f) < Gained(s, f)
<1> DEFINE S == Available(s, f)
<1>1. Available(t, f) = S /\ S \in SUBSET Signals
  BY Values DEF Dominates
<1>2. \A k \in Signals : V(t, f, k) \in Nat /\ V(s, f, k) \in Nat
  BY Values, ScoringUnit
<1>3. \A k \in Signals : V(t, f, k) <= V(s, f, k)
  BY <1>1, <1>2 DEF Dominates, V
<1>4. PICK k \in S : V(t, f, k) < V(s, f, k)
  BY <1>1 DEF Dominates, V
<1> HIDE DEF S
<1>5. \A j \in Signals : W(S, j) \in Nat
  BY WeightParts, <1>1 DEF Signals
<1>6. W(S, k) # 0 /\ k \in Signals
  BY <1>1, Weights DEF W, Signals
<1>7. \A j \in Signals : /\ W(S, j) * V(t, f, j) \in Nat /\ W(S, j) * V(s, f, j) \in Nat
                         /\ W(S, j) * V(t, f, j) <= W(S, j) * V(s, f, j)
  BY <1>2, <1>3, <1>5, Products
<1>8. W(S, k) * V(t, f, k) < W(S, k) * V(s, f, k)
  BY <1>2, <1>3, <1>4, <1>5, <1>6, Products
<1>9. Gained(t, f) < Gained(s, f)
  <2> DEFINE a(j) == W(S, j) * V(t, f, j)
             b(j) == W(S, j) * V(s, f, j)
  <2>1. /\ Gained(t, f) = a("technical") + a("intraday") + a("catalyst")
        /\ Gained(s, f) = b("technical") + b("intraday") + b("catalyst")
    BY <1>1, GainedParts DEF S
  <2>2. \A j \in Signals : a(j) \in Nat /\ b(j) \in Nat /\ a(j) <= b(j)
    BY <1>7
  <2>3. a(k) < b(k)
    BY <1>8
  <2> HIDE DEF a, b
  <2> QED BY <1>6, <2>1, <2>2, <2>3 DEF Signals
<1> QED BY <1>1, <1>3, <1>4, <1>9 DEF S

\* Nobody gains more than the best of what is available, and only the best gain as much.
LEMMA GainsAtMost ==
    ASSUME Strengths, NEW f \in [Eligible -> Facts], NEW s \in Eligible
    PROVE  /\ Gained(s, f) <= WeightOf(Available(s, f)) * Full
           /\ (\E k \in Available(s, f) : V(s, f, k) # Full)
                 => Gained(s, f) < WeightOf(Available(s, f)) * Full
           /\ (\A k \in Available(s, f) : V(s, f, k) = Full)
                 => Gained(s, f) = WeightOf(Available(s, f)) * Full
<1> DEFINE S == Available(s, f)
           a(j) == W(S, j) * V(s, f, j)
           b(j) == W(S, j) * Full
<1>1. S \in SUBSET Signals
  BY Values
<1>2. \A k \in Signals : V(s, f, k) \in Nat /\ V(s, f, k) <= Full /\ W(S, k) \in Nat /\ Full \in Nat
  BY <1>1, Values, ScoringUnit, WeightParts DEF Signals
<1>3. Gained(s, f) = a("technical") + a("intraday") + a("catalyst")
  BY GainedParts
<1>4. WeightOf(S) * Full = b("technical") + b("intraday") + b("catalyst")
  <2> HIDE DEF S
  <2>1. WeightOf(S) = W(S, "technical") + W(S, "intraday") + W(S, "catalyst")
    BY <1>1, WeightParts
  <2> QED BY <1>2, <2>1 DEF Signals
<1> HIDE DEF S
<1>5. \A j \in Signals : a(j) \in Nat /\ b(j) \in Nat /\ a(j) <= b(j)
  BY <1>2, Products
<1>6. ASSUME NEW k \in S, V(s, f, k) # Full PROVE a(k) < b(k) /\ k \in Signals
  <2>1. k \in Signals /\ W(S, k) # 0
    BY <1>1, Weights DEF W, Signals
  <2>2. V(s, f, k) < Full
    BY <1>2, <1>6, <2>1
  <2> QED BY <1>2, <2>1, <2>2, Products
<1>7. ASSUME \A k \in S : V(s, f, k) = Full, NEW j \in Signals PROVE a(j) = b(j)
  BY <1>2, <1>7 DEF W
<1> HIDE DEF a, b
<1>8. Gained(s, f) <= WeightOf(S) * Full
  BY <1>3, <1>4, <1>5 DEF Signals
<1>9. ASSUME NEW k \in S, V(s, f, k) # Full PROVE Gained(s, f) < WeightOf(S) * Full
  BY <1>3, <1>4, <1>5, <1>6, <1>9 DEF Signals
<1>10. ASSUME \A k \in S : V(s, f, k) = Full PROVE Gained(s, f) = WeightOf(S) * Full
  BY <1>3, <1>4, <1>7, <1>10 DEF Signals
<1> QED BY <1>8, <1>9, <1>10 DEF S

\* The penalties, and what is left of a score.
LEMMA Penalties ==
    ASSUME Strengths, NEW f \in [Eligible -> Facts], NEW s \in Eligible
    PROVE  /\ Penalty(s, f) \in Nat /\ Composite(s, f) \in Nat
           /\ Composite(s, f) <= Weighted(s, f)
           /\ Penalty(s, f) < Weighted(s, f) => Composite(s, f) = Weighted(s, f) - Penalty(s, f)
           /\ ~(Penalty(s, f) < Weighted(s, f)) => Composite(s, f) = 0
           /\ (f[s].overbought \/ (f[s].earnings /\ signal[s] \in {None, 0})) <=> Penalty(s, f) > 0
           /\ ~f[s].overbought => Penalty(s, f) \in {0, Earnings}
           /\ (f[s].earnings /\ signal[s] \in {None, 0}) => Earnings <= Penalty(s, f)
<1>1. Overbought \in Nat \ {0} /\ Earnings \in Nat \ {0}
  BY RankingAssumption
<1>2. Weighted(s, f) \in Nat
  BY WeightedIs
<1>3. /\ Penalty(s, f) \in Nat
      /\ (f[s].overbought \/ (f[s].earnings /\ signal[s] \in {None, 0})) <=> Penalty(s, f) > 0
      /\ ~f[s].overbought => Penalty(s, f) \in {0, Earnings}
      /\ (f[s].earnings /\ signal[s] \in {None, 0}) => Earnings <= Penalty(s, f)
  BY <1>1 DEF Penalty
<1>4. Composite(s, f) = IF Penalty(s, f) > Weighted(s, f) THEN 0 ELSE Weighted(s, f) - Penalty(s, f)
  BY DEF Composite
<1>5. /\ Composite(s, f) \in Nat /\ Composite(s, f) <= Weighted(s, f)
      /\ Penalty(s, f) < Weighted(s, f) => Composite(s, f) = Weighted(s, f) - Penalty(s, f)
      /\ ~(Penalty(s, f) < Weighted(s, f)) => Composite(s, f) = 0
  BY ONLY <1>2, <1>3, <1>4
<1> QED BY <1>3, <1>5

\* A full technical signal is worth more than the earnings penalty, whatever else is
\* available.
LEMMA TechnicalOutweighs ==
    ASSUME NEW S \in SUBSET Signals, "technical" \in S
    PROVE  Earnings < Weight["technical"] * Full * Worth(S)
<1> DEFINE w == Weight["technical"]
           d == WeightOf(S)
           q == Worth(S)
           all == WeightOf(Signals)
<1>1. w \in Nat /\ d \in Nat \ {0} /\ q \in Nat /\ Full \in Nat /\ Whole = Full * (d * q)
  BY Weights, WorthType, ScoringUnit
<1>2. d <= all /\ all \in Nat
  <2>1. \A k \in Signals : W(S, k) <= W(Signals, k) /\ W(Signals, k) \in Nat /\ W(S, k) \in Nat
    BY Weights DEF W, Signals
  <2>2. /\ d = W(S, "technical") + W(S, "intraday") + W(S, "catalyst")
        /\ all = W(Signals, "technical") + W(Signals, "intraday") + W(Signals, "catalyst")
    BY WeightParts
  <2> HIDE DEF d, all
  <2> QED BY <2>1, <2>2 DEF Signals
<1>3. Earnings \in Nat /\ Earnings * all < w * Whole
  BY RankingAssumption
<1> HIDE DEF w, d, q, all
<1>4. Earnings * d <= Earnings * all /\ Earnings * d \in Nat /\ Earnings * all \in Nat
  BY <1>1, <1>2, <1>3, Products
<1>5. w * Whole = (w * Full * q) * d /\ w * Full * q \in Nat
  BY ONLY <1>1
<1>6. Earnings * d < (w * Full * q) * d
  BY <1>3, <1>4, <1>5, <1>1
<1>7. Earnings < w * Full * q
  BY <1>1, <1>3, <1>5, <1>6, Magnify
<1> QED BY <1>7 DEF w, q

\* A dominated symbol has the lower score.
LEMMA DominatedScores ==
    ASSUME Strengths, NEW f \in [Eligible -> Facts], NEW s \in Eligible, NEW t \in Eligible,
           Dominates(s, t, f)
    PROVE  Composite(t, f) < Composite(s, f)
<1> DEFINE S == Available(s, f)
<1>1. /\ S \in SUBSET Signals /\ "technical" \in S /\ Available(t, f) = S
      /\ Gained(t, f) < Gained(s, f)
      /\ \A k \in Signals : V(t, f, k) <= V(s, f, k)
  BY GainsMore, Values
<1>2. PICK k \in S : V(t, f, k) < V(s, f, k)
  BY GainsMore
<1>3. ~f[s].overbought /\ (f[s].earnings => f[t].earnings)
  BY DEF Dominates
<1>4. Worth(S) \in Nat \ {0} /\ Gained(s, f) \in Nat /\ Gained(t, f) \in Nat
  BY <1>1, WorthType, GainedParts
<1>5. /\ Weighted(s, f) = Gained(s, f) * Worth(S) /\ Weighted(s, f) \in Nat
      /\ Weighted(t, f) = Gained(t, f) * Worth(S) /\ Weighted(t, f) \in Nat
  BY <1>1, WeightedIs
<1>6. Weighted(t, f) < Weighted(s, f)
  BY <1>1, <1>4, <1>5, Magnify
<1>7. CASE ~(f[s].earnings /\ signal[s] \in {None, 0})
  <2>1. Penalty(s, f) = 0
    BY <1>3, <1>7, Penalties
  <2>2. Composite(t, f) <= Weighted(t, f) /\ Composite(t, f) \in Nat
    BY Penalties
  <2>3. Composite(s, f) = Weighted(s, f)
    BY <2>1, <1>5, <1>6, Penalties
  <2> QED BY ONLY <1>5, <1>6, <2>2, <2>3
<1>8. CASE f[s].earnings /\ signal[s] \in {None, 0}
  <2>1. Penalty(s, f) = Earnings /\ Earnings \in Nat \ {0}
    BY <1>3, <1>8, Penalties, RankingAssumption
  <2>2. V(s, f, "catalyst") = 0 /\ V(t, f, "catalyst") \in Nat
    BY <1>8, Values, ScoringUnit DEF Signals
  <2>3. signal[t] \in {None, 0}
    <3>1. V(t, f, "catalyst") <= 0
      BY <1>1, <2>2 DEF Signals
    <3> QED BY <2>2, <3>1, Values
  <2>4. Earnings <= Penalty(t, f) /\ Penalty(t, f) \in Nat
    BY <1>3, <1>8, <2>3, Penalties
  <2>5. k = "technical"
    <3>1. k # "catalyst"
      BY <1>2, <2>2
    <3>2. k # "intraday"
      BY <1>1, <1>2, Values, ScoringUnit
    <3> QED BY <1>1, <3>1, <3>2 DEF Signals
  <2>6. V(s, f, "technical") = Full
    <3>1. V(t, f, "technical") \in Nat /\ V(s, f, "technical") \in {0, Full}
      BY Values, ScoringUnit DEF Signals
    <3> QED BY <1>2, <2>5, <3>1
  <2>7. Weight["technical"] * Full <= Gained(s, f) /\ Weight["technical"] * Full \in Nat
    <3>1. \A j \in Signals : W(S, j) * V(s, f, j) \in Nat
      BY <1>1, WeightParts, Values, ScoringUnit, Products DEF Signals
    <3>2. W(S, "technical") = Weight["technical"]
      BY <1>1 DEF W
    <3>3. Gained(s, f) = W(S, "technical") * V(s, f, "technical")
                         + W(S, "intraday") * V(s, f, "intraday")
                         + W(S, "catalyst") * V(s, f, "catalyst")
      BY GainedParts
    <3> QED BY <2>6, <3>1, <3>2, <3>3 DEF Signals
  <2>8. Weight["technical"] * Full * Worth(S) <= Weighted(s, f)
    BY <1>4, <1>5, <2>7, Magnify
  <2>9. Earnings < Weight["technical"] * Full * Worth(S) /\ Weight["technical"] * Full * Worth(S) \in Nat
    BY <1>1, <1>4, <2>7, TechnicalOutweighs
  <2>10. Earnings < Weighted(s, f)
    BY ONLY <2>1, <1>5, <2>8, <2>9
  <2>11. Composite(s, f) = Weighted(s, f) - Earnings
    BY <2>1, <2>10, Penalties
  <2>12. \/ Composite(t, f) = 0
         \/ Composite(t, f) = Weighted(t, f) - Penalty(t, f)
    BY Penalties
  <2> QED BY ONLY <1>5, <1>6, <2>1, <2>4, <2>10, <2>11, <2>12
<1> QED BY <1>7, <1>8

\* A perfect symbol has the whole score, and only a perfect one has it.
LEMMA PerfectScores ==
    ASSUME Strengths, NEW f \in [Eligible -> Facts], NEW s \in Eligible
    PROVE  /\ Perfect(s, f) => Composite(s, f) = Whole
           /\ ~Perfect(s, f) => Composite(s, f) < Whole
<1> DEFINE S == Available(s, f)
           g == Gained(s, f)
           d == WeightOf(S)
           q == Worth(S)
<1>1. S \in SUBSET Signals /\ "technical" \in S
  BY Values
<1>2. /\ g \in Nat /\ d \in Nat \ {0} /\ q \in Nat \ {0} /\ Full \in Nat \ {0} /\ Whole \in Nat \ {0}
      /\ Whole = Full * (d * q) /\ Weighted(s, f) = g * q /\ Weighted(s, f) \in Nat
  BY <1>1, GainedParts, WorthType, ScoringUnit, WeightedIs
<1>3. \A k \in S : V(s, f, k) = Value(s, f)[k]
  BY DEF V
<1>4. /\ g <= d * Full
      /\ (\E k \in S : Value(s, f)[k] # Full) => g < d * Full
      /\ (\A k \in S : Value(s, f)[k] = Full) => g = d * Full
  BY <1>3, GainsAtMost
<1>5. /\ Penalty(s, f) \in Nat /\ Composite(s, f) \in Nat /\ Composite(s, f) <= Weighted(s, f)
      /\ Penalty(s, f) < Weighted(s, f) => Composite(s, f) = Weighted(s, f) - Penalty(s, f)
      /\ ~(Penalty(s, f) < Weighted(s, f)) => Composite(s, f) = 0
      /\ (f[s].overbought \/ (f[s].earnings /\ signal[s] \in {None, 0})) <=> Penalty(s, f) > 0
  BY Penalties
<1>6. (\A k \in S : Value(s, f)[k] = Full) => signal[s] # 0
  <2>1. "catalyst" \in S <=> signal[s] # None
    BY Values
  <2>2. signal[s] = 0 => signal[s] # None
    BY DEF None
  <2>3. Value(s, f)["catalyst"] = signal[s]
    BY DEF Value
  <2> QED BY <1>2, <2>1, <2>2, <2>3
<1>7. Perfect(s, f) <=> (\A k \in S : Value(s, f)[k] = Full)
                        /\ ~f[s].overbought /\ ~(f[s].earnings /\ signal[s] = None)
  BY DEF Perfect
<1> HIDE DEF S, g, d, q
<1>8. (d * Full) * q = Whole /\ d * Full \in Nat
  BY ONLY <1>2
<1>9. Weighted(s, f) <= Whole /\ (g < d * Full => Weighted(s, f) < Whole)
      /\ (g = d * Full => Weighted(s, f) = Whole)
  BY <1>2, <1>4, <1>8, Magnify
<1>10. CASE Perfect(s, f)
  <2>1. Weighted(s, f) = Whole /\ Penalty(s, f) = 0
    BY <1>4, <1>5, <1>6, <1>7, <1>9, <1>10
  <2> QED BY ONLY <1>2, <1>5, <1>10, <2>1
<1>11. CASE ~Perfect(s, f)
  <2>1. Weighted(s, f) < Whole \/ Penalty(s, f) > 0
    BY <1>4, <1>5, <1>7, <1>9, <1>11
  <2> QED BY ONLY <1>2, <1>5, <1>9, <1>11, <2>1
<1> QED BY <1>10, <1>11

-----------------------------------------------------------------------------
\* The ranking by some score.
LEMMA BeforeIsOrder ==
    ASSUME NEW score \in [Eligible -> Nat], NEW s \in Eligible, NEW t \in Eligible
    PROVE  /\ ~Before(s, s, score)
           /\ s # t => Before(s, t, score) \/ Before(t, s, score)
           /\ \A u \in Eligible : Before(s, t, score) /\ Before(t, u, score) => Before(s, u, score)
BY ScoringAssumption DEF Before

LEMMA Places ==
    ASSUME NEW score \in [Eligible -> Nat], NEW s \in Eligible, NEW t \in Eligible
    PROVE  /\ Place(s, score) \in Nat \ {0}
           /\ Before(s, t, score) => Place(s, score) < Place(t, score)
           /\ Place(s, score) = Place(t, score) => s = t
<1> DEFINE Ahead(x) == { u \in Eligible : Before(u, x, score) }
<1>1. \A x : IsFiniteSet(Ahead(x)) /\ Cardinality(Ahead(x)) \in Nat
  BY ScoringSizes, FS_Subset, FS_CardinalityType
<1>2. ASSUME NEW x \in Eligible, NEW y \in Eligible, Before(x, y, score)
      PROVE  Cardinality(Ahead(x)) < Cardinality(Ahead(y))
  <2>1. Ahead(x) \subseteq Ahead(y) /\ x \in Ahead(y) /\ x \notin Ahead(x)
    BY <1>2, BeforeIsOrder
  <2>2. Ahead(x) # Ahead(y)
    BY <2>1, Zenon
  <2> HIDE DEF Ahead
  <2>3. Cardinality(Ahead(x)) <= Cardinality(Ahead(y))
        /\ (Cardinality(Ahead(x)) = Cardinality(Ahead(y)) => Ahead(x) = Ahead(y))
    BY <1>1, <2>1, FS_Subset
  <2> QED BY <1>1, <2>2, <2>3
<1>3. \A x : Place(x, score) = 1 + Cardinality(Ahead(x))
  BY DEF Place
<1> HIDE DEF Ahead
<1>4. \A x \in Eligible, y \in Eligible :
         Before(x, y, score) => Place(x, score) < Place(y, score)
  BY <1>1, <1>2, <1>3
<1>5. \A x \in Eligible : Place(x, score) \in Nat \ {0}
  BY <1>1, <1>3
<1> QED BY <1>4, <1>5, BeforeIsOrder

\* Whoever comes before a candidate is one.
LEMMA RankedBefore ==
    ASSUME NEW score \in [Eligible -> Nat], NEW i \in DOMAIN Ranked(score)
    PROVE  /\ Ranked(score)[i] \in Eligible
           /\ \A s \in Eligible : Before(s, Ranked(score)[i], score) =>
                 \E j \in 1..i : j \in DOMAIN Ranked(score) /\ Ranked(score)[j] = s
<1> DEFINE D == { Place(s, score) : s \in Eligible } \cap 1..MaxCandidates
           At(j) == CHOOSE s \in Eligible : Place(s, score) = j
<1>1. DOMAIN Ranked(score) = D /\ \A j \in D : Ranked(score)[j] = At(j)
  BY DEF Ranked
<1>2. \A j \in D : At(j) \in Eligible /\ Place(At(j), score) = j
  OBVIOUS
<1>3. i \in D /\ i \in Nat /\ i <= MaxCandidates /\ MaxCandidates \in Nat
  BY <1>1, ScoringAssumption
<1>4. ASSUME NEW s \in Eligible, Before(s, At(i), score)
      PROVE  Place(s, score) \in 1..i /\ Place(s, score) \in D /\ At(Place(s, score)) = s
  <2>1. Place(s, score) < i /\ Place(s, score) \in Nat \ {0}
    BY <1>2, <1>3, <1>4, Places
  <2>2. Place(s, score) \in D
    BY <1>3, <2>1
  <2>3. At(Place(s, score)) = s
    BY <1>2, <2>2, Places
  <2> QED BY <1>3, <2>1, <2>2, <2>3
<1> HIDE DEF D, At
<1> QED BY <1>1, <1>2, <1>3, <1>4

LEMMA RankedIsFair ==
    ASSUME Strengths, NEW f \in [Eligible -> Facts],
           NEW score, score = [s \in Eligible |-> Composite(s, f)]
    PROVE  Fair(Ranked(score), f)
<1>1. score \in [Eligible -> Nat] /\ \A s \in Eligible : score[s] = Composite(s, f)
  BY Penalties
<1>2. SUFFICES ASSUME NEW s \in Eligible, NEW i \in DOMAIN Ranked(score),
                      ~(\E j \in 1..i : Ranked(score)[j] = s)
               PROVE  LET t == Ranked(score)[i]
                      IN  ~Dominates(s, t, f) /\ (Perfect(s, f) => Perfect(t, f))
  BY DEF Fair
<1> DEFINE t == Ranked(score)[i]
<1>3. t \in Eligible /\ ~Before(s, t, score)
  BY <1>1, <1>2, RankedBefore
<1> HIDE DEF t
<1>4. ~(Composite(t, f) < Composite(s, f))
  BY <1>1, <1>3 DEF Before
<1>5. ~Dominates(s, t, f)
  BY <1>3, <1>4, DominatedScores
<1>6. Perfect(s, f) => Perfect(t, f)
  BY <1>3, <1>4, PerfectScores
<1> QED BY <1>5, <1>6 DEF t

-----------------------------------------------------------------------------
LEMMA StrongerType ==
    ASSUME NEW x \in 0..Full, NEW m \in 0..Full
    PROVE  Stronger(x, m) \in 0..Full
BY DEF Stronger

LEMMA StrengthsInit == ScoringInit => Strengths
BY ScoringUnit DEF ScoringInit, Strengths, NoCall, None

LEMMA StrengthsStep == ScoringInv /\ Strengths /\ [ScoringNext]_scoringVars => Strengths'
<1> SUFFICES ASSUME ScoringInv, Strengths, [ScoringNext]_scoringVars PROVE Strengths'
  OBVIOUS
<1>0. /\ at.strength \in 0..Full /\ signal \in [Eligible -> {None} \cup 0..Full]
      /\ Full \in Nat \ {0} /\ 0 \in 0..Full
  BY ScoringUnit DEF Strengths
<1>1. at = [symbol |-> at.symbol, left |-> at.left, useJev |-> at.useJev, down |-> at.down,
            calls |-> at.calls, strength |-> at.strength]
  BY DEF ScoringInv, Kinds
<1>2. ASSUME Afresh PROVE Strengths'
  BY <1>0, <1>2 DEF Afresh, Strengths, NoCall
<1>3. ASSUME UNCHANGED <<at, signal>> PROVE Strengths'
  BY <1>0, <1>3 DEF Strengths
<1>4. ASSUME UNCHANGED signal, at'.strength \in 0..Full PROVE Strengths'
  BY <1>0, <1>4 DEF Strengths
<1>5. CASE StartScan
  BY <1>2, <1>5 DEF StartScan
<1>6. ASSUME NEW s \in Eligible, ClassifySymbol(s) PROVE Strengths'
  <2>1. UNCHANGED signal
    BY <1>6 DEF ClassifySymbol
  <2>2. CASE headlines[s] = 0
    BY <1>3, <1>6, <2>1, <2>2 DEF ClassifySymbol
  <2>3. CASE headlines[s] # 0
    <3>1. at'.strength = 0
      BY <1>6, <2>3 DEF ClassifySymbol, NoCall
    <3> QED BY <1>0, <1>4, <2>1, <3>1
  <2> QED BY <2>2, <2>3
<1>7. ASSUME NEW m \in Verdicts, JevAnswers(m) PROVE Strengths'
  <2>1. m \in 0..Full
    BY ScoringAssumption
  <2>2. at'.strength = Stronger(at.strength, m) /\ UNCHANGED signal
    BY <1>1, <1>7 DEF JevAnswers
  <2> QED BY <1>0, <1>4, <2>1, <2>2, StrongerType
<1>8. CASE RuleJudges
  <2>1. PICK m \in {0, KeywordStrength} :
           at' = [at EXCEPT !.left = @ - 1, !.strength = Stronger(@, m)]
    BY <1>8 DEF RuleJudges
  <2>2. m \in 0..Full
    BY <1>0, ScoringAssumption
  <2>3. at'.strength = Stronger(at.strength, m) /\ UNCHANGED signal
    BY <1>1, <1>8, <2>1 DEF RuleJudges
  <2> QED BY <1>0, <1>4, <2>2, <2>3, StrongerType
<1>9. CASE JevFails
  <2>1. at'.strength = at.strength /\ UNCHANGED signal
    BY <1>1, <1>9 DEF JevFails
  <2> QED BY <1>0, <1>4, <2>1
<1>10. CASE JevAnswersUnreadably
  BY <1>2, <1>10 DEF JevAnswersUnreadably, Abandon
<1>11. CASE Classified
  <2>1. at' = NoCall /\ signal' = [signal EXCEPT ![at.symbol] = at.strength]
    BY <1>11 DEF Classified
  <2> QED BY <1>0, <2>1 DEF Strengths, NoCall
<1>12. CASE Store
  BY <1>3, <1>12 DEF Store
<1>13. CASE DieJudging
  BY <1>2, <1>13 DEF DieJudging, Abandon
<1>14. CASE RestartWorker
  BY <1>3, <1>14 DEF RestartWorker, judged
<1>15. CASE UNCHANGED scoringVars
  BY <1>3, <1>15 DEF scoringVars, judged
<1> QED BY <1>5, <1>6, <1>7, <1>8, <1>9, <1>10, <1>11, <1>12, <1>13, <1>14, <1>15 DEF ScoringNext

\* Only Store ends a scan, and what it stores is ranked by the scores of that scan.
StoresFairly == stage = "judging" /\ stage' = "idle" => Fair(row'.candidates, facts')

LEMMA StoreIsFair ==
    ASSUME ScoringInv, Strengths, [ScoringNext]_scoringVars
    PROVE  StoresFairly
<1> SUFFICES ASSUME stage = "judging", stage' = "idle" PROVE Fair(row'.candidates, facts')
  BY DEF StoresFairly
<1>1. Store
  BY DEF ScoringNext, scoringVars, StartScan, ClassifySymbol, JevAnswers, RuleJudges, JevFails,
         JevAnswersUnreadably, Abandon, Classified, DieJudging, RestartWorker
<1>2. PICK f : f = facts'
  OBVIOUS
<1>3. f \in [Eligible -> Facts] /\ row'.candidates = Ranked([s \in Eligible |-> Composite(s, f)])
  BY <1>1, <1>2 DEF Store
<1>4. Fair(Ranked([s \in Eligible |-> Composite(s, f)]), f)
  BY <1>3, RankedIsFair
<1> QED BY <1>2, <1>3, <1>4

\* ADR-0008, step 3, for any symbols, any answers and any weights under which a full
\* technical signal outweighs the earnings penalty: a stored candidate is dominated by
\* no symbol behind it or left out, and what nobody could know of a symbol does not
\* count against it. (composite_scores; scanner.py, run)
THEOREM ScoringRankingIsFair == ScoringSpec => RankingIsFair
<1>1. ScoringSpec => []Strengths
  BY StrengthsInit, StrengthsStep, ScoringInvariant, PTL DEF ScoringSpec
<1>2. ScoringInv /\ Strengths /\ [ScoringNext]_scoringVars => [StoresFairly]_scoringVars
  BY StoreIsFair
<1>3. RankingIsFair <=> [][StoresFairly]_scoringVars
  BY PTL DEF RankingIsFair, StoresFairly
<1> QED BY <1>1, <1>2, <1>3, ScoringInvariant, PTL DEF ScoringSpec
=============================================================================
