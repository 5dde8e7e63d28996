--------------------------- MODULE Launch_proofs ---------------------------
(***************************************************************************)
(* In which mode, at whose rates and over whose shares a process runs, for *)
(* any configuration and environment, any schedules of fees, and any       *)
(* number of days, deployments, restarts, experiments and fills.  In the   *)
(* second half, the inside of a boot (Boot): the phases are a justified    *)
(* chain, a worker that is up is what they record, and a halt leaves only  *)
(* itself, for any deployments, boots and losses.                          *)
(***************************************************************************)
EXTENDS Launch, Boot, Sums_proofs, SequenceTheorems

-----------------------------------------------------------------------------
(***************************************************************************)
(* The inductive invariant.                                                *)
(***************************************************************************)
\* A schedule: at most one row starts on a day.
Scheduled(schedule) ==
    /\ schedule \subseteq Row
    /\ \A r, q \in schedule : r.from = q.from => r = q

Filed ==
    /\ files \in Files /\ deploys \in Nat
    /\ \A k \in Kinds : Scheduled(files.fees[k])

\* The look-up in the files agrees with what was in force: today, and on the days gone.
Rated ==
    /\ day \in Nat \ {0}
    /\ DOMAIN inForce = Kinds
    /\ due \in Seq([Kinds -> Nat]) /\ Len(due) = day
    /\ \A k \in Kinds :
          /\ inForce[k] = RowOn(files.fees[k], day)
          /\ \A d \in 1..day : due[d][k] = RowOn(files.fees[k], d).rate

\* A process has the files' fees as long as it lives, one of the two modes it may start
\* in, and that mode's broker.
Configured ==
    /\ stage \in {"off", "brokered", "booted", "running"} /\ env \in Env
    /\ stage # "off" =>
          /\ settings.fees = files.fees
          /\ settings.mode \in {"PAPER", "DRY_RUN"}
          /\ settings.mode = "PAPER" => env.keys
          /\ broker = BrokerOf(settings.mode, env)
    /\ stage = "running" => env.keys

Entry(name, mode) == [name |-> name, mode |-> mode]

\* An experiment has one mode, never LIVE, and what trades under its name is PAPER.
Registered ==
    /\ \A x \in experiments : x = Entry(x.name, x.mode) /\ x.mode # "LIVE"
    /\ \A x, y \in experiments : x.name = y.name => x = y
    /\ \A e \in working : Entry(e, "PAPER") \in experiments
    /\ \A i \in DOMAIN fills : Entry(fills[i].of, "PAPER") \in experiments
    /\ stage \in {"booted", "running"} => Entry(Name, settings.mode) \in experiments

\* A sequence, whatever is in it.
List(s) == s \in Seq({ s[i] : i \in DOMAIN s })

\* What is booked is a prefix of the account, each fill with the rates of its day.
Charged ==
    /\ List(fills) /\ List(booked) /\ Len(booked) <= Len(fills)
    /\ \A i \in DOMAIN fills : fills[i].day \in 1..day /\ fills[i].side \in {"buy", "sell"}
    /\ FeesAreThoseOfTheDay

\* No share of another experiment was at the broker when this process booted.
Alone ==
    /\ since \in 0..Len(fills)
    /\ stage \in {"booted", "running"} /\ env.keys => Net((1..since) \ Of(Name)) = 0

LaunchInv == Filed /\ Rated /\ Configured /\ Registered /\ Charged /\ Alone

-----------------------------------------------------------------------------
(***************************************************************************)
(* Sequences.                                                              *)
(***************************************************************************)
LEMMA ListFacts ==
    ASSUME NEW s, List(s)
    PROVE  Len(s) \in Nat /\ DOMAIN s = 1..Len(s)
BY DEF List

LEMMA ListOf ==
    ASSUME NEW S, NEW s \in Seq(S)
    PROVE  List(s)
<1> DEFINE R == { s[i] : i \in DOMAIN s }
<1>1. Len(s) \in Nat /\ DOMAIN s = 1..Len(s) /\ s = [i \in 1..Len(s) |-> s[i]]
  OBVIOUS
<1>2. \A i \in 1..Len(s) : s[i] \in R
  BY <1>1
<1> HIDE DEF R
<1>3. s \in [1..Len(s) -> R]
  BY <1>1, <1>2
<1>4. s \in Seq(R)
  BY <1>1, <1>3, SeqDef
<1> QED BY <1>4 DEF List, R

LEMMA Concatenated ==
    ASSUME NEW s, NEW t, List(s), List(t)
    PROVE  /\ List(s \o t) /\ Len(s \o t) = Len(s) + Len(t)
           /\ \A i \in 1..Len(s) : (s \o t)[i] = s[i]
           /\ \A i \in 1..Len(t) : (s \o t)[Len(s) + i] = t[i]
<1> DEFINE S == { s[i] : i \in DOMAIN s } \cup { t[i] : i \in DOMAIN t }
<1>1. s \in Seq({ s[i] : i \in DOMAIN s }) /\ t \in Seq({ t[i] : i \in DOMAIN t })
  BY DEF List
<1>2. \A A : A \subseteq S => Seq(A) \subseteq Seq(S)
  BY SeqDef
<1>3. s \in Seq(S) /\ t \in Seq(S)
  BY <1>1, <1>2
<1> HIDE DEF S
<1>4. /\ s \o t \in Seq(S) /\ Len(s \o t) = Len(s) + Len(t)
      /\ \A i \in 1 .. Len(s) + Len(t) :
            (s \o t)[i] = IF i <= Len(s) THEN s[i] ELSE t[i - Len(s)]
  BY <1>3, ConcatProperties
<1>5. Len(s) \in Nat /\ Len(t) \in Nat
  BY <1>3
<1>6. \A i \in 1..Len(t) : (s \o t)[Len(s) + i] = t[i]
  <2> TAKE i \in 1..Len(t)
  <2>1. Len(s) + i \in 1..(Len(s) + Len(t)) /\ ~(Len(s) + i <= Len(s)) /\ (Len(s) + i) - Len(s) = i
    BY <1>5
  <2> QED BY <1>4, <2>1
<1>7. List(s \o t)
  BY <1>4, ListOf
<1>8. \A i \in 1..Len(s) : (s \o t)[i] = s[i]
  BY <1>4, <1>5
<1> QED BY <1>4, <1>6, <1>7, <1>8

LEMMA Added ==
    ASSUME NEW s, NEW e, List(s)
    PROVE  /\ List(Append(s, e)) /\ Len(Append(s, e)) = Len(s) + 1
           /\ \A i \in 1..Len(s) : Append(s, e)[i] = s[i]
           /\ Append(s, e)[Len(s) + 1] = e
<1> DEFINE S == { s[i] : i \in DOMAIN s } \cup {e}
<1>1. s \in Seq({ s[i] : i \in DOMAIN s })
  BY DEF List
<1>2. \A A : A \subseteq S => Seq(A) \subseteq Seq(S)
  BY SeqDef
<1>3. s \in Seq(S) /\ e \in S
  BY <1>1, <1>2
<1> HIDE DEF S
<1>4. /\ Append(s, e) \in Seq(S) /\ Len(Append(s, e)) = Len(s) + 1
      /\ \A i \in 1..Len(s) : Append(s, e)[i] = s[i]
      /\ Append(s, e)[Len(s) + 1] = e
  BY <1>3, AppendProperties
<1>5. List(Append(s, e))
  BY <1>4, ListOf
<1> QED BY <1>4, <1>5

-----------------------------------------------------------------------------
(***************************************************************************)
(* The look-up of a rate.                                                  *)
(***************************************************************************)
Latest(schedule, on, r) ==
    /\ r \in schedule /\ r.from <= on
    /\ \A q \in schedule : q.from <= on => q.from <= r.from

Standing(r, on) == IF r.to # OpenEnded /\ on > r.to THEN NoRow ELSE r

LEMMA RowFields ==
    ASSUME NEW r \in Row
    PROVE  /\ r.from \in 1..MaxDay /\ r.to \in {OpenEnded} \cup 1..MaxDay /\ r.rate \in Nat \ {0}
           /\ r.from \in Nat /\ r.to \in Nat
           /\ r.to = OpenEnded \/ r.from <= r.to
           /\ r # NoRow
BY LaunchAssumption DEF Row, OpenEnded, None, NoRow

\* The row that row_on comes upon last is the one that started last.
LEMMA RowOnLatest ==
    ASSUME NEW schedule, Scheduled(schedule), NEW on \in Nat, NEW r, Latest(schedule, on, r)
    PROVE  RowOn(schedule, on) = Standing(r, on)
<1> DEFINE started == { q \in schedule : q.from <= on }
           current == CHOOSE c \in started : \A q \in started : q.from <= c.from
<1>1. r \in started /\ \A q \in started : q.from <= r.from
  BY DEF Latest
<1>2. current \in started /\ \A q \in started : q.from <= current.from
  BY <1>1
<1>3. current \in Row /\ r \in Row
  BY <1>1, <1>2 DEF Scheduled
<1>4. current.from = r.from
  BY <1>1, <1>2, <1>3, RowFields
<1>5. current = r
  BY <1>1, <1>2, <1>4 DEF Scheduled
<1>6. RowOn(schedule, on) = IF started = {} THEN NoRow
                            ELSE IF current.to # OpenEnded /\ on > current.to THEN NoRow
                            ELSE current
  BY DEF RowOn
<1> HIDE DEF current, started
<1> QED BY <1>1, <1>5, <1>6 DEF Standing

\* A day has a latest row as soon as one has started.
LEMMA LatestExists ==
    ASSUME NEW schedule, Scheduled(schedule), NEW on \in Nat,
           NEW r \in schedule, r.from <= on
    PROVE  \E c : Latest(schedule, on, c)
<1> DEFINE T == { MaxDay - q.from : q \in { p \in schedule : p.from <= on } }
<1>1. \A q \in schedule : q.from \in Nat /\ q.from <= MaxDay /\ MaxDay - q.from \in Nat
  BY RowFields, LaunchAssumption DEF Scheduled
<1>2. T \in SUBSET Nat /\ T # {}
  BY <1>1
<1>3. PICK m \in T : \A n \in T : m <= n
  <2> HIDE DEF T
  <2> QED BY <1>2, LeastNatural
<1>4. PICK c \in schedule : c.from <= on /\ m = MaxDay - c.from
  OBVIOUS
<1>5. ASSUME NEW q \in schedule, q.from <= on PROVE q.from <= c.from
  <2>1. MaxDay - c.from <= MaxDay - q.from
    BY <1>3, <1>4, <1>5
  <2> QED BY <2>1, <1>1, LaunchAssumption
<1> QED BY <1>4, <1>5 DEF Latest

LEMMA RowOnCases ==
    ASSUME NEW schedule, Scheduled(schedule), NEW on \in Nat
    PROVE  \/ \E r : Latest(schedule, on, r) /\ RowOn(schedule, on) = Standing(r, on)
           \/ (\A q \in schedule : ~(q.from <= on)) /\ RowOn(schedule, on) = NoRow
<1>1. CASE \E q \in schedule : q.from <= on
  BY <1>1, LatestExists, RowOnLatest
<1>2. CASE \A q \in schedule : ~(q.from <= on)
  BY <1>2 DEF RowOn
<1> QED BY <1>1, <1>2

LEMMA RowOnType ==
    ASSUME NEW schedule, Scheduled(schedule), NEW on \in Nat
    PROVE  /\ RowOn(schedule, on) \in Row \cup {NoRow}
           /\ RowOn(schedule, on).rate \in Nat
           /\ RowOn(schedule, on) # NoRow => RowOn(schedule, on).rate # None
<1>1. RowOn(schedule, on) \in Row \cup {NoRow}
  BY RowOnCases DEF Latest, Standing, Scheduled
<1> QED BY <1>1, RowFields DEF NoRow, None

\* What has not started on a day has no part in its rate.
LEMMA RowOnStarted ==
    ASSUME NEW old, NEW new, NEW on,
           { r \in new : r.from <= on } = { r \in old : r.from <= on }
    PROVE  RowOn(new, on) = RowOn(old, on)
<1> DEFINE Started(schedule) == { r \in schedule : r.from <= on }
           Pick(started) ==
               LET current == CHOOSE r \in started : \A q \in started : q.from <= r.from
               IN  IF started = {} THEN NoRow
                   ELSE IF current.to # OpenEnded /\ on > current.to THEN NoRow
                   ELSE current
<1>1. RowOn(new, on) = Pick(Started(new)) /\ RowOn(old, on) = Pick(Started(old))
  BY DEF RowOn
<1>2. Started(new) = Started(old)
  OBVIOUS
<1> HIDE DEF Started, Pick
<1> QED BY <1>1, <1>2

\* A rate that applies from a later day on leaves the days before alone.
LEMMA RowOnLaterRate ==
    ASSUME NEW schedule, Scheduled(schedule), NEW r \in Row, NEW on \in Nat, on < r.from
    PROVE  RowOn(schedule \cup {r}, on) = RowOn(schedule, on)
<1>1. r.from \in Nat
  BY RowFields
<1>2. { q \in schedule \cup {r} : q.from <= on } = { q \in schedule : q.from <= on }
  BY <1>1
<1> QED BY <1>2, RowOnStarted

\* Another last day, not gone by yet, of the row in force changes no rate until then.
LEMMA RowOnOtherEnd ==
    ASSUME NEW schedule, Scheduled(schedule), NEW today \in Nat, NEW on \in Nat, on <= today,
           NEW w \in schedule, w = RowOn(schedule, today),
           NEW e \in Row, e.from = w.from, e.rate = w.rate, e.to = OpenEnded \/ today <= e.to
    PROVE  /\ Scheduled((schedule \ {w}) \cup {e})
           /\ RowOn((schedule \ {w}) \cup {e}, on).rate = RowOn(schedule, on).rate
           /\ RowOn((schedule \ {w}) \cup {e}, today) = e
<1> DEFINE new == (schedule \ {w}) \cup {e}
<1>1. w \in Row /\ w # NoRow /\ e.from \in Nat /\ w.to \in Nat /\ e.to \in Nat
  BY RowFields DEF Scheduled
<1>2. Scheduled(new)
  BY DEF Scheduled
<1>3. Latest(schedule, today, w) /\ Standing(w, today) = w
  BY <1>1, RowOnCases DEF Latest, Standing
<1>4. ASSUME NEW d \in Nat, d <= today, e.from <= d
      PROVE  RowOn(new, d) = e /\ RowOn(schedule, d) = w
  <2>1. \A q \in schedule : q.from \in Nat
    BY RowFields DEF Scheduled
  <2>2. Latest(schedule, d, w) /\ Latest(new, d, e)
    BY <1>1, <1>3, <1>4, <2>1 DEF Latest
  <2>3. Standing(w, d) = w /\ Standing(e, d) = e
    BY <1>1, <1>3, <1>4 DEF Standing
  <2> HIDE DEF new
  <2> QED BY <1>2, <2>2, <2>3, RowOnLatest
<1>5. e.from <= today
  BY <1>3 DEF Latest
<1>6. CASE ~(e.from <= on)
  <2>1. { r \in new : r.from <= on } = { r \in schedule : r.from <= on }
    BY <1>6
  <2>2. RowOn(new, on) = RowOn(schedule, on)
    BY <2>1, RowOnStarted
  <2> QED BY <1>2, <1>4, <1>5, <2>2
<1>7. CASE e.from <= on
  BY <1>2, <1>4, <1>5, <1>7
<1> QED BY <1>6, <1>7

\* The day by day account of the rates is the look-up's: the row of tomorrow.
LEMMA Tomorrow ==
    ASSUME Filed, Rated, NEW k \in Kinds
    PROVE  InForceTomorrow(k) = RowOn(files.fees[k], day + 1)
<1> DEFINE schedule == files.fees[k]
<1>1. Scheduled(schedule) /\ day \in Nat /\ inForce[k] = RowOn(schedule, day)
  BY DEF Filed, Rated
<1>2. \A r \in schedule : r \in Row /\ r.from \in Nat /\ r.to \in Nat
                          /\ (r.to = OpenEnded \/ r.from <= r.to)
  BY <1>1, RowFields DEF Scheduled
<1>3. CASE Starting(k) # {}
  <2>1. PICK r \in schedule : r.from = day + 1 /\ InForceTomorrow(k) = r
    BY <1>3 DEF InForceTomorrow, Starting
  <2>2. Latest(schedule, day + 1, r)
    BY <1>1, <1>2, <2>1 DEF Latest
  <2>3. Standing(r, day + 1) = r
    BY <1>1, <1>2, <2>1 DEF Standing
  <2> HIDE DEF schedule
  <2> QED BY <1>1, <2>1, <2>2, <2>3, RowOnLatest DEF schedule
<1>4. CASE Starting(k) = {}
  <2>1. \A r \in schedule : r.from <= day + 1 <=> r.from <= day
    BY <1>1, <1>2, <1>4 DEF Starting
  <2>2. InForceTomorrow(k) = IF inForce[k].to # OpenEnded /\ inForce[k].to <= day
                             THEN NoRow ELSE inForce[k]
    BY <1>4 DEF InForceTomorrow
  <2> HIDE DEF schedule
  <2>3. CASE \A q \in schedule : ~(q.from <= day)
    <3>1. inForce[k] = NoRow
      BY <1>1, <2>3 DEF RowOn
    <3>2. RowOn(schedule, day + 1) = NoRow
      BY <2>1, <2>3 DEF RowOn
    <3> QED BY <2>2, <3>1, <3>2 DEF schedule, NoRow
  <2>4. ASSUME NEW r, Latest(schedule, day, r), inForce[k] = Standing(r, day)
        PROVE  InForceTomorrow(k) = RowOn(schedule, day + 1)
    <3>1. Latest(schedule, day + 1, r)
      BY <2>1, <2>4 DEF Latest
    <3>2. RowOn(schedule, day + 1) = Standing(r, day + 1)
      BY <1>1, <3>1, RowOnLatest
    <3>3. r.to \in Nat /\ r \in schedule
      BY <1>2, <2>4 DEF Latest
    <3> QED BY <1>1, <2>2, <2>4, <3>2, <3>3 DEF Standing, NoRow, OpenEnded
  <2> QED BY <1>1, <2>3, <2>4, RowOnCases DEF schedule
<1> QED BY <1>3, <1>4

-----------------------------------------------------------------------------
(***************************************************************************)
(* The owner and the calendar.                                             *)
(***************************************************************************)
LEMMA FeesOfFiles ==
    ASSUME NEW f \in Files, NEW k \in Kinds
    PROVE  f.fees \in [Kinds -> SUBSET Row]
BY DEF Files

\* What a rate that is deployed, and the end of one, do to the files.
LEMMA RateDeployed ==
    ASSUME Filed, Rated, NEW k \in Kinds, DeployRate(k)
    PROVE  \E r \in Row :
              /\ day < r.from
              /\ files' = [files EXCEPT !.fees[k] = @ \cup {r}]
              /\ Scheduled(files.fees[k] \cup {r})
<1>1. day \in Nat \ {0} /\ deploys \in Nat /\ Scheduled(files.fees[k])
  BY DEF Filed, Rated
<1>2. PICK from \in day + 1..MaxDay, to \in {OpenEnded} \cup 1..MaxDay :
         /\ to = OpenEnded \/ to >= from
         /\ ~\E r \in files.fees[k] : r.from = from
         /\ files' = [files EXCEPT !.fees[k] = @ \cup {[from |-> from, to |-> to, rate |-> 10 + deploys]}]
  BY DEF DeployRate
<1> DEFINE r == [from |-> from, to |-> to, rate |-> 10 + deploys]
<1>3. r.from = from /\ r.to = to /\ day < from
  BY <1>1, <1>2, LaunchAssumption
<1>4. r \in Row
  <2>1. from \in 1..MaxDay /\ 10 + deploys \in Nat \ {0} /\ (to = OpenEnded \/ from <= to)
    BY <1>1, <1>2, LaunchAssumption DEF OpenEnded
  <2> QED BY <1>2, <2>1 DEF Row, None
<1>5. Scheduled(files.fees[k] \cup {r})
  <2> HIDE DEF r
  <2> QED BY <1>1, <1>2, <1>3, <1>4 DEF Scheduled
<1> QED BY <1>2, <1>3, <1>4, <1>5

LEMMA RateEnded ==
    ASSUME Filed, Rated, NEW k \in Kinds, EndRate(k)
    PROVE  \E e \in Row :
              LET w == inForce[k] IN
              /\ w \in files.fees[k] /\ e.from = w.from /\ e.rate = w.rate
              /\ e.to = OpenEnded \/ day <= e.to
              /\ files' = [files EXCEPT !.fees[k] = (@ \ {w}) \cup {e}]
              /\ inForce' = [inForce EXCEPT ![k] = e]
<1> DEFINE w == inForce[k]
<1>1. day \in Nat \ {0} /\ Scheduled(files.fees[k]) /\ w = RowOn(files.fees[k], day)
  BY DEF Filed, Rated
<1>2. PICK to \in ({OpenEnded} \cup day..MaxDay) \ {w.to} :
         /\ w # NoRow
         /\ files' = [files EXCEPT !.fees[k] = (@ \ {w}) \cup {[w EXCEPT !.to = to]}]
         /\ inForce' = [inForce EXCEPT ![k] = [w EXCEPT !.to = to]]
  BY DEF EndRate
<1>3. w \in files.fees[k] /\ w.from <= day
  BY <1>1, <1>2, RowOnCases DEF Standing, Latest
<1>4. w \in Row
  BY <1>1, <1>3 DEF Scheduled
<1> DEFINE e == [w EXCEPT !.to = to]
<1>5. e.from = w.from /\ e.rate = w.rate /\ e.to = to /\ e = [from |-> w.from, to |-> to, rate |-> w.rate]
  BY <1>4 DEF Row
<1>6. to \in {OpenEnded} \cup 1..MaxDay /\ (to = OpenEnded \/ day <= to)
  BY <1>1, <1>2, LaunchAssumption
<1>7. e \in Row
  <2>1. w.from \in 1..MaxDay /\ w.rate \in Nat \ {None} /\ (to = OpenEnded \/ w.from <= to)
    BY <1>1, <1>3, <1>4, <1>6, RowFields DEF None, OpenEnded
  <2> QED BY <1>5, <1>6, <2>1 DEF Row
<1> HIDE DEF e
<1>8. /\ files' = [files EXCEPT !.fees[k] = (@ \ {w}) \cup {e}]
      /\ inForce' = [inForce EXCEPT ![k] = e]
  BY <1>2 DEF e
<1> QED BY <1>3, <1>5, <1>6, <1>7, <1>8

LEMMA FiledStep ==
    ASSUME Filed, Rated, [Next]_vars
    PROVE  Filed'
<1>1. CASE UNCHANGED owner
  BY <1>1 DEF owner, Filed
<1>2. CASE DeployRisk
  <2>1. /\ \/ \E m \in Modes : files' = [files EXCEPT !.mode = m]
           \/ files' = [files EXCEPT !.liveEnabled = ~files.liveEnabled]
           \/ files' = [files EXCEPT !.rest = files.rest + 1]
        /\ deploys' = deploys + 1
    BY <1>2 DEF DeployRisk, Replace
  <2>2. \A m \in Modes : [files EXCEPT !.mode = m] \in Files
    BY DEF Filed, Files
  <2>3. [files EXCEPT !.liveEnabled = ~files.liveEnabled] \in Files
    BY DEF Filed, Files
  <2>4. [files EXCEPT !.rest = files.rest + 1] \in Files
    BY DEF Filed, Files
  <2>5. files'.fees = files.fees
    BY <2>1 DEF Filed, Files
  <2> QED BY <2>1, <2>2, <2>3, <2>4, <2>5 DEF Filed
<1>3. ASSUME NEW k \in Kinds, NEW schedule, Scheduled(schedule),
             files' = [files EXCEPT !.fees[k] = schedule], deploys' \in Nat
      PROVE  Filed'
  <2>1. files.fees \in [Kinds -> SUBSET Row] /\ schedule \in SUBSET Row
    BY <1>3, FeesOfFiles DEF Filed, Scheduled
  <2>2. /\ files'.fees = [files.fees EXCEPT ![k] = schedule]
        /\ files'.fees \in [Kinds -> SUBSET Row]
    BY <1>3, <2>1 DEF Filed, Files
  <2>3. files' \in Files
    BY <1>3, <2>2 DEF Filed, Files
  <2>4. \A j \in Kinds : Scheduled(files'.fees[j])
    BY <1>3, <2>1, <2>2 DEF Filed
  <2> QED BY <1>3, <2>3, <2>4 DEF Filed
<1>4. ASSUME NEW k \in Kinds, DeployRate(k) PROVE Filed'
  <2>1. deploys' \in Nat
    BY <1>4 DEF DeployRate, Replace, Filed
  <2>2. PICK r \in Row : /\ files' = [files EXCEPT !.fees[k] = @ \cup {r}]
                         /\ Scheduled(files.fees[k] \cup {r})
    BY <1>4, RateDeployed
  <2>3. files' = [files EXCEPT !.fees[k] = files.fees[k] \cup {r}]
    BY <2>2
  <2> QED BY <1>3, <2>1, <2>2, <2>3
<1>5. ASSUME NEW k \in Kinds, EndRate(k) PROVE Filed'
  <2>1. deploys' \in Nat
    BY <1>5 DEF EndRate, Replace, Filed
  <2>2. PICK e \in Row : /\ inForce[k] \in files.fees[k]
                         /\ e.from = inForce[k].from /\ e.rate = inForce[k].rate
                         /\ e.to = OpenEnded \/ day <= e.to
                         /\ files' = [files EXCEPT !.fees[k] = (@ \ {inForce[k]}) \cup {e}]
    BY <1>5, RateEnded
  <2>3. Scheduled(files.fees[k]) /\ day \in Nat /\ inForce[k] = RowOn(files.fees[k], day)
    BY DEF Filed, Rated
  <2>4. Scheduled((files.fees[k] \ {inForce[k]}) \cup {e})
    BY <2>2, <2>3 DEF Scheduled
  <2>5. files' = [files EXCEPT !.fees[k] = (files.fees[k] \ {inForce[k]}) \cup {e}]
    BY <2>2
  <2> QED BY <1>3, <2>1, <2>4, <2>5
<1> QED
  BY <1>1, <1>2, <1>4, <1>5, LaunchAssumption
  DEF Next, vars, NewDay, Start, Boot, Run, Kill, Submit, FillBuy, FillSell

LEMMA RatedStep ==
    ASSUME Filed, Rated, [Next]_vars
    PROVE  Rated'
<1>1. CASE UNCHANGED <<calendar, owner>>
  BY <1>1 DEF calendar, owner, Rated
<1>2. CASE DeployRisk
  <2>1. files'.fees = files.fees /\ UNCHANGED calendar
    BY <1>2 DEF DeployRisk, Filed, Files
  <2> QED BY <2>1 DEF Rated, calendar
<1>3. CASE NewDay
  <2> DEFINE rates == [k \in Kinds |-> inForce'[k].rate]
  <2>1. /\ day' = day + 1 /\ inForce' = [k \in Kinds |-> InForceTomorrow(k)]
        /\ due' = Append(due, rates) /\ files' = files
    BY <1>3 DEF NewDay, owner
  <2>2. day \in Nat \ {0} /\ due \in Seq([Kinds -> Nat]) /\ Len(due) = day
    BY DEF Rated
  <2>3. \A k \in Kinds : inForce'[k] = RowOn(files.fees[k], day + 1)
    BY <2>1, Tomorrow
  <2>4. rates \in [Kinds -> Nat]
    BY <2>2, <2>3, RowOnType DEF Filed
  <2> HIDE DEF rates
  <2>5. /\ due' \in Seq([Kinds -> Nat]) /\ Len(due') = day + 1
        /\ \A d \in 1..day : due'[d] = due[d]
        /\ due'[day + 1] = rates
    BY <2>1, <2>2, <2>4
  <2>6. ASSUME NEW k \in Kinds, NEW d \in 1..day'
        PROVE  due'[d][k] = RowOn(files.fees[k], d).rate
    <3>1. CASE d \in 1..day
      BY <2>5, <3>1 DEF Rated
    <3>2. CASE d = day + 1
      BY <2>3, <2>5, <3>2 DEF rates
    <3> QED BY <2>1, <2>2, <3>1, <3>2
  <2> QED BY <2>1, <2>2, <2>3, <2>5, <2>6 DEF Rated
<1>4. ASSUME NEW k \in Kinds, DeployRate(k) PROVE Rated'
  <2>1. UNCHANGED <<day, inForce, due>>
    BY <1>4 DEF DeployRate, calendar
  <2>2. PICK r \in Row : day < r.from /\ files' = [files EXCEPT !.fees[k] = @ \cup {r}]
    BY <1>4, RateDeployed
  <2>3. files.fees \in [Kinds -> SUBSET Row] /\ files \in Files
    BY FeesOfFiles DEF Filed
  <2>4. /\ files'.fees[k] = files.fees[k] \cup {r}
        /\ \A j \in Kinds \ {k} : files'.fees[j] = files.fees[j]
    BY <2>2, <2>3 DEF Files
  <2>5. day \in Nat /\ r.from \in Nat /\ Scheduled(files.fees[k])
    BY RowFields DEF Rated, Filed
  <2>6. \A d \in 1..day : d \in Nat /\ d < r.from
    BY <2>2, <2>5
  <2>7. \A d \in 1..day : RowOn(files'.fees[k], d) = RowOn(files.fees[k], d)
    BY <2>4, <2>5, <2>6, RowOnLaterRate
  <2>8. \A j \in Kinds, d \in 1..day : RowOn(files'.fees[j], d) = RowOn(files.fees[j], d)
    BY <2>4, <2>7
  <2>9. day \in 1..day
    BY DEF Rated
  <2> QED BY <2>1, <2>8, <2>9 DEF Rated
<1>5. ASSUME NEW k \in Kinds, EndRate(k) PROVE Rated'
  <2>1. UNCHANGED <<day, due>>
    BY <1>5 DEF EndRate
  <2>2. PICK e \in Row : /\ inForce[k] \in files.fees[k]
                         /\ e.from = inForce[k].from /\ e.rate = inForce[k].rate
                         /\ e.to = OpenEnded \/ day <= e.to
                         /\ files' = [files EXCEPT !.fees[k] = (@ \ {inForce[k]}) \cup {e}]
                         /\ inForce' = [inForce EXCEPT ![k] = e]
    BY <1>5, RateEnded
  <2>3. files.fees \in [Kinds -> SUBSET Row] /\ files \in Files /\ DOMAIN inForce = Kinds
    BY FeesOfFiles DEF Filed, Rated
  <2>4. /\ files'.fees[k] = (files.fees[k] \ {inForce[k]}) \cup {e}
        /\ \A j \in Kinds \ {k} : files'.fees[j] = files.fees[j]
        /\ inForce'[k] = e /\ \A j \in Kinds \ {k} : inForce'[j] = inForce[j]
        /\ DOMAIN inForce' = Kinds
    BY <2>2, <2>3 DEF Files
  <2>5. day \in Nat /\ Scheduled(files.fees[k]) /\ inForce[k] = RowOn(files.fees[k], day)
    BY DEF Rated, Filed
  <2>6. \A d \in 1..day : d \in Nat /\ d <= day
    BY <2>5
  <2>7. /\ \A d \in 1..day : RowOn(files'.fees[k], d).rate = RowOn(files.fees[k], d).rate
        /\ RowOn(files'.fees[k], day) = e
    BY <2>2, <2>4, <2>5, <2>6, RowOnOtherEnd
  <2>8. \A j \in Kinds, d \in 1..day :
           RowOn(files'.fees[j], d).rate = RowOn(files.fees[j], d).rate
    BY <2>4, <2>7
  <2>9. \A j \in Kinds : inForce'[j] = RowOn(files'.fees[j], day)
    BY <2>4, <2>7 DEF Rated
  <2>10. \A j \in Kinds, d \in 1..day : due[d][j] = RowOn(files'.fees[j], d).rate
    BY <2>8 DEF Rated
  <2> QED BY <2>1, <2>4, <2>9, <2>10 DEF Rated
<1> QED
  BY <1>1, <1>2, <1>3, <1>4, <1>5, LaunchAssumption
  DEF Next, vars, Start, Boot, Run, Kill, Submit, FillBuy, FillSell

-----------------------------------------------------------------------------
(***************************************************************************)
(* The process, and the experiments it trades under.                       *)
(***************************************************************************)
LEMMA ExitIsOff ==
    ASSUME Exit
    PROVE  stage' = "off" /\ env' \in Env /\ since' = 0
BY DEF Exit, NoEnv, Env

LEMMA ConfiguredStep ==
    ASSUME Filed, Configured, [Next]_vars
    PROVE  Configured'
<1>1. CASE UNCHANGED <<process, files>>
  BY <1>1 DEF process, Configured
<1>2. CASE stage = "off" /\ UNCHANGED process
  BY <1>2 DEF process, Configured
<1>3. ASSUME NEW e \in Env, Start(e) PROVE Configured'
  <2>1. CASE LockedOut(files, e) \/ (ModeOf(files, e) = "PAPER" /\ ~e.keys)
    BY <1>2, <1>3, <2>1 DEF Start
  <2>2. CASE ~(LockedOut(files, e) \/ (ModeOf(files, e) = "PAPER" /\ ~e.keys))
    <3>1. /\ stage' = "brokered" /\ env' = e /\ files' = files
          /\ settings' = [mode |-> ModeOf(files, e), fees |-> files.fees, version |-> Version(files, e)]
          /\ broker' = BrokerOf(ModeOf(files, e), e)
      BY <1>3, <2>2 DEF Start, owner
    <3>2. ModeOf(files, e) \in Modes \ {"LIVE"}
      BY <2>2 DEF LockedOut, ModeOf, Filed, Files, Env
    <3> QED BY <2>2, <3>1, <3>2 DEF Configured, Modes
  <2> QED BY <2>1, <2>2
<1>4. CASE Exit
  BY <1>4, ExitIsOff DEF Configured
<1>5. CASE /\ stage # "off" /\ UNCHANGED <<env, settings, broker, files>>
           /\ stage' \in {"booted", "running"} /\ (stage' = "running" => env.keys)
  BY <1>5 DEF Configured
<1>6. CASE Boot
  <2>1. CASE Exit
    BY <2>1, <1>4
  <2>2. CASE stage' = "booted" /\ UNCHANGED <<env, settings, broker>>
    BY <1>5, <1>6, <2>2 DEF Boot, owner
  <2> QED BY <1>6, <2>1, <2>2 DEF Boot
<1>7. CASE Run
  BY <1>4, <1>5, <1>7 DEF Run, owner
<1>8. CASE Kill
  BY <1>4, <1>8 DEF Kill
<1> QED
  BY <1>1, <1>2, <1>3, <1>6, <1>7, <1>8
  DEF Next, vars, NewDay, DeployRisk, DeployRate, EndRate, Replace, Submit, FillBuy, FillSell, owner

\* A position of an experiment comes from fills of its own.
LEMMA HeldHasFills ==
    ASSUME NEW name, Held(name) > 0
    PROVE  \E i \in DOMAIN fills : fills[i].of = name
<1> SUFFICES ASSUME \A i \in DOMAIN fills : fills[i].of # name PROVE FALSE
  OBVIOUS
<1>1. Of(name) = {}
  BY DEF Of
<1>2. Sides(Of(name), "buy") = {} /\ Sides(Of(name), "sell") = {}
  BY <1>1 DEF Sides
<1>3. Held(name) = 0 - 0
  BY <1>2, FS_EmptySet DEF Held, Net
<1> QED BY <1>3

LEMMA RegisteredStep ==
    ASSUME Filed, Configured, Registered, Charged, [Next]_vars
    PROVE  Registered'
<1>1. CASE /\ UNCHANGED <<experiments, working, fills>>
           /\ stage' \in {"booted", "running"} =>
                 stage \in {"booted", "running"} /\ UNCHANGED <<env, settings>>
  <2>1. stage' \in {"booted", "running"} => Name' = Name /\ settings' = settings
    BY <1>1 DEF Name
  <2> QED BY <1>1, <2>1 DEF Registered
<1>2. CASE UNCHANGED <<process, experiments, outside>>
  BY <1>1, <1>2 DEF process, outside
<1>3. ASSUME NEW e \in Env, Start(e) PROVE Registered'
  <2>1. UNCHANGED process \/ stage' = "brokered"
    BY <1>3 DEF Start
  <2> QED BY <1>1, <1>3, <2>1 DEF Start, process, outside
<1>4. CASE Boot
  <2> DEFINE new == Entry(Name, settings.mode)
  <2>1. /\ experiments' = IF Recorded = {} THEN experiments \cup {new} ELSE experiments
        /\ UNCHANGED outside
        /\ Exit \/ (~Mismatch /\ stage' = "booted" /\ UNCHANGED <<env, settings, broker>>)
    BY <1>4 DEF Boot, Entry
  <2>2. settings.mode # "LIVE" /\ stage = "brokered"
    BY <1>4 DEF Boot, Configured
  <2>3. new.name = Name /\ new.mode = settings.mode /\ new = Entry(new.name, new.mode)
    BY DEF Entry
  <2> HIDE DEF new
  <2>4. \A x \in experiments' : x = Entry(x.name, x.mode) /\ x.mode # "LIVE"
    BY <2>1, <2>2, <2>3 DEF Registered
  <2>5. \A x, y \in experiments' : x.name = y.name => x = y
    BY <2>1, <2>3 DEF Registered, Recorded
  <2>6. experiments \subseteq experiments'
    BY <2>1
  <2>7. ASSUME ~Exit PROVE Entry(Name, settings.mode)' \in experiments'
    <3>1. Name' = Name /\ settings' = settings /\ ~Mismatch
      BY <2>1, <2>7 DEF Name
    <3>2. CASE Recorded = {}
      BY <2>1, <3>1, <3>2 DEF new, Entry
    <3>3. CASE Recorded # {}
      <4>1. PICK x \in experiments : x.name = Name
        BY <3>3 DEF Recorded
      <4>2. x.mode = settings.mode /\ x = Entry(Name, settings.mode)
        BY <3>1, <4>1 DEF Mismatch, Recorded, Registered
      <4> QED BY <2>6, <3>1, <4>2 DEF Entry
    <3> QED BY <3>2, <3>3
  <2>8. stage' \in {"booted", "running"} => Entry(Name, settings.mode)' \in experiments'
    BY <2>7, ExitIsOff
  <2> QED BY <2>1, <2>4, <2>5, <2>6, <2>8 DEF Registered, outside
<1>5. CASE Run
  BY <1>1, <1>5, ExitIsOff DEF Run, outside
<1>6. CASE Kill
  BY <1>1, <1>6, ExitIsOff DEF Kill, outside
<1>7. CASE Submit
  <2>1. /\ stage = "running" /\ broker = "paper" /\ working' = working \cup {Name}
        /\ UNCHANGED <<process, experiments, fills>>
    BY <1>7 DEF Submit
  <2>2. settings.mode = "PAPER"
    BY <2>1 DEF Configured, BrokerOf
  <2>3. Name' = Name /\ settings' = settings /\ stage' = stage
    BY <2>1 DEF Name, process
  <2> QED BY <2>1, <2>2, <2>3 DEF Registered
<1>8. ASSUME NEW e, Entry(e, "PAPER") \in experiments, NEW side,
             fills' = Append(fills, [day |-> day, side |-> side, of |-> e]),
             working' \subseteq working, UNCHANGED <<process, experiments>>
      PROVE  Registered'
  <2>1. Name' = Name /\ settings' = settings /\ stage' = stage
    BY <1>8 DEF Name, process
  <2> DEFINE f == [day |-> day, side |-> side, of |-> e]
  <2>2. PICK n \in Nat : DOMAIN fills = 1..n /\ Len(fills) = n /\ List(fills)
    BY ListFacts DEF Charged
  <2>3. f.of = e
    OBVIOUS
  <2> HIDE DEF f
  <2>4. /\ DOMAIN fills' = 1..(n + 1) /\ fills'[n + 1] = f
        /\ \A i \in 1..n : fills'[i] = fills[i]
    BY <1>8, <2>2, Added, ListFacts DEF f
  <2>5. \A i \in DOMAIN fills' : Entry(fills'[i].of, "PAPER") \in experiments
    <3>1. \A i \in 1..n : Entry(fills[i].of, "PAPER") \in experiments
      BY <2>2 DEF Registered
    <3> QED BY <1>8, <2>3, <2>4, <3>1
  <2> QED BY <1>8, <2>1, <2>5 DEF Registered
<1>9. ASSUME NEW e, FillBuy(e) PROVE Registered'
  <2>1. Entry(e, "PAPER") \in experiments
    BY <1>9 DEF FillBuy, Registered
  <2> QED BY <1>8, <1>9, <2>1 DEF FillBuy
<1>10. ASSUME NEW e, FillSell(e) PROVE Registered'
  <2>1. Entry(e, "PAPER") \in experiments
    BY <1>10, HeldHasFills DEF FillSell, Registered
  <2> QED BY <1>8, <1>10, <2>1 DEF FillSell
<1>11. CASE UNCHANGED vars
  BY <1>2, <1>11 DEF vars
<1> QED
  BY <1>2, <1>3, <1>4, <1>5, <1>6, <1>7, <1>9, <1>10, <1>11
  DEF Next, NewDay, DeployRisk, DeployRate, EndRate

-----------------------------------------------------------------------------
(***************************************************************************)
(* What is booked, and what the account holds.                             *)
(***************************************************************************)
\* A line of the ledger for a fill, when these were the rates of the days.
Priced(line, f, rates) ==
    /\ line.lines = [k \in Kinds |-> IF k = "cat" \/ f.side = "sell" THEN rates[f.day][k] ELSE None]
    /\ f.side = "sell" => None \notin {line.lines["sec"], line.lines["taf"]}

LEMMA FeesArePriced ==
    FeesAreThoseOfTheDay <=> \A i \in DOMAIN booked : Priced(booked[i], fills[i], due)
BY DEF FeesAreThoseOfTheDay, Priced

LEMMA PricedLater ==
    ASSUME List(fills'), List(booked'), Len(booked') <= Len(fills'),
           \A i \in DOMAIN fills' : fills'[i].day \in 1..day' /\ fills'[i].side \in {"buy", "sell"},
           \A i \in DOMAIN booked' : Priced(booked'[i], fills'[i], due')
    PROVE  Charged'
BY DEF Charged, FeesAreThoseOfTheDay, Priced

\* What a boot charges for a fill is what was in force on the fill's day.
LEMMA ReplayedIsPriced ==
    ASSUME Filed, Rated, Configured, stage # "off",
           NEW f, f.day \in 1..day, Chargeable(settings.fees, f.day, f.side), NEW line,
           line.lines = Lines(settings.fees, f.day, f.side)
    PROVE  Priced(line, f, due)
<1>1. settings.fees = files.fees /\ f.day \in Nat
  BY DEF Configured, Rated
<1>2. \A k \in Kinds : RowOn(files.fees[k], f.day).rate = due[f.day][k]
  BY DEF Rated
<1>3. \A k \in Kinds : RowOn(files.fees[k], f.day) # NoRow => due[f.day][k] # None
  BY <1>1, <1>2, RowOnType DEF Filed
<1>4. line.lines = [k \in Kinds |-> IF k = "cat" \/ f.side = "sell" THEN due[f.day][k] ELSE None]
  BY <1>1, <1>2 DEF Lines
<1>5. ASSUME f.side = "sell" PROVE line.lines["sec"] # None /\ line.lines["taf"] # None
  BY <1>1, <1>3, <1>4, <1>5 DEF Chargeable, Kinds
<1> QED BY <1>4, <1>5 DEF Priced

\* No boot books a fill twice or skips one: it books what is not booked yet, in order.
LEMMA BootBooks ==
    ASSUME List(fills), List(booked), Len(booked) <= Len(fills),
           booked' = booked \o Replayed
    PROVE  LET n == Len(fills)
               m == Len(booked)
           IN  \E k \in 0..(n - m) :
                  /\ List(booked') /\ Len(booked') = m + k
                  /\ \A i \in 1..m : booked'[i] = booked[i]
                  /\ DOMAIN ToReplay = 1..k
                  /\ \A i \in 1..k : /\ ToReplay[i] = fills[m + i]
                                     /\ booked'[m + i] = Replayed[i]
<1> DEFINE n == Len(fills)
           m == Len(booked)
<1>1. n \in Nat /\ m \in Nat /\ n - m \in Nat
  BY ListFacts
<1>2. PICK k \in 0..(n - m) : /\ DOMAIN ToReplay = 1..k
                              /\ \A i \in 1..k : ToReplay[i] = fills[m + i]
  <2>1. CASE ~Reads
    <3>1. ToReplay = <<>> /\ 0 \in 0..(n - m)
      BY <1>1, <2>1 DEF ToReplay
    <3>2. DOMAIN ToReplay = 1..0
      BY <3>1
    <3>3. \A i \in 1..0 : ToReplay[i] = fills[m + i]
      OBVIOUS
    <3> HIDE DEF n, m
    <3> QED BY <3>1, <3>2, <3>3
  <2>2. CASE Reads
    <3>1. ToReplay = SubSeq(fills, m + 1, n)
      BY <2>2 DEF ToReplay
    <3>2. fills \in Seq({ fills[i] : i \in DOMAIN fills }) /\ m + 1 \in 1..(n + 1) /\ n \in m..n
      BY <1>1 DEF List
    <3>3. /\ DOMAIN ToReplay = 1..(n - m)
          /\ \A i \in 1..(n - m) : ToReplay[i] = fills[m + i]
      BY <1>1, <3>1, <3>2
    <3>4. n - m \in 0..(n - m)
      BY <1>1
    <3> QED BY <3>3, <3>4
  <2> QED BY <2>1, <2>2
<1>3. DOMAIN Replayed = 1..k /\ k \in Nat
  BY <1>2 DEF Replayed
<1>4. List(Replayed) /\ Len(Replayed) = k
  <2> DEFINE R == { Replayed[i] : i \in DOMAIN Replayed }
  <2>1. \A i \in 1..k : Replayed[i] \in R
    BY <1>3
  <2>2. Replayed = [i \in 1..k |-> Replayed[i]]
    BY <1>3 DEF Replayed
  <2> HIDE DEF R
  <2>3. Replayed \in [1..k -> R]
    BY <2>1, <2>2
  <2>4. Replayed \in Seq(R)
    BY <1>3, <2>3, SeqDef
  <2>5. List(Replayed)
    BY <2>4 DEF List, R
  <2> QED BY <1>3, <2>5, ListFacts
<1>5. /\ List(booked') /\ Len(booked') = m + k
      /\ \A i \in 1..m : booked'[i] = booked[i]
      /\ \A i \in 1..k : booked'[m + i] = Replayed[i]
  <2>1. List(booked) /\ List(Replayed) /\ Len(Replayed) = k /\ booked' = booked \o Replayed
    BY <1>4
  <2>2. /\ List(booked \o Replayed)
        /\ Len(booked \o Replayed) = Len(booked) + Len(Replayed)
        /\ \A i \in 1..Len(booked) : (booked \o Replayed)[i] = booked[i]
        /\ \A i \in 1..Len(Replayed) : (booked \o Replayed)[Len(booked) + i] = Replayed[i]
    <3> HIDE DEF m, n
    <3> QED BY ONLY <2>1, Concatenated
  <2> QED BY <2>1, <2>2
<1> QED BY <1>2, <1>5

LEMMA ChargedStep ==
    ASSUME Filed, Rated, Configured, Charged, [Next]_vars
    PROVE  Charged'
<1>1. PICK n \in Nat : DOMAIN fills = 1..n /\ Len(fills) = n /\ List(fills)
  BY ListFacts DEF Charged
<1>2. PICK m \in 0..n : DOMAIN booked = 1..m /\ Len(booked) = m /\ List(booked)
  BY <1>1, ListFacts DEF Charged
<1>3. /\ day \in Nat \ {0} /\ due \in Seq([Kinds -> Nat]) /\ Len(due) = day
      /\ \A i \in 1..n : fills[i].day \in 1..day /\ fills[i].side \in {"buy", "sell"}
      /\ \A i \in 1..m : Priced(booked[i], fills[i], due)
  BY <1>1, <1>2, FeesArePriced DEF Charged, Rated
<1>4. CASE UNCHANGED <<day, due, fills, booked>>
  BY <1>4 DEF Charged, FeesAreThoseOfTheDay
<1>5. CASE NewDay
  <2>1. day' = day + 1 /\ UNCHANGED <<fills, booked>>
    BY <1>5 DEF NewDay, outside
  <2>2. due' = Append(due, [k \in Kinds |-> inForce'[k].rate])
    BY <1>5 DEF NewDay
  <2>3. \A d \in 1..day : due'[d] = due[d]
    BY <1>3, <2>2
  <2>4. \A i \in 1..m : Priced(booked[i], fills[i], due')
    <3>1. \A i \in 1..m : fills[i].day \in 1..day /\ Priced(booked[i], fills[i], due)
      BY <1>2, <1>3
    <3> QED BY <2>3, <3>1 DEF Priced
  <2>5. \A i \in 1..n : fills[i].day \in 1..(day + 1)
    BY <1>3
  <2> QED BY <1>1, <1>2, <1>3, <2>1, <2>4, <2>5, PricedLater
<1>6. CASE Boot /\ AllChargeable /\ booked' = booked \o Replayed
  <2>1. UNCHANGED <<day, due, fills>> /\ stage # "off"
    BY <1>6 DEF Boot, calendar, outside
  <2>2. PICK k \in 0..(n - m) :
              /\ List(booked') /\ Len(booked') = m + k
              /\ \A i \in 1..m : booked'[i] = booked[i]
              /\ DOMAIN ToReplay = 1..k
              /\ \A i \in 1..k : /\ ToReplay[i] = fills[m + i]
                                 /\ booked'[m + i] = Replayed[i]
    <3>1. Len(booked) <= Len(fills) /\ List(fills) /\ List(booked) /\ booked' = booked \o Replayed
      BY <1>1, <1>2, <1>6
    <3> QED BY <1>1, <1>2, <3>1, BootBooks
  <2>3. ASSUME NEW j \in 1..k PROVE Priced(booked'[m + j], fills[m + j], due)
    <3>1. m + j \in 1..n
      BY <1>2
    <3>2. fills[m + j].day \in 1..day
      BY <1>3, <3>1
    <3>3. booked'[m + j].lines = Lines(settings.fees, fills[m + j].day, fills[m + j].side)
      <4>1. ToReplay[j] = fills[m + j] /\ booked'[m + j] = Replayed[j] /\ j \in DOMAIN ToReplay
        BY <2>2
      <4>2. Replayed[j].lines = Lines(settings.fees, ToReplay[j].day, ToReplay[j].side)
        BY <4>1 DEF Replayed
      <4> QED BY <4>1, <4>2
    <3>4. Chargeable(settings.fees, fills[m + j].day, fills[m + j].side)
      BY <1>6, <2>2 DEF AllChargeable
    <3> QED BY <2>1, <3>2, <3>3, <3>4, ReplayedIsPriced
  <2>4. ASSUME NEW i \in 1..(m + k) PROVE Priced(booked'[i], fills[i], due)
    <3>1. CASE i \in 1..m
      BY <1>3, <2>2, <3>1
    <3>2. CASE i \notin 1..m
      <4>1. i - m \in 1..k /\ m + (i - m) = i
        BY <3>2
      <4>2. Priced(booked'[m + (i - m)], fills[m + (i - m)], due)
        BY <2>3, <4>1
      <4> QED BY <4>1, <4>2
    <3> QED BY <3>1, <3>2
  <2>5. m + k \in 0..n
    OBVIOUS
  <2>6. DOMAIN booked' = 1..(m + k) /\ m + k <= n /\ List(booked')
    BY <2>2, <2>5, ListFacts
  <2> QED BY <1>1, <1>3, <2>1, <2>2, <2>4, <2>6, PricedLater
<1>7. ASSUME NEW e, NEW side \in {"buy", "sell"},
             fills' = Append(fills, [day |-> day, side |-> side, of |-> e]),
             UNCHANGED <<day, due, booked>>
      PROVE  Charged'
  <2> DEFINE f == [day |-> day, side |-> side, of |-> e]
  <2>1. f.day = day /\ f.side = side
    OBVIOUS
  <2> HIDE DEF f
  <2>2. /\ DOMAIN fills' = 1..(n + 1) /\ Len(fills') = n + 1 /\ fills'[n + 1] = f
        /\ \A i \in 1..n : fills'[i] = fills[i]
        /\ List(fills')
    BY <1>1, <1>7, Added, ListFacts DEF f
  <2>3. ASSUME NEW i \in 1..m PROVE Priced(booked[i], fills'[i], due)
    <3>1. i \in 1..n
      BY <1>2
    <3>2. fills'[i] = fills[i]
      BY <2>2, <3>1
    <3>3. Priced(booked[i], fills[i], due)
      BY <1>3
    <3> QED BY <3>2, <3>3
  <2>4. \A i \in 1..(n + 1) : fills'[i].day \in 1..day /\ fills'[i].side \in {"buy", "sell"}
    BY <1>3, <1>7, <2>1, <2>2
  <2>5. booked' = booked /\ UNCHANGED <<day, due>>
    BY <1>7
  <2>6. List(booked')
    BY <1>2, <2>5
  <2>7. List(fills') /\ Len(booked') <= Len(fills') /\ DOMAIN booked' = 1..m
    BY <1>2, <2>2, <2>5
  <2> QED BY <2>2, <2>3, <2>4, <2>5, <2>6, <2>7, PricedLater
<1>8. CASE Boot
  <2>1. UNCHANGED <<day, due, fills>> /\ (booked' = booked \/ (AllChargeable /\ booked' = booked \o Replayed))
    BY <1>8 DEF Boot, calendar, outside
  <2> QED BY <1>4, <1>6, <1>8, <2>1
<1>9. ASSUME NEW e, FillBuy(e) \/ FillSell(e) PROVE Charged'
  BY <1>7, <1>9 DEF FillBuy, FillSell, calendar
<1> QED
  BY <1>4, <1>5, <1>8, <1>9
  DEF Next, vars, DeployRisk, DeployRate, EndRate, Start, Run, Kill, Submit, calendar, outside

-----------------------------------------------------------------------------
\* What some fills and the rest of them leave adds up to what all of them leave.
LEMMA NetSplits ==
    ASSUME NEW all, IsFiniteSet(all), NEW some \in SUBSET all
    PROVE  /\ Net(some) \in Int /\ Net(all \ some) \in Int
           /\ Net(all) = Net(some) + Net(all \ some)
<1>1. ASSUME NEW side
      PROVE  /\ Cardinality(Sides(some, side)) \in Nat /\ Cardinality(Sides(all \ some, side)) \in Nat
             /\ Cardinality(Sides(all, side)) =
                   Cardinality(Sides(some, side)) + Cardinality(Sides(all \ some, side))
  <2> DEFINE A == Sides(some, side)
             B == Sides(all \ some, side)
  <2>1. /\ Sides(all, side) = A \cup B /\ A \cap B = {}
        /\ A \in SUBSET all /\ B \in SUBSET all
    BY DEF Sides
  <2> HIDE DEF A, B
  <2>2. IsFiniteSet(A) /\ IsFiniteSet(B)
    BY <2>1, FS_Subset
  <2>3. Cardinality(A) \in Nat /\ Cardinality(B) \in Nat /\ Cardinality(A \cap B) = 0
    BY <2>1, <2>2, FS_CardinalityType, FS_EmptySet
  <2>4. Cardinality(A \cup B) = Cardinality(A) + Cardinality(B) - Cardinality(A \cap B)
    BY <2>2, FS_Union
  <2> QED BY <2>1, <2>3, <2>4 DEF A, B
<1> DEFINE Size(set, side) == Cardinality(Sides(set, side))
           Adds(side) == /\ Size(some, side) \in Nat /\ Size(all \ some, side) \in Nat
                         /\ Size(all, side) = Size(some, side) + Size(all \ some, side)
<1>2. Adds("buy") /\ Adds("sell")
  BY <1>1
<1>3. /\ Net(some) = Size(some, "buy") - Size(some, "sell")
      /\ Net(all \ some) = Size(all \ some, "buy") - Size(all \ some, "sell")
      /\ Net(all) = Size(all, "buy") - Size(all, "sell")
  BY DEF Net
<1> HIDE DEF Size
<1> QED BY <1>2, <1>3

\* A boot that agrees with the broker leaves no share to another experiment: also where
\* nothing is compared, because what only observes has bought nothing itself.
LEMMA AgreedIsAlone ==
    ASSUME Configured, Registered, Charged, stage = "brokered", env.keys, ~Mismatch, Agrees
    PROVE  Net(DOMAIN fills \ Of(Name)) = 0
<1>1. DOMAIN fills = 1..Len(fills) /\ Len(fills) \in Nat
  BY ListFacts DEF Charged
<1>2. IsFiniteSet(DOMAIN fills)
  BY <1>1, FS_Interval
<1>3. Of(Name) \in SUBSET DOMAIN fills
  BY DEF Of
<1>4. /\ Held(Name) \in Int /\ Net(DOMAIN fills \ Of(Name)) \in Int
      /\ BrokerQty = Held(Name) + Net(DOMAIN fills \ Of(Name))
  BY <1>2, <1>3, NetSplits DEF Held, BrokerQty
<1>5. Reads
  BY DEF Configured, BrokerOf, Reads
<1>6. CASE BrokerQty # 0
  BY <1>4, <1>5, <1>6 DEF Agrees
<1>7. CASE BrokerQty = 0 /\ settings.mode = "PAPER"
  BY <1>4, <1>7 DEF Agrees
<1>8. CASE BrokerQty = 0 /\ settings.mode # "PAPER"
  <2>1. ASSUME NEW i \in DOMAIN fills, fills[i].of = Name PROVE FALSE
    <3>1. Entry(Name, "PAPER") \in experiments
      BY <2>1 DEF Registered
    <3>2. Entry(Name, "PAPER").name = Name /\ Entry(Name, "PAPER").mode = "PAPER"
      BY DEF Entry
    <3>3. Mismatch
      BY <1>8, <3>1, <3>2 DEF Mismatch, Recorded
    <3> QED BY <3>3
  <2>2. ~(Held(Name) > 0) /\ Of(Name) = {}
    BY <2>1, HeldHasFills DEF Of
  <2>3. Sides({}, "buy") = {} /\ Sides({}, "sell") = {}
    BY DEF Sides
  <2>4. Held(Name) = 0
    BY <2>2, <2>3, FS_EmptySet DEF Held, Net
  <2> QED BY <1>4, <1>8, <2>4
<1> QED BY <1>6, <1>7, <1>8

LEMMA AloneStep ==
    ASSUME Filed, Configured, Registered, Charged, Alone, [Next]_vars
    PROVE  Alone'
<1>1. Len(fills) \in Nat /\ DOMAIN fills = 1..Len(fills)
  BY ListFacts DEF Charged
<1>2. CASE /\ UNCHANGED <<since, fills>>
           /\ stage' \in {"booted", "running"} =>
                 stage \in {"booted", "running"} /\ UNCHANGED <<env, settings>>
  <2>1. stage' \in {"booted", "running"} /\ env'.keys =>
           stage \in {"booted", "running"} /\ env.keys /\ Name' = Name
    BY <1>2 DEF Name
  <2>2. Net((1..since) \ Of(Name))' = Net((1..since') \ { i \in DOMAIN fills : fills[i].of = Name' })
    BY <1>2 DEF Net, Sides, Of
  <2> QED BY <1>2, <2>1, <2>2 DEF Alone, Of
<1>3. CASE Exit /\ UNCHANGED fills
  BY <1>1, <1>3, ExitIsOff DEF Alone
<1>4. CASE UNCHANGED <<process, fills>>
  BY <1>2, <1>4 DEF process
<1>5. ASSUME NEW e \in Env, Start(e) PROVE Alone'
  <2>1. UNCHANGED process \/ (stage' = "brokered" /\ UNCHANGED since)
    BY <1>5 DEF Start
  <2> QED BY <1>2, <1>4, <1>5, <2>1 DEF Start, outside, process
<1>6. CASE Boot
  <2>1. UNCHANGED fills
    BY <1>6 DEF Boot, outside
  <2>2. CASE Exit
    BY <1>3, <2>1, <2>2
  <2>3. CASE ~Exit
    <3>1. /\ ~Mismatch /\ Agrees /\ stage = "brokered" /\ stage' = "booted"
          /\ since' = Len(fills) /\ UNCHANGED <<env, settings>>
      BY <1>6, <2>3 DEF Boot
    <3>2. env.keys => Net(DOMAIN fills \ Of(Name)) = 0
      BY <3>1, AgreedIsAlone
    <3>3. Name' = Name
      BY <3>1 DEF Name
    <3>4. Net((1..since) \ Of(Name))' = Net(DOMAIN fills \ Of(Name))
      BY <1>1, <2>1, <3>1, <3>3 DEF Net, Sides, Of
    <3> QED BY <1>1, <2>1, <3>1, <3>2, <3>4 DEF Alone
  <2> QED BY <2>2, <2>3
<1>7. CASE Run
  BY <1>2, <1>3, <1>7 DEF Run, outside
<1>8. CASE Kill
  BY <1>3, <1>8 DEF Kill, outside
<1>9. ASSUME NEW f, fills' = Append(fills, f), UNCHANGED process
      PROVE  Alone'
  <2>1. /\ Len(fills') = Len(fills) + 1 /\ DOMAIN fills' = 1..(Len(fills) + 1)
        /\ \A i \in 1..Len(fills) : fills'[i] = fills[i]
    BY <1>1, <1>9, Added, ListFacts DEF Charged
  <2>2. Name' = Name /\ since' = since /\ stage' = stage /\ env' = env
    BY <1>9 DEF process, Name
  <2>3. 1..since \subseteq DOMAIN fills /\ 1..since \subseteq DOMAIN fills'
    BY <1>1, <2>1 DEF Alone
  <2>4. \A side : Sides((1..since) \ Of(Name), side)' = Sides((1..since) \ Of(Name), side)
    BY <1>1, <2>1, <2>2, <2>3 DEF Sides, Of
  <2>5. Net((1..since) \ Of(Name))' = Net((1..since) \ Of(Name))
    BY <2>4 DEF Net
  <2> QED BY <1>1, <2>1, <2>2, <2>5 DEF Alone
<1>10. ASSUME NEW e, FillBuy(e) \/ FillSell(e) PROVE Alone'
  BY <1>9, <1>10 DEF FillBuy, FillSell
<1> QED
  BY <1>4, <1>5, <1>6, <1>7, <1>8, <1>10
  DEF Next, vars, NewDay, DeployRisk, DeployRate, EndRate, Submit, outside

-----------------------------------------------------------------------------
LEMMA LaunchInitially == Init => LaunchInv
<1> SUFFICES ASSUME Init PROVE LaunchInv
  OBVIOUS
<1>1. Filed
  BY LaunchAssumption, FeesOfFiles DEF Init, Filed, Scheduled
<1>2. \A k \in Kinds : inForce[k] = RowOn(files.fees[k], 1)
  <2> TAKE k \in Kinds
  <2> DEFINE schedule == StartFiles.fees[k]
             now == { r \in schedule : r.from = 1 }
  <2>1. files = StartFiles /\ Scheduled(schedule)
    BY <1>1 DEF Filed, Init
  <2>2. inForce[k] = IF now = {} THEN NoRow ELSE CHOOSE r \in now : TRUE
    BY DEF Init
  <2>3. \A r \in schedule : r \in Row /\ r.from \in Nat /\ r.from >= 1 /\ r.to \in Nat
                            /\ (r.to = OpenEnded \/ r.from <= r.to)
    BY <2>1, RowFields DEF Scheduled
  <2> HIDE DEF schedule
  <2>4. CASE now = {}
    <3>1. \A r \in schedule : ~(r.from <= 1)
      BY <2>3, <2>4
    <3>2. RowOn(schedule, 1) = NoRow
      BY <3>1 DEF RowOn
    <3> QED BY <2>1, <2>2, <2>4, <3>2 DEF schedule
  <2>5. CASE now # {}
    <3>1. PICK r \in schedule : r.from = 1 /\ inForce[k] = r
      BY <2>2, <2>5
    <3>2. Latest(schedule, 1, r) /\ Standing(r, 1) = r
      BY <2>3, <3>1 DEF Latest, Standing
    <3>3. RowOn(schedule, 1) = r
      BY <2>1, <3>2, RowOnLatest
    <3> QED BY <2>1, <3>1, <3>3 DEF schedule
  <2> QED BY <2>4, <2>5
<1>3. Rated
  <2> DEFINE rates == [k \in Kinds |-> inForce[k].rate]
  <2>1. rates \in [Kinds -> Nat]
    BY <1>1, <1>2, RowOnType DEF Filed
  <2>2. due = <<rates>> /\ day = 1 /\ DOMAIN inForce = Kinds
    BY DEF Init
  <2>3. \A k \in Kinds : rates[k] = RowOn(files.fees[k], 1).rate
    BY <1>2
  <2> HIDE DEF rates
  <2> QED BY <1>2, <2>1, <2>2, <2>3 DEF Rated
<1>4. Configured
  BY DEF Init, Configured, NoEnv, Env
<1>5. Registered
  BY DEF Init, Registered
<1>6. <<>> \in Seq({}) /\ Len(<<>>) = 0 /\ DOMAIN <<>> = {}
  OBVIOUS
<1>7. List(<<>>)
  BY <1>6, ListOf
<1>8. Charged
  BY <1>6, <1>7 DEF Init, Charged, FeesAreThoseOfTheDay
<1>9. Alone
  BY <1>6 DEF Init, Alone
<1> QED BY <1>1, <1>3, <1>4, <1>5, <1>8, <1>9 DEF LaunchInv

LEMMA LaunchInvariant == Spec => []LaunchInv
<1>1. LaunchInv /\ [Next]_vars => LaunchInv'
  BY FiledStep, RatedStep, ConfiguredStep, RegisteredStep, ChargedStep, AloneStep DEF LaunchInv
<1> QED BY <1>1, LaunchInitially, PTL DEF Spec

-----------------------------------------------------------------------------
\* ADR-0012, for any schedules and whatever is amended or ended in between: a fill is
\* charged what was in force on its own day, on whatever day it is booked.
\* (FeeSchedules.row_on, for_sell, reconcile)
THEOREM LaunchFeesAreThoseOfTheDay == Spec => []FeesAreThoseOfTheDay
<1>1. LaunchInv => FeesAreThoseOfTheDay
  BY DEF LaunchInv, Charged
<1> QED BY <1>1, LaunchInvariant, PTL

\* ADR-0020, for any files and environments, over any number of restarts: what runs
\* runs in the recorded mode of its experiment, which is never LIVE, and through that
\* mode's broker. (load_settings, make_broker, boot)
THEOREM LaunchRunsWhatItRecorded == Spec => []RunsWhatItRecorded
<1>1. LaunchInv => RunsWhatItRecorded
  BY DEF LaunchInv, Configured, Registered, BrokerOf, Entry, RunsWhatItRecorded
<1> QED BY <1>1, LaunchInvariant, PTL

\* Section 8.6, over any number of experiments and fills: no worker runs over shares
\* that another experiment left at the broker. (boot, reconcile, cmd_run)
THEOREM LaunchRunsOverItsOwnShares == Spec => []RunsOverItsOwnShares
<1>1. LaunchInv => RunsOverItsOwnShares
  BY DEF LaunchInv, Configured, Alone, RunsOverItsOwnShares
<1> QED BY <1>1, LaunchInvariant, PTL

-----------------------------------------------------------------------------
(***************************************************************************)
(* The boot that Launch takes in one step, taken apart: type correctness,  *)
(* the chain of the phases, what a running worker may rely on and what a   *)
(* halt leaves behind, for any deployments, any number of boots and any    *)
(* point of failure.                                                       *)
(***************************************************************************)
\* The savepoint's phases are a chain too: a halt goes back to them.
BootInv == TypeOK /\ Chain(view.phases) /\ Chain(point.phases)

LEMMA BootInitially == BootInit => BootInv
<1>. SUFFICES ASSUME BootInit PROVE BootInv
  OBVIOUS
<1>1. Empty \in Tables
  BY DEF Empty, Tables
<1>2. Chain(Empty.phases)
  BY DEF Empty, Chain
<1>. QED
  BY <1>1, <1>2, BootAssumption DEF BootInit, BootInv, TypeOK, Ended

\* The facts about the build in use that the steps need.
LEMMA BuildFields ==
    ASSUME build \in Builds
    PROVE  /\ build.mode \in {"PAPER", "DRY_RUN"}
           /\ build.version \in STRING /\ build.content \in STRING /\ build.code \in STRING
           /\ build.change \in Change
BY BootAssumption DEF Build

LEMMA AppendFacts ==
    ASSUME NEW S, NEW s \in Seq(S), NEW e \in S
    PROVE  /\ Append(s, e) \in Seq(S)
           /\ Len(Append(s, e)) = Len(s) + 1
           /\ DOMAIN Append(s, e) = 1..(Len(s) + 1)
           /\ \A i \in 1..Len(s) : Append(s, e)[i] = s[i]
           /\ Append(s, e)[Len(s) + 1] = e
<1>1. DOMAIN s = 1..Len(s) /\ Len(s) \in Nat
  OBVIOUS
<1>. QED
  BY <1>1

\* Closing the last phase leaves a list of phases.
LEMMA LastClosed ==
    ASSUME NEW ps \in Seq(Phase), ps # <<>>
    PROVE  [ps EXCEPT ![Len(ps)].open = FALSE] \in Seq(Phase)
<1>1. Len(ps) \in DOMAIN ps /\ ps[Len(ps)] \in Phase
  OBVIOUS
<1>2. [ps[Len(ps)] EXCEPT !.open = FALSE] \in Phase
  BY <1>1 DEF Phase
<1>. QED
  BY <1>1, <1>2

\* Appending a justified phase to a chain and closing the last one is a chain.
LEMMA ChainGrows ==
    ASSUME NEW ps \in Seq(Phase), Chain(ps), ps # <<>>, NEW p \in Phase,
           Drifted(ps[Len(ps)], p),
           p.seq = ps[Len(ps)].seq + 1, p.open,
           p.change.sequence = ps[Len(ps)].seq + 1, p.change.valid,
           p.version # ps[Len(ps)].version => p.change.declares = p.version
    PROVE  LET qs == Append([ps EXCEPT ![Len(ps)].open = FALSE], p)
           IN  qs \in Seq(Phase) /\ Chain(qs)
<1>. DEFINE n == Len(ps)
            old == [ps EXCEPT ![n].open = FALSE]
            qs == Append(old, p)
<1>1. n \in Nat \ {0} /\ ps[n] \in Phase /\ n \in DOMAIN ps /\ DOMAIN ps = 1..n
  OBVIOUS
<1>2. [ps[n] EXCEPT !.open = FALSE] \in Phase
  BY <1>1 DEF Phase
<1>3. old \in Seq(Phase) /\ Len(old) = n
  BY <1>1, <1>2
<1>4. ASSUME NEW i \in 1..n
      PROVE  /\ old[i].seq = ps[i].seq /\ old[i].version = ps[i].version
             /\ old[i].code = ps[i].code /\ old[i].change = ps[i].change
             /\ old[i].open = (IF i = n THEN FALSE ELSE ps[i].open)
  <2>1. ps[i] \in Phase
    BY <1>1, <1>4
  <2>. QED
    BY <1>1, <2>1 DEF Phase
<1>. HIDE DEF old
<1>5. qs \in Seq(Phase) /\ Len(qs) = n + 1 /\ DOMAIN qs = 1..(n + 1)
  BY <1>3, AppendFacts
<1>6. \A i \in 1..n : qs[i] = old[i]
  BY <1>3, AppendFacts
<1>7. qs[n + 1] = p
  BY <1>3, AppendFacts
<1>. HIDE DEF qs
<1>8. ps[n].seq = n
  BY <1>1 DEF Chain
<1>9. ASSUME NEW i \in 1..(n + 1)
      PROVE  /\ qs[i].seq = i
             /\ qs[i].open <=> i = n + 1
             /\ i > 1 =>
                 /\ Drifted(qs[i - 1], qs[i])
                 /\ qs[i].change.sequence = i /\ qs[i].change.valid
                 /\ qs[i].version # qs[i - 1].version =>
                       qs[i].change.declares = qs[i].version
  <2>1. CASE i = n + 1
    <3>1. qs[i] = p /\ qs[i - 1] = old[n]
      <4>1. n \in 1..n /\ i - 1 = n
        BY <1>1, <2>1
      <4>. QED
        BY <1>6, <1>7, <2>1, <4>1
    <3>2. old[n].version = ps[n].version /\ old[n].code = ps[n].code
      BY <1>1, <1>4
    <3>. QED
      BY <1>8, <2>1, <3>1, <3>2 DEF Drifted
  <2>2. CASE i \in 1..n
    <3>. i \in Nat /\ n \in Nat /\ i <= n /\ i \in DOMAIN ps
      BY <1>1, <2>2
    <3>a. qs[i] = old[i] /\ ~(i = n + 1)
      BY <1>6, <2>2
    <3>b. ps[i].seq = i /\ (ps[i].open <=> i = n)
      BY DEF Chain
    <3>1. qs[i] = old[i] /\ qs[i].seq = i /\ ~(i = n + 1)
      BY <1>4, <2>2, <3>a, <3>b
    <3>2. ~qs[i].open
      <4>1. qs[i].open = (IF i = n THEN FALSE ELSE ps[i].open)
        BY <1>4, <2>2, <3>a
      <4>. QED
        BY <3>b, <4>1
    <3>3. CASE i > 1
      <4>1. i - 1 \in 1..n /\ qs[i - 1] = old[i - 1]
        BY <1>1, <1>6, <2>2, <3>3
      <4>2. /\ old[i - 1].version = ps[i - 1].version /\ old[i - 1].code = ps[i - 1].code
            /\ old[i].version = ps[i].version /\ old[i].code = ps[i].code
            /\ old[i].change = ps[i].change
        BY <1>4, <2>2, <4>1
      <4>3. /\ Drifted(ps[i - 1], ps[i])
            /\ ps[i].change.sequence = i /\ ps[i].change.valid
            /\ ps[i].version # ps[i - 1].version => ps[i].change.declares = ps[i].version
        BY <1>1, <2>2, <3>3 DEF Chain
      <4>. QED
        BY <3>1, <3>2, <4>1, <4>2, <4>3 DEF Drifted
    <3>. QED
      BY <2>2, <3>1, <3>2, <3>3
  <2>. QED
    BY <1>1, <2>1, <2>2
<1>10. Chain(qs)
  BY <1>5, <1>9 DEF Chain
<1>. QED
  BY <1>5, <1>10 DEF qs, old

\* A halt goes back to the savepoint and adds to the halts.
LEMMA HaltKeepsInv ==
    ASSUME BootInv, NEW code \in HaltCodes, Halt(code)
    PROVE  view' \in Tables /\ Chain(view'.phases) /\ pc' = "halted"
<1>1. point \in Tables
  BY DEF BootInv, TypeOK
<1>2. point.reconciliations \in Seq({"agree", "halt"}) /\ point.halts \in Seq(HaltCodes)
  BY <1>1 DEF Tables
<1>. DEFINE h == Append(point.halts, code)
            r == IF code = "RECONCILE_HALT" THEN Append(point.reconciliations, "halt")
                 ELSE point.reconciliations
<1>a. h \in Seq(HaltCodes) /\ r \in Seq({"agree", "halt"})
  BY <1>2
<1>b. view' = [point EXCEPT !.halts = h, !.reconciliations = r]
  BY DEF Halt
<1>. HIDE DEF h, r
<1>3. view' \in Tables
  BY <1>1, <1>a, <1>b DEF Tables
<1>4. view'.phases = point.phases
  BY <1>1 DEF Halt, Tables
<1>. QED
  BY <1>3, <1>4 DEF BootInv, Halt

\* A step that leaves the phases of view and point as they were, or takes them
\* from one another, keeps the chains.
LEMMA StepKeepsInv == BootInv /\ [BootNext]_bootVars => BootInv'
<1>. SUFFICES ASSUME BootInv, [BootNext]_bootVars PROVE BootInv'
  OBVIOUS
<1>. USE DEF BootInv
<1>0. view \in Tables /\ point \in Tables /\ saved = Empty /\ build \in Builds
      /\ Chain(view.phases) /\ Chain(point.phases)
  BY DEF TypeOK
<1>1. ASSUME NEW b \in Builds, StartBoot(b) PROVE BootInv'
  BY <1>1 DEF StartBoot, TypeOK, Ended
<1>2. CASE RunExposureChecks
  BY <1>2 DEF RunExposureChecks, TypeOK, Ended
<1>3. CASE EnsureExperiment
  <2>1. view' \in Tables /\ view'.phases = view.phases
    BY <1>0, <1>3, BuildFields DEF EnsureExperiment, Tables
  <2>. QED
    BY <1>3, <2>1 DEF EnsureExperiment, TypeOK, Ended
<1>4. CASE RegisterAll
  <2>0. UNCHANGED <<saved, point, account, build, boots>>
    BY <1>4 DEF RegisterAll
  <2>1. CASE Halt("MODE_MISMATCH")
    <3>1. view' \in Tables /\ Chain(view'.phases) /\ pc' = "halted"
      BY <2>1, HaltKeepsInv DEF HaltCodes
    <3>. QED
      BY <2>0, <3>1 DEF TypeOK, Ended
  <2>2. CASE Raise
    BY <2>0, <2>2 DEF Raise, TypeOK, Ended
  <2>3. CASE /\ view' = [view EXCEPT !.registry = @ \cup {<<build.version, build.content>>}]
             /\ pc' = "phase"
    <3>1. view.registry \cup {<<build.version, build.content>>} \in SUBSET (STRING \X STRING)
      BY <1>0, BuildFields DEF Tables
    <3>2. view' \in Tables /\ view'.phases = view.phases
      BY <1>0, <2>3, <3>1 DEF Tables
    <3>. QED
      BY <2>0, <2>3, <3>2 DEF TypeOK, Ended
  <2>. QED
    BY <1>4, <2>1, <2>2, <2>3 DEF RegisterAll
<1>5. CASE EnsurePhase
  <2>0. UNCHANGED <<saved, point, account, build, boots>>
    BY <1>5 DEF EnsurePhase
  <2>1. CASE view.phases = <<>> /\ pc' = "portfolios"
             /\ view' = [view EXCEPT !.phases = <<NewPhase(1)>>]
    <3>1. NewPhase(1) \in Phase
      BY <1>0, BuildFields DEF NewPhase, Phase
    <3>2. <<NewPhase(1)>> \in Seq(Phase)
      BY <3>1
    <3>3. view' \in Tables /\ view'.phases = <<NewPhase(1)>>
      BY <1>0, <2>1, <3>2 DEF Tables
    <3>4. Chain(<<NewPhase(1)>>)
      BY DEF Chain, NewPhase
    <3>. QED
      BY <2>0, <2>1, <3>3, <3>4 DEF TypeOK, Ended
  <2>2. CASE pc' = "portfolios" /\ UNCHANGED view
    BY <2>0, <2>2 DEF TypeOK, Ended
  <2>3. CASE /\ view.phases # <<>> /\ Drifted(OpenPhase, build) /\ Justified(OpenPhase, build)
             /\ view' = [view EXCEPT !.phases =
                    Append([@ EXCEPT ![Len(@)].open = FALSE], NewPhase(OpenPhase.seq + 1))]
             /\ pc' = "portfolios"
    <3>. DEFINE ps == view.phases
                p == NewPhase(OpenPhase.seq + 1)
                qs == Append([ps EXCEPT ![Len(ps)].open = FALSE], p)
    <3>1. ps \in Seq(Phase) /\ ps # <<>>
      BY <1>0, <2>3 DEF Tables
    <3>2. OpenPhase \in Phase /\ OpenPhase = ps[Len(ps)]
      BY <3>1 DEF OpenPhase
    <3>3. p \in Phase
      BY <1>0, <3>2, BuildFields DEF NewPhase, Phase
    <3>4. /\ p.version = build.version /\ p.code = build.code /\ p.change = build.change
          /\ p.seq = OpenPhase.seq + 1 /\ p.open
      BY DEF NewPhase
    <3>5. /\ Drifted(OpenPhase, p)
          /\ p.change.sequence = OpenPhase.seq + 1 /\ p.change.valid
          /\ p.version # OpenPhase.version => p.change.declares = p.version
      BY <2>3, <3>4 DEF Drifted, Justified
    <3>. HIDE DEF p
    <3>6. qs \in Seq(Phase) /\ Chain(qs)
      BY <1>0, <3>1, <3>2, <3>3, <3>4, <3>5, ChainGrows
    <3>7. view' = [view EXCEPT !.phases = qs]
      BY <2>3 DEF p
    <3>. HIDE DEF qs
    <3>8. view' \in Tables /\ view'.phases = qs
      BY <1>0, <3>6, <3>7 DEF Tables
    <3>. QED
      BY <2>0, <2>3, <3>6, <3>8 DEF TypeOK, Ended
  <2>4. CASE Halt("PHASE_REASON_MISSING")
    <3>1. view' \in Tables /\ Chain(view'.phases) /\ pc' = "halted"
      BY <2>4, HaltKeepsInv DEF HaltCodes
    <3>. QED
      BY <2>0, <3>1 DEF TypeOK, Ended
  <2>. QED
    BY <1>5, <2>1, <2>2, <2>3, <2>4 DEF EnsurePhase
<1>6. CASE EnsurePortfolios
  <2>1. view' \in Tables /\ view'.phases = view.phases
    BY <1>0, <1>6 DEF EnsurePortfolios, Tables
  <2>. QED
    BY <1>6, <2>1 DEF EnsurePortfolios, TypeOK, Ended
<1>7. CASE EnforcePolicy
  <2>0. UNCHANGED <<saved, point, build, boots>> /\ account' \in BOOLEAN
    BY <1>7 DEF EnforcePolicy, TypeOK
  <2>1. ASSUME NEW word \in {"match", "applied"},
               view' = [view EXCEPT !.checks = Append(@, word)], pc' = "reconcile"
        PROVE  BootInv'
    <3>1. Append(view.checks, word) \in Seq({"match", "applied"})
      BY <1>0, <2>1 DEF Tables
    <3>2. view' \in Tables /\ view'.phases = view.phases
      BY <1>0, <2>1, <3>1 DEF Tables
    <3>. QED
      BY <2>0, <2>1, <3>2 DEF TypeOK, Ended
  <2>2. CASE Halt("BROKER_POLICY_HALT")
    <3>1. view' \in Tables /\ Chain(view'.phases) /\ pc' = "halted"
      BY <2>2, HaltKeepsInv DEF HaltCodes
    <3>. QED
      BY <2>0, <3>1 DEF TypeOK, Ended
  <2>. QED
    BY <1>7, <2>1, <2>2 DEF EnforcePolicy
<1>8. CASE ReconcileBroker
  <2>0. UNCHANGED <<saved, point, account, build, boots>>
    BY <1>8 DEF ReconcileBroker
  <2>1. CASE /\ view' = [view EXCEPT !.reconciliations = Append(@, "agree")]
             /\ pc' = "up"
    <3>1. Append(view.reconciliations, "agree") \in Seq({"agree", "halt"})
      BY <1>0 DEF Tables
    <3>2. view' \in Tables /\ view'.phases = view.phases
      BY <1>0, <2>1, <3>1 DEF Tables
    <3>. QED
      BY <2>0, <2>1, <3>2 DEF TypeOK, Ended
  <2>2. CASE Halt("RECONCILE_HALT")
    <3>1. view' \in Tables /\ Chain(view'.phases) /\ pc' = "halted"
      BY <2>2, HaltKeepsInv DEF HaltCodes
    <3>. QED
      BY <2>0, <3>1 DEF TypeOK, Ended
  <2>3. CASE Raise
    BY <2>0, <2>3 DEF Raise, TypeOK, Ended
  <2>. QED
    BY <1>8, <2>1, <2>2, <2>3 DEF ReconcileBroker
<1>9. CASE EditAccount
  BY <1>9 DEF EditAccount, TypeOK
<1>10. CASE LoseConnection
  <2>1. Empty \in Tables /\ Chain(Empty.phases)
    BY DEF Empty, Tables, Chain
  <2>. QED
    BY <1>0, <1>10, <2>1 DEF LoseConnection, TypeOK, Ended
<1>11. CASE UNCHANGED bootVars
  BY <1>11 DEF bootVars, TypeOK
<1>. QED
  BY <1>1, <1>2, <1>3, <1>4, <1>5, <1>6, <1>7, <1>8, <1>9, <1>10, <1>11 DEF BootNext, BootStep

THEOREM BootInvariant == BootSpec => []BootInv
<1>. QED
  BY BootInitially, StepKeepsInv, PTL DEF BootSpec

\* Type correctness: in particular no policy check that failed is ever in the
\* tables, because the halt it raises rolls it back.
THEOREM BootTypeCorrect == BootSpec => []TypeOK
<1>1. BootInv => TypeOK
  BY DEF BootInv
<1>. QED
  BY <1>1, BootInvariant, PTL

\* ADR-0019, for any deployments in any order: every phase of the experiment is
\* justified by a record of its own (ensure_phase).
THEOREM BootPhasesJustified == BootSpec => []PhasesAreJustified
<1>1. BootInv => PhasesAreJustified
  BY DEF BootInv, PhasesAreJustified
<1>. QED
  BY <1>1, BootInvariant, PTL

-----------------------------------------------------------------------------
\* How far the boot has come.
Versioned == {"phase", "portfolios", "policy", "reconcile", "up"}
Phased == Versioned \ {"phase"}
Funded == Phased \ {"portfolios"}
Checked == Funded \ {"policy"}

\* What each step of the boot has established is still so when the worker runs:
\* the later steps, and the owner of the account, leave it alone until then.
Progress ==
    /\ pc \in Versioned =>
          /\ view.mode = build.mode
          /\ <<build.version, build.content>> \in view.registry
          /\ ~Reused(build)
    /\ pc \in Phased => view.phases # <<>> /\ ~Drifted(OpenPhase, build)
    /\ pc \in Funded => view.opening = Portfolios
    /\ pc \in Checked /\ build.mode = "PAPER" => account /\ view.checks # <<>>

LEMMA NotRegistered ==
    ASSUME pc \notin Versioned
    PROVE  Progress
BY DEF Progress, Versioned, Phased, Funded, Checked

LEMMA ProgressInitially == BootInit => Progress
BY DEF BootInit, Progress, Versioned, Phased, Funded, Checked

LEMMA ProgressStep == BootInv /\ Progress /\ [BootNext]_bootVars => Progress'
<1>. SUFFICES ASSUME BootInv, Progress, [BootNext]_bootVars PROVE Progress'
  OBVIOUS
<1>. USE DEF Versioned, Phased, Funded, Checked
<1>0. view \in Tables /\ point \in Tables /\ build \in Builds
  BY DEF BootInv, TypeOK
<1>1. ASSUME pc' \notin Versioned PROVE Progress'
  BY <1>1 DEF Progress
<1>2. ASSUME NEW b \in Builds, StartBoot(b) PROVE Progress'
  BY <1>1, <1>2 DEF StartBoot
<1>3. CASE RunExposureChecks \/ EnsureExperiment \/ LoseConnection
  BY <1>1, <1>3 DEF RunExposureChecks, EnsureExperiment, LoseConnection
<1>4. CASE RegisterAll
  <2>1. CASE pc' # "phase"
    BY <1>1, <1>4, <2>1 DEF RegisterAll, Halt, Raise
  <2>2. CASE pc' = "phase"
    <3>1. /\ view' = [view EXCEPT !.registry = @ \cup {<<build.version, build.content>>}]
          /\ view.mode = build.mode /\ ~Reused(build) /\ build' = build
      BY <1>4, <2>2 DEF RegisterAll, Halt, Raise
    <3>2. /\ view'.mode = view.mode
          /\ view'.registry = view.registry \cup {<<build.version, build.content>>}
      BY <1>0, <3>1 DEF Tables
    <3>3. ~Reused(build)'
      BY <3>1, <3>2 DEF Reused
    <3>. QED
      BY <2>2, <3>1, <3>2, <3>3 DEF Progress
  <2>. QED
    BY <2>1, <2>2
<1>5. CASE EnsurePhase
  <2>1. CASE pc' # "portfolios"
    BY <1>1, <1>5, <2>1 DEF EnsurePhase, Halt
  <2>2. CASE pc' = "portfolios"
    <3>. pc = "phase" /\ build' = build
      BY <1>5 DEF EnsurePhase
    <3>1. /\ view'.mode = view.mode /\ view'.registry = view.registry
          /\ view'.phases # <<>> /\ ~Drifted(OpenPhase, build)'
      <4>1. CASE UNCHANGED view /\ view.phases # <<>> /\ ~Drifted(OpenPhase, build)
        BY <4>1 DEF OpenPhase, Drifted
      <4>2. CASE view' = [view EXCEPT !.phases = <<NewPhase(1)>>]
        <5>1. view'.phases = <<NewPhase(1)>>
          BY <1>0, <4>2 DEF Tables
        <5>. QED
          BY <1>0, <4>2, <5>1 DEF Tables, OpenPhase, Drifted, NewPhase
      <4>3. ASSUME view.phases # <<>>,
                   view' = [view EXCEPT !.phases =
                        Append([@ EXCEPT ![Len(@)].open = FALSE], NewPhase(OpenPhase.seq + 1))]
            PROVE  /\ view'.mode = view.mode /\ view'.registry = view.registry
                   /\ view'.phases # <<>> /\ ~Drifted(OpenPhase, build)'
        <5>. DEFINE ps == view.phases
                    old == [ps EXCEPT ![Len(ps)].open = FALSE]
                    p == NewPhase(OpenPhase.seq + 1)
        <5>1. view'.phases = Append(old, p) /\ view'.mode = view.mode
              /\ view'.registry = view.registry
          BY <1>0, <4>3 DEF Tables
        <5>2. ps \in Seq(Phase) /\ ps[Len(ps)] \in Phase /\ OpenPhase = ps[Len(ps)]
          BY <1>0, <4>3 DEF Tables, OpenPhase
        <5>4. old \in Seq(Phase)
          BY <4>3, <5>2, LastClosed
        <5>5. p \in Phase
          BY <1>0, <5>2, BuildFields DEF NewPhase, Phase
        <5>. HIDE DEF old, p
        <5>6. Append(old, p)[Len(Append(old, p))] = p /\ Append(old, p) # <<>>
          BY <5>4, <5>5, AppendFacts
        <5>7. p.version = build.version /\ p.code = build.code
          BY DEF p, NewPhase
        <5>. QED
          BY <5>1, <5>6, <5>7 DEF OpenPhase, Drifted
      <4>. QED
        BY <1>5, <2>2, <4>1, <4>2, <4>3 DEF EnsurePhase, Halt
    <3>2. ~Reused(build)'
      BY <3>1 DEF Progress, Reused
    <3>. QED
      BY <2>2, <3>1, <3>2 DEF Progress
  <2>. QED
    BY <2>1, <2>2
<1>6. CASE EnsurePortfolios
  <2>1. /\ view'.mode = view.mode /\ view'.registry = view.registry
        /\ view'.phases = view.phases /\ view'.opening = Portfolios
        /\ build' = build /\ pc = "portfolios" /\ pc' \in {"policy", "reconcile"}
        /\ build.mode = "PAPER" => pc' = "policy"
    BY <1>0, <1>6 DEF EnsurePortfolios, Tables
  <2>2. ~Reused(build)' /\ ~Drifted(OpenPhase, build)'
    BY <2>1 DEF Progress, Reused, Drifted, OpenPhase
  <2>. QED
    BY <2>1, <2>2 DEF Progress
<1>7. CASE EnforcePolicy
  <2>1. CASE pc' # "reconcile"
    BY <1>1, <1>7, <2>1 DEF EnforcePolicy, Halt
  <2>2. CASE pc' = "reconcile"
    <3>1. PICK word \in {"match", "applied"} :
              view' = [view EXCEPT !.checks = Append(@, word)]
      BY <1>7, <2>2 DEF EnforcePolicy, Halt
    <3>2. /\ view'.mode = view.mode /\ view'.registry = view.registry
          /\ view'.phases = view.phases /\ view'.opening = view.opening
          /\ view'.checks = Append(view.checks, word)
      BY <1>0, <3>1 DEF Tables
    <3>3. account' /\ build' = build /\ pc = "policy"
      BY <1>7, <2>2 DEF EnforcePolicy, Halt
    <3>4. view'.checks # <<>>
      <4>1. view.checks \in Seq({"match", "applied"})
        BY <1>0 DEF Tables
      <4>. QED
        BY <3>2, <4>1, AppendFacts
    <3>5. ~Reused(build)' /\ ~Drifted(OpenPhase, build)'
      BY <3>2, <3>3 DEF Progress, Reused, Drifted, OpenPhase
    <3>. QED
      BY <2>2, <3>2, <3>3, <3>4, <3>5 DEF Progress
  <2>. QED
    BY <2>1, <2>2
<1>8. CASE ReconcileBroker
  <2>1. CASE pc' # "up"
    BY <1>1, <1>8, <2>1 DEF ReconcileBroker, Halt, Raise
  <2>2. CASE pc' = "up"
    <3>1. /\ view'.mode = view.mode /\ view'.registry = view.registry
          /\ view'.phases = view.phases /\ view'.opening = view.opening
          /\ view'.checks = view.checks
          /\ build' = build /\ account' = account /\ pc = "reconcile"
      BY <1>0, <1>8, <2>2 DEF ReconcileBroker, Halt, Raise, Tables
    <3>2. ~Reused(build)' /\ ~Drifted(OpenPhase, build)'
      BY <3>1 DEF Progress, Reused, Drifted, OpenPhase
    <3>. QED
      BY <2>2, <3>1, <3>2 DEF Progress
  <2>. QED
    BY <2>1, <2>2
<1>9. CASE EditAccount
  BY <1>1, <1>9 DEF EditAccount, Ended
<1>10. CASE UNCHANGED bootVars
  BY <1>10 DEF bootVars, Progress, Reused, OpenPhase, Drifted
<1>. QED
  BY <1>2, <1>3, <1>4, <1>5, <1>6, <1>7, <1>8, <1>9, <1>10 DEF BootNext, BootStep

LEMMA ProgressInvariant == BootSpec => []Progress
<1>. QED
  BY ProgressInitially, ProgressStep, BootInvariant, PTL DEF BootSpec

\* SPEC 13.2 for any deployments, in any order and with any failures on the way:
\* a worker that runs is what the database says it is (boot, as a whole).
THEOREM BootUpMeansInForce == BootSpec => []UpMeansInForce
<1>1. BootInv /\ Progress => UpMeansInForce
  <2>. SUFFICES ASSUME BootInv, Progress, pc = "up" PROVE UpMeansInForce
    BY DEF UpMeansInForce
  <2>1. pc \in Versioned /\ pc \in Phased /\ pc \in Funded /\ pc \in Checked
    BY DEF Versioned, Phased, Funded, Checked
  <2>2. \A v \in view.registry : v[1] = build.version => v[2] = build.content
    BY <2>1 DEF Progress, Reused
  <2>3. ASSUME build.mode = "PAPER"
        PROVE  account /\ Last(view.checks) \in {"match", "applied"}
    <3>1. account /\ view.checks # <<>> /\ view.checks \in Seq({"match", "applied"})
      BY <2>1, <2>3 DEF Progress, BootInv, TypeOK, Tables
    <3>. QED
      BY <3>1 DEF Last
  <2>. QED
    BY <2>1, <2>2, <2>3 DEF Progress, UpMeansInForce
<1>. QED
  BY <1>1, BootInvariant, ProgressInvariant, PTL

\* Whatever halts the boot after the exposure checks, the halt is the only trace
\* of it, with the halted reconciliation (boot's two except clauses).
THEOREM BootHaltLeavesNoTrace == BootSpec => HaltLeavesNoTrace
<1>. DEFINE NoTrace ==
        /\ \A f \in DOMAIN view \ {"halts", "reconciliations"} : view'[f] = point[f]
        /\ Front(view'.halts) = point.halts
        /\ IsPrefix(point.reconciliations, view'.reconciliations)
<1>1. ASSUME BootInv, NEW code \in HaltCodes, Halt(code) PROVE NoTrace
  <2>1. view \in Tables /\ point \in Tables
    BY <1>1 DEF BootInv, TypeOK
  <2>2. /\ \A f \in DOMAIN view \ {"halts", "reconciliations"} : view'[f] = point[f]
        /\ view'.halts = Append(point.halts, code)
        /\ view'.reconciliations \in {point.reconciliations, Append(point.reconciliations, "halt")}
    BY <1>1, <2>1 DEF Halt, Tables
  <2>3. point.halts \in Seq(HaltCodes) /\ point.reconciliations \in Seq({"agree", "halt"})
    BY <2>1 DEF Tables
  <2>4. Front(view'.halts) = point.halts
    BY <2>2, <2>3 DEF Front
  <2>5. IsPrefix(point.reconciliations, view'.reconciliations)
    <3>. DEFINE S == {"agree", "halt"}
                r == point.reconciliations
    <3>. r \in Seq(S) /\ "halt" \in S
      BY <2>3
    <3>. HIDE DEF S, r
    <3>1. IsPrefix(r, r)
      BY DEF IsPrefix
    <3>2. IsPrefix(r, Append(r, "halt"))
      <4>1. /\ Len(Append(r, "halt")) = Len(r) + 1
            /\ \A i \in 1..Len(r) : Append(r, "halt")[i] = r[i]
        BY AppendFacts
      <4>2. SubSeq(r, 1, Len(r)) = SubSeq(Append(r, "halt"), 1, Len(r))
        BY <4>1
      <4>. QED
        BY <4>1, <4>2 DEF IsPrefix
    <3>. QED
      BY <2>2, <3>1, <3>2 DEF r
  <2>. QED
    BY <2>2, <2>4, <2>5
<1>2. BootInv /\ [BootNext]_bootVars => (pc' = "halted" /\ pc \notin {"halted", "checks"} => NoTrace)
  <2>. SUFFICES ASSUME BootInv, [BootNext]_bootVars, pc' = "halted", pc \notin {"halted", "checks"}
                PROVE  \E code \in HaltCodes : Halt(code)
    BY <1>1
  <2>. QED
    BY DEF BootNext, BootStep, bootVars, StartBoot, RunExposureChecks, EnsureExperiment, RegisterAll,
           EnsurePhase, EnsurePortfolios, EnforcePolicy, ReconcileBroker, EditAccount,
           LoseConnection, Raise, HaltCodes
<1>3. BootInv /\ [BootNext]_bootVars =>
        [pc' = "halted" /\ pc \notin {"halted", "checks"} => NoTrace]_bootVars
  BY <1>2
<1>. QED
  BY <1>3, BootInvariant, PTL DEF BootSpec, HaltLeavesNoTrace
=============================================================================
