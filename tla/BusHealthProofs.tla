--------------------------- MODULE BusHealthProofs ---------------------------
(***************************************************************************)
(* The anomaly log for any number of kinds and threads, any ring and any   *)
(* interval, and the counters GetBusHealth returns.                        *)
(***************************************************************************)
EXTENDS BusHealth, FiniteSetTheorems, SequenceTheorems, TLAPS

USE DEF limits, log, counters, reading, vars, Fields

\* One more entry.
LEMMA AppendFacts ==
  ASSUME NEW S, NEW s \in Seq(S), NEW e \in S
  PROVE  /\ Append(s, e) \in Seq(S)
         /\ Len(s) \in Nat /\ DOMAIN s = 1..Len(s)
         /\ Len(Append(s, e)) = Len(s) + 1
         /\ DOMAIN Append(s, e) = 1..(Len(s) + 1)
         /\ Append(s, e)[Len(s) + 1] = e
         /\ \A n \in DOMAIN s : Append(s, e)[n] = s[n] /\ s[n] \in S
OBVIOUS

\* What Record writes is an entry.
LEMMA EntryType ==
  ASSUME TypeOK, NEW k \in Kinds
  PROVE  [kind |-> k, time |-> now, repeats |-> suppressed[k],
          latest |-> folded[k]] \in Entry
BY DEF TypeOK, Entry

\* A remainder is less than the divisor, and unlike for all but one wrap.
LEMMA ModRange ==
  ASSUME NEW n \in Nat, NEW d \in Nat \ {0} PROVE n % d \in 0..(d - 1)
OBVIOUS

LEMMA ModWrap ==
  ASSUME NEW d \in Nat \ {0}, NEW n \in 0..(2 * d - 1)
  PROVE  n % d = IF n < d THEN n ELSE n - d
OBVIOUS

----------------------------------------------------------------------------
(* Types.                                                                  *)

LEMMA TypeInit == Init => TypeOK
<1> SUFFICES ASSUME Init PROVE TypeOK
  OBVIOUS
<1>1. /\ Size \in Nat \ {0} /\ MaxTime \in Nat /\ MaxEvents \in Nat
      /\ 0 \in 0..MaxTime
  BY ReportAssumption, BoundAssumption
<1>2. /\ now \in 0..MaxTime /\ events \in 0..MaxEvents
      /\ head \in 0..(Size - 1) /\ count \in 0..Size
  BY <1>1 DEF Init
<1>3. /\ total \in [Kinds -> Nat] /\ suppressed \in [Kinds -> Nat]
      /\ everRecorded \in [Kinds -> BOOLEAN]
      /\ reporting \in [Threads -> SUBSET Kinds] /\ health \in [Fields -> Nat]
  BY DEF Init
<1>4. lastRecord \in [Kinds -> 0..MaxTime] /\ folded \in [Kinds -> 0..MaxTime]
  BY <1>1 DEF Init
<1>5. ring \in [0..(Size - 1) -> Entry \cup {NoEntry}] /\ written \in Seq(Entry)
  BY DEF Init
<1>6. /\ bus \in {"idle", "clean", "missed", "report", "resync"}
      /\ streak \in Nat /\ chains \in Nat /\ clean \in Nat /\ misses \in Nat
      /\ resyncs \in Nat /\ reader \in {"idle"} \cup Fields
  BY DEF Init
<1> QED BY <1>2, <1>3, <1>4, <1>5, <1>6 DEF TypeOK

LEMMA TypeInductive == TypeOK /\ [Next]_vars => TypeOK'
<1> SUFFICES ASSUME TypeOK, [Next]_vars PROVE TypeOK'
  OBVIOUS
<1>c. ASSUME NEW t \in Threads, NEW k \in Kinds, Count(t, k)
      PROVE  total' \in [Kinds -> Nat] /\ reporting' \in [Threads -> SUBSET Kinds]
  BY <1>c DEF Count, TypeOK
<1>r. ASSUME NEW t \in Threads, reporting' = [reporting EXCEPT ![t] = {}]
      PROVE  reporting' \in [Threads -> SUBSET Kinds]
  BY <1>r DEF TypeOK
<1>e. ASSUME events < MaxEvents, events' = events + 1 PROVE events' \in 0..MaxEvents
  BY <1>e, BoundAssumption DEF TypeOK
<1>1. CASE Tick
  BY <1>1, BoundAssumption DEF Tick, TypeOK
<1>2. ASSUME NEW t \in Threads, NEW k \in Kinds, ReportAnomaly(t, k) PROVE TypeOK'
  BY <1>2, <1>c, <1>e DEF ReportAnomaly, TypeOK
<1>3. ASSUME NEW t \in Threads, NEW k \in Kinds, Suppress(t, k) PROVE TypeOK'
  <2>1. suppressed' \in [Kinds -> Nat] /\ folded' \in [Kinds -> 0..MaxTime]
    BY <1>3 DEF Suppress, TypeOK
  <2>2. reporting' \in [Threads -> SUBSET Kinds]
    BY <1>3, <1>r DEF Suppress
  <2> QED BY <1>3, <2>1, <2>2 DEF Suppress, TypeOK
<1>4. ASSUME NEW t \in Threads, NEW k \in Kinds, Record(t, k) PROVE TypeOK'
  <2> DEFINE entry == [kind |-> k, time |-> now, repeats |-> suppressed[k],
                       latest |-> folded[k]]
  <2>1. entry \in Entry
    BY EntryType
  <2>2. ring' = [ring EXCEPT ![head] = entry] /\ written' = Append(written, entry)
    BY <1>4 DEF Record
  <2> HIDE DEF entry
  <2>3. ring' \in [0..(Size - 1) -> Entry \cup {NoEntry}] /\ written' \in Seq(Entry)
    BY <2>1, <2>2, AppendFacts DEF TypeOK
  <2>4. head' \in 0..(Size - 1) /\ count' \in 0..Size
    <3>1. head \in Nat /\ count \in Nat /\ count <= Size /\ Size \in Nat \ {0}
      BY ReportAssumption DEF TypeOK
    <3>2. head' = (head + 1) % Size
      BY <1>4 DEF Record
    <3>3. count' = IF count < Size THEN count + 1 ELSE count
      BY <1>4 DEF Record
    <3>4. head' \in 0..(Size - 1)
      BY <3>1, <3>2, ModRange
    <3> QED BY <3>1, <3>3, <3>4
  <2>5. /\ suppressed' \in [Kinds -> Nat] /\ lastRecord' \in [Kinds -> 0..MaxTime]
        /\ everRecorded' \in [Kinds -> BOOLEAN]
    BY <1>4 DEF Record, TypeOK
  <2>6. reporting' \in [Threads -> SUBSET Kinds]
    BY <1>4, <1>r DEF Record
  <2>7. UNCHANGED << now, total, folded, bus, counters, events, reading >>
    BY <1>4 DEF Record
  <2> QED BY <2>3, <2>4, <2>5, <2>6, <2>7 DEF TypeOK
<1>5. CASE ChainEnds
  BY <1>5, <1>e DEF ChainEnds, TypeOK
<1>6. CASE ChainClean \/ ChainMissed \/ CountResync
  <2>1. CASE ChainClean
    BY <2>1 DEF ChainClean, TypeOK
  <2>2. CASE ChainMissed
    BY <2>2 DEF ChainMissed, TypeOK
  <2>3. CASE CountResync
    BY <2>3 DEF CountResync, TypeOK
  <2> QED BY <1>6, <2>1, <2>2, <2>3
<1>7. CASE ReportMiss
  BY <1>7, <1>c, ReportAssumption DEF ReportMiss, TypeOK
<1>8. CASE BeginGetBusHealth
  <2>1. reader' = "chains" /\ health' = [f \in Fields |-> 0]
    BY <1>8 DEF BeginGetBusHealth, After
  <2>2. health' \in [Fields -> Nat]
    BY <2>1
  <2> QED BY <1>8, <2>1, <2>2 DEF BeginGetBusHealth, TypeOK
<1>9. CASE ReadCounter
  <2>1. Counter(reader) \in Nat
    BY <1>9 DEF ReadCounter, Counter, TypeOK
  <2>2. health' \in [Fields -> Nat]
    BY <1>9, <2>1 DEF ReadCounter, TypeOK
  <2>3. reader' \in {"idle"} \cup Fields
    BY <1>9 DEF ReadCounter, After
  <2> QED BY <1>9, <2>2, <2>3 DEF ReadCounter, TypeOK
<1>10. CASE UNCHANGED vars
  BY <1>10 DEF TypeOK
<1> QED BY <1>1, <1>2, <1>3, <1>4, <1>5, <1>6, <1>7, <1>8, <1>9, <1>10 DEF Next

\* Every variable keeps its type; no index leaves the ring.
THEOREM TypeCorrect == Spec => []TypeOK
BY TypeInit, TypeInductive, PTL DEF Spec

----------------------------------------------------------------------------
(* The counters.                                                           *)

\* A chain has been counted before it is counted clean or missed.
ChainInv ==
  chains = clean + misses + IF bus \in {"clean", "missed"} THEN 1 ELSE 0

\* The counters GetBusHealth has yet to read can only have grown.
ReadingInv ==
  /\ reader = "clean" => health["chains"] <= clean + misses + 1
  /\ reader = "misses" => health["chains"] <= health["clean"] + misses + 1
  /\ reader \in {"resyncs", "idle"} =>
       health["chains"] <= health["clean"] + health["misses"] + 1

CounterInv == ChainInv /\ ReadingInv

\* Steps that move no counter and read none.
LEMMA CountersStay ==
  ASSUME CounterInv, UNCHANGED << counters, reading >>,
         bus \in {"clean", "missed"} <=> bus' \in {"clean", "missed"}
  PROVE  CounterInv'
BY DEF CounterInv, ChainInv, ReadingInv

LEMMA CountersInductive == TypeOK /\ CounterInv /\ [Next]_vars => CounterInv'
<1> SUFFICES ASSUME TypeOK, CounterInv, [Next]_vars PROVE CounterInv'
  OBVIOUS
<1>0. /\ chains \in Nat /\ clean \in Nat /\ misses \in Nat
      /\ health \in [Fields -> Nat]
  BY DEF TypeOK
<1>1. CASE ChainEnds
  BY <1>0, <1>1 DEF ChainEnds, CounterInv, ChainInv, ReadingInv
<1>2. CASE ChainClean
  <2>1. ChainInv'
    BY <1>0, <1>2 DEF ChainClean, CounterInv, ChainInv
  <2>2. ReadingInv'
    BY <1>0, <1>2 DEF ChainClean, CounterInv, ReadingInv
  <2> QED BY <2>1, <2>2 DEF CounterInv
<1>3. CASE ChainMissed
  <2>1. ChainInv'
    BY <1>0, <1>3 DEF ChainMissed, CounterInv, ChainInv
  <2>2. ReadingInv'
    BY <1>0, <1>3 DEF ChainMissed, CounterInv, ReadingInv
  <2> QED BY <2>1, <2>2 DEF CounterInv
<1>4. CASE CountResync
  BY <1>4 DEF CountResync, CounterInv, ChainInv, ReadingInv
<1>5. CASE BeginGetBusHealth
  BY <1>5 DEF BeginGetBusHealth, After, CounterInv, ChainInv, ReadingInv
<1>6. CASE ReadCounter
  <2>1. ChainInv' /\ UNCHANGED << chains, clean, misses >>
    BY <1>6 DEF ReadCounter, CounterInv, ChainInv
  <2>2. CASE reader = "chains"
    <3>1. reader' = "clean" /\ health' = [health EXCEPT !["chains"] = chains]
      BY <1>6, <2>2 DEF ReadCounter, After, Counter
    <3>2. health'["chains"] = chains
      BY <1>0, <3>1
    <3>3. chains <= clean + misses + 1
      BY <1>0 DEF CounterInv, ChainInv
    <3> QED BY <2>1, <3>1, <3>2, <3>3 DEF CounterInv, ReadingInv
  <2>3. CASE reader = "clean"
    <3>1. reader' = "misses" /\ health' = [health EXCEPT !["clean"] = clean]
      BY <1>6, <2>3 DEF ReadCounter, After, Counter
    <3>2. health'["clean"] = clean /\ health'["chains"] = health["chains"]
      BY <1>0, <3>1
    <3> QED BY <2>1, <2>3, <3>1, <3>2 DEF CounterInv, ReadingInv
  <2>4. CASE reader = "misses"
    <3>1. reader' = "resyncs" /\ health' = [health EXCEPT !["misses"] = misses]
      BY <1>6, <2>4 DEF ReadCounter, After, Counter
    <3>2. /\ health'["misses"] = misses /\ health'["chains"] = health["chains"]
          /\ health'["clean"] = health["clean"]
      BY <1>0, <3>1
    <3> QED BY <2>1, <2>4, <3>1, <3>2 DEF CounterInv, ReadingInv
  <2>5. CASE reader = "resyncs"
    <3>1. reader' = "idle" /\ health' = [health EXCEPT !["resyncs"] = resyncs]
      BY <1>6, <2>5 DEF ReadCounter, After, Counter
    <3>2. /\ health'["misses"] = health["misses"]
          /\ health'["chains"] = health["chains"]
          /\ health'["clean"] = health["clean"]
      BY <1>0, <3>1
    <3> QED BY <2>1, <2>5, <3>1, <3>2 DEF CounterInv, ReadingInv
  <2> QED BY <1>6, <2>2, <2>3, <2>4, <2>5 DEF ReadCounter
<1>7. ASSUME NEW t \in Threads, NEW k \in Kinds,
             ReportAnomaly(t, k) \/ Suppress(t, k) \/ Record(t, k)
      PROVE  CounterInv'
  <2>1. UNCHANGED << bus, counters, reading >>
    BY <1>7 DEF ReportAnomaly, Suppress, Record
  <2> QED BY <2>1, CountersStay
<1>8. CASE Tick \/ ReportMiss \/ UNCHANGED vars
  <2>1. /\ UNCHANGED << counters, reading >>
        /\ bus \in {"clean", "missed"} <=> bus' \in {"clean", "missed"}
    BY <1>8 DEF Tick, ReportMiss
  <2> QED BY <2>1, CountersStay
<1> QED BY <1>1, <1>2, <1>3, <1>4, <1>5, <1>6, <1>7, <1>8 DEF Next

\* The chains a caller of GetBusHealth is shown are clean or missed, except for
\* the one that may have been ending (RS485Comm::GetBusHealth reads the chains
\* before what became of them).
THEOREM HealthAddsUpHolds == Spec => []HealthAddsUp
<1>1. Init => CounterInv
  BY DEF Init, CounterInv, ChainInv, ReadingInv
<1>2. CounterInv => HealthAddsUp
  BY DEF CounterInv, ReadingInv, HealthAddsUp
<1> QED BY <1>1, <1>2, CountersInductive, TypeInit, TypeInductive, PTL DEF Spec

----------------------------------------------------------------------------
(* The rate limit.                                                         *)

\* lastRecord is the time of the last entry of its kind, and what has been
\* suppressed since happened less than an interval after it.
StampInv ==
  \A k \in Kinds :
    /\ lastRecord[k] <= now
    /\ everRecorded[k] => \E n \in DOMAIN written : written[n].kind = k
    /\ \A n \in DOMAIN written : written[n].kind = k =>
         /\ everRecorded[k] /\ written[n].time <= lastRecord[k]
         /\ (\A l \in (n + 1)..Len(written) : written[l].kind # k) =>
              written[n].time = lastRecord[k]
    /\ suppressed[k] > 0 =>
         /\ everRecorded[k]
         /\ lastRecord[k] <= folded[k] /\ folded[k] - lastRecord[k] < Interval

LimitInv == StampInv /\ OncePerInterval

\* Steps that leave the log and the limits alone.
LEMMA LimitsStay ==
  ASSUME TypeOK, LimitInv, UNCHANGED << limits, log >>, now <= now', now' \in Nat
  PROVE  LimitInv'
<1>1. \A k \in Kinds : lastRecord[k] \in Nat /\ now \in Nat
  BY DEF TypeOK
<1>2. StampInv'
  BY <1>1 DEF LimitInv, StampInv
<1>3. OncePerInterval'
  BY DEF LimitInv, OncePerInterval
<1> QED BY <1>2, <1>3 DEF LimitInv

\* A suppressed occurrence.
LEMMA LimitsSuppress ==
  ASSUME TypeOK, LimitInv, NEW t \in Threads, NEW k \in Kinds, Suppress(t, k)
  PROVE  LimitInv'
<1>1. UNCHANGED << now, everRecorded, lastRecord, log >> /\ TooSoon(k)
  BY DEF Suppress
<1>2. /\ now \in Nat /\ lastRecord[k] \in Nat /\ lastRecord[k] <= now
      /\ everRecorded[k] /\ now - lastRecord[k] < Interval
  BY <1>1 DEF TooSoon, LimitInv, StampInv, TypeOK
<1>3. /\ \A j \in Kinds \ {k} : suppressed'[j] = suppressed[j] /\ folded'[j] = folded[j]
      /\ folded'[k] = now
  BY DEF Suppress, TypeOK
<1>4. OncePerInterval'
  BY <1>1 DEF LimitInv, OncePerInterval
<1>5. StampInv'
  <2> SUFFICES ASSUME NEW j \in Kinds
               PROVE  /\ lastRecord[j] <= now
                      /\ everRecorded[j] => \E n \in DOMAIN written : written[n].kind = j
                      /\ \A n \in DOMAIN written : written[n].kind = j =>
                           /\ everRecorded[j] /\ written[n].time <= lastRecord[j]
                           /\ (\A l \in (n + 1)..Len(written) : written[l].kind # j) =>
                                written[n].time = lastRecord[j]
                      /\ suppressed'[j] > 0 =>
                           /\ everRecorded[j]
                           /\ lastRecord[j] <= folded'[j]
                           /\ folded'[j] - lastRecord[j] < Interval
    BY <1>1 DEF StampInv
  <2>1. CASE j = k
    BY <1>2, <1>3, <2>1 DEF LimitInv, StampInv
  <2>2. CASE j # k
    BY <1>3, <2>2 DEF LimitInv, StampInv
  <2> QED BY <2>1, <2>2
<1> QED BY <1>4, <1>5 DEF LimitInv

\* A new entry.
LEMMA LimitsRecord ==
  ASSUME TypeOK, LimitInv, NEW t \in Threads, NEW k \in Kinds, Record(t, k)
  PROVE  LimitInv'
<1> DEFINE entry == [kind |-> k, time |-> now, repeats |-> suppressed[k],
                     latest |-> folded[k]]
           L == Len(written)
<1>1. entry \in Entry /\ written \in Seq(Entry) /\ written' = Append(written, entry)
  BY EntryType DEF Record, TypeOK
<1>2. /\ entry.kind = k /\ entry.time = now /\ entry.repeats = suppressed[k]
      /\ entry.latest = folded[k]
  OBVIOUS
<1> HIDE DEF entry
<1>3. /\ L \in Nat /\ DOMAIN written = 1..L /\ DOMAIN written' = 1..(L + 1)
      /\ Len(written') = L + 1 /\ written'[L + 1] = entry
      /\ \A n \in 1..L : written'[n] = written[n]
  BY <1>1, AppendFacts
<1> HIDE DEF L
<1>4. /\ now' = now /\ folded' = folded /\ ~TooSoon(k)
      /\ \A j \in Kinds \ {k} : /\ suppressed'[j] = suppressed[j]
                               /\ lastRecord'[j] = lastRecord[j]
                               /\ everRecorded'[j] = everRecorded[j]
      /\ suppressed'[k] = 0 /\ lastRecord'[k] = now /\ everRecorded'[k]
  BY DEF Record, TypeOK
<1>5. /\ now \in Nat /\ Interval \in Nat
      /\ \A j \in Kinds : lastRecord[j] \in Nat /\ folded[j] \in Nat
      /\ \A n \in 1..L : written[n].time \in Nat
  <2>1. \A n \in 1..L : written[n] \in Entry
    BY <1>1, <1>3, AppendFacts
  <2>2. \A e \in Entry : e.time \in Nat
    BY DEF Entry
  <2>3. \A n \in 1..L : written[n].time \in Nat
    BY <2>1, <2>2
  <2> QED BY <2>3, ReportAssumption DEF TypeOK
<1>6. ASSUME NEW m \in 1..L, written[m].kind = k
      PROVE  now - written[m].time >= Interval
  <2>1. everRecorded[k] /\ written[m].time <= lastRecord[k]
    BY <1>3, <1>6 DEF LimitInv, StampInv
  <2>2. now - lastRecord[k] >= Interval
    BY <1>4, <1>5, <2>1 DEF TooSoon
  <2> QED BY <1>5, <1>6, <2>1, <2>2
<1>7. ASSUME NEW m \in 1..L, written[m].kind = k, suppressed[k] > 0,
             \A l \in (m + 1)..L : written[l].kind # k
      PROVE  folded[k] >= written[m].time /\ folded[k] - written[m].time < Interval
  BY <1>3, <1>7 DEF LimitInv, StampInv, L
<1>8. OncePerInterval'
  <2> SUFFICES ASSUME NEW m \in 1..(L + 1), NEW n \in 1..(L + 1), m < n,
                      written'[m].kind = written'[n].kind
               PROVE  /\ written'[n].time - written'[m].time >= Interval
                      /\ written'[n].repeats > 0 /\
                         (\A l \in (m + 1)..(n - 1) :
                            written'[l].kind # written'[n].kind)
                           => /\ written'[n].latest >= written'[m].time
                              /\ written'[n].latest - written'[m].time < Interval
    BY <1>3 DEF OncePerInterval
  <2>1. m \in 1..L /\ written'[m] = written[m]
    BY <1>3
  <2>2. CASE n = L + 1
    <3>1. written'[n] = entry /\ n - 1 = L /\ written[m].kind = k
      BY <1>2, <1>3, <2>1, <2>2
    <3>2. ASSUME NEW l \in (m + 1)..L PROVE written'[l] = written[l]
      BY <1>3, <2>1
    <3> QED BY <1>2, <1>6, <1>7, <2>1, <3>1, <3>2
  <2>3. CASE n # L + 1
    <3>1. n \in 1..L /\ written'[n] = written[n]
      BY <1>3, <2>3
    <3>2. ASSUME NEW l \in (m + 1)..(n - 1) PROVE written'[l] = written[l]
      BY <1>3, <2>1, <3>1
    <3> QED BY <1>3, <2>1, <3>1, <3>2 DEF LimitInv, OncePerInterval
  <2> QED BY <2>2, <2>3
<1>9. StampInv'
  <2> SUFFICES ASSUME NEW j \in Kinds
               PROVE  /\ lastRecord'[j] <= now
                      /\ everRecorded'[j] =>
                           \E n \in 1..(L + 1) : written'[n].kind = j
                      /\ \A n \in 1..(L + 1) : written'[n].kind = j =>
                           /\ everRecorded'[j] /\ written'[n].time <= lastRecord'[j]
                           /\ (\A l \in (n + 1)..(L + 1) : written'[l].kind # j) =>
                                written'[n].time = lastRecord'[j]
                      /\ suppressed'[j] > 0 =>
                           /\ everRecorded'[j]
                           /\ lastRecord'[j] <= folded[j]
                           /\ folded[j] - lastRecord'[j] < Interval
    BY <1>3, <1>4 DEF StampInv
  <2>1. CASE j = k
    <3>1. L + 1 \in 1..(L + 1) /\ written'[L + 1].kind = k /\ written'[L + 1].time = now
      BY <1>2, <1>3
    <3>2. ASSUME NEW n \in 1..L, written'[n].kind = k
          PROVE  written'[n].time <= now /\ L + 1 \in (n + 1)..(L + 1)
      BY <1>3, <1>5, <1>6, <3>2, ReportAssumption
    <3>3. ASSUME NEW n \in 1..(L + 1) PROVE n \in 1..L \/ n = L + 1
      BY <1>3
    <3> QED BY <1>4, <1>5, <2>1, <3>1, <3>2, <3>3
  <2>2. CASE j # k
    <3>1. written'[L + 1].kind # j
      BY <1>2, <1>3, <2>2
    <3>2. ASSUME NEW n \in 1..(L + 1), written'[n].kind = j
          PROVE  n \in 1..L /\ written'[n] = written[n] /\ written[n].kind = j
      BY <1>3, <3>1, <3>2
    <3>3. ASSUME NEW n \in 1..L, \A l \in (n + 1)..(L + 1) : written'[l].kind # j
          PROVE  \A l \in (n + 1)..L : written[l].kind # j
      BY <1>3, <3>3
    <3>4. ASSUME NEW n \in 1..L, written[n].kind = j
          PROVE  n \in 1..(L + 1) /\ written'[n].kind = j
      BY <1>3, <3>4
    <3> QED BY <1>3, <1>4, <2>2, <3>2, <3>3, <3>4 DEF LimitInv, StampInv, L
  <2> QED BY <2>1, <2>2
<1> QED BY <1>8, <1>9 DEF LimitInv

LEMMA LimitsInductive == TypeOK /\ LimitInv /\ [Next]_vars => LimitInv'
<1> SUFFICES ASSUME TypeOK, LimitInv, [Next]_vars PROVE LimitInv'
  OBVIOUS
<1>0. now \in Nat
  BY DEF TypeOK
<1>1. CASE Tick
  <2>1. UNCHANGED << limits, log >> /\ now <= now' /\ now' \in Nat
    BY <1>0, <1>1 DEF Tick
  <2> QED BY <2>1, LimitsStay
<1>2. ASSUME NEW t \in Threads, NEW k \in Kinds, ReportAnomaly(t, k) PROVE LimitInv'
  BY <1>0, <1>2, LimitsStay DEF ReportAnomaly
<1>3. CASE ChainEnds \/ ChainClean \/ ChainMissed \/ ReportMiss \/ CountResync
  BY <1>0, <1>3, LimitsStay DEF ChainEnds, ChainClean, ChainMissed, ReportMiss, CountResync
<1>4. CASE BeginGetBusHealth \/ ReadCounter \/ UNCHANGED vars
  BY <1>0, <1>4, LimitsStay DEF BeginGetBusHealth, ReadCounter
<1> QED BY <1>1, <1>2, <1>3, <1>4, LimitsSuppress, LimitsRecord DEF Next

LEMMA LimitsInit == Init => LimitInv
<1> SUFFICES ASSUME Init PROVE LimitInv
  OBVIOUS
<1>1. written = << >> /\ DOMAIN written = {}
  BY DEF Init
<1> QED BY <1>1 DEF Init, LimitInv, StampInv, OncePerInterval

\* Whichever threads report, a kind gets one entry per interval at most, the
\* repeats an entry counts happened within an interval of the one before it, and
\* no kind is suppressed before it has an entry (RS485Comm::ReportAnomaly).
THEOREM RateLimitedHolds == Spec => []RateLimited
<1>1. LimitInv => RateLimited
  BY DEF LimitInv, StampInv, RateLimited, FirstIsRecorded
<1> QED BY <1>1, LimitsInit, LimitsInductive, TypeInit, TypeInductive, PTL DEF Spec

----------------------------------------------------------------------------
(* The ring.                                                               *)

\* Where in the ring the n-th oldest entry is.
Start == IF count = Size THEN head ELSE 0
Slot(n) == (Start + n - 1) % Size

RingInv ==
  /\ count = IF Len(written) < Size THEN Len(written) ELSE Size
  /\ count < Size => head = count
  /\ \A n \in 1..count : ring[Slot(n)] = written[Len(written) - count + n]

LEMMA RingStays ==
  ASSUME RingInv, UNCHANGED log PROVE RingInv'
BY DEF RingInv, Slot, Start

\* The slots wrap once at most.
LEMMA SlotWrap ==
  ASSUME NEW s \in 0..(Size - 1), NEW n \in 1..Size
  PROVE  (s + n - 1) % Size = IF s + n - 1 < Size THEN s + n - 1 ELSE s + n - 1 - Size
<1>1. Size \in Nat \ {0}
  BY ReportAssumption
<1>2. s + n - 1 \in 0..(2 * Size - 1)
  BY <1>1
<1>3. PICK m \in 0..(2 * Size - 1) : m = s + n - 1
  BY <1>2
<1>4. m % Size = IF m < Size THEN m ELSE m - Size
  BY <1>1, ModWrap
<1>5. m \in Int /\ s \in Int /\ n \in Int
  BY <1>1
<1> QED BY <1>1, <1>3, <1>4, <1>5

LEMMA RingRecord ==
  ASSUME TypeOK, RingInv, NEW t \in Threads, NEW k \in Kinds, Record(t, k)
  PROVE  RingInv'
<1> DEFINE entry == [kind |-> k, time |-> now, repeats |-> suppressed[k],
                     latest |-> folded[k]]
           L == Len(written)
<1>1. entry \in Entry /\ written \in Seq(Entry) /\ written' = Append(written, entry)
  BY EntryType DEF Record, TypeOK
<1>2. ring' = [ring EXCEPT ![head] = entry]
  BY DEF Record
<1> HIDE DEF entry
<1>3. /\ L \in Nat /\ Len(written') = L + 1 /\ written'[L + 1] = entry
      /\ \A n \in 1..L : written'[n] = written[n]
  BY <1>1, AppendFacts
<1>4. /\ ring'[head] = entry
      /\ \A p \in 0..(Size - 1) : p # head => ring'[p] = ring[p]
  BY <1>2 DEF TypeOK
<1>5. /\ Size \in Nat /\ Size > 0 /\ head \in Nat /\ head < Size
      /\ count \in Nat /\ count <= Size
      /\ head' = (head + 1) % Size
      /\ count' = IF count < Size THEN count + 1 ELSE count
  BY ReportAssumption DEF Record, TypeOK
<1>6. head' = IF head + 1 < Size THEN head + 1 ELSE 0
  BY <1>5, ModWrap
<1>7. CASE count < Size
  <2>1. count = L /\ head = L /\ count' = L + 1
    BY <1>3, <1>5, <1>7 DEF RingInv
  <2>2. ASSUME NEW n \in 1..(L + 1) PROVE (0 + n - 1) % Size = n - 1
    <3>1. 0 \in 0..(Size - 1) /\ n \in 1..Size /\ 0 + n - 1 < Size /\ 0 + n - 1 = n - 1
      BY <1>3, <1>5, <1>7, <2>1
    <3> QED BY <3>1, SlotWrap
  <2>0. Start = 0 /\ Start' = 0
    <3>1. Start = 0
      BY <1>5, <1>7 DEF Start
    <3>2. count' = Size => head' = 0
      BY <1>3, <1>5, <1>6, <2>1
    <3> QED BY <3>1, <3>2 DEF Start
  <2>3. ASSUME NEW n \in 1..(L + 1) PROVE Slot(n)' = n - 1
    BY <2>0, <2>2 DEF Slot
  <2>4. ASSUME NEW n \in 1..L PROVE ring'[n - 1] = written[n]
    <3>1. Slot(n) = n - 1
      <4>1. n \in 1..(L + 1)
        BY <1>3
      <4> QED BY <2>0, <2>2, <4>1 DEF Slot
    <3>2. ring[n - 1] = written[n]
      BY <1>3, <2>1, <3>1 DEF RingInv
    <3>3. n - 1 \in 0..(Size - 1) /\ n - 1 # head
      BY <1>3, <1>5, <1>7, <2>1
    <3> QED BY <1>4, <3>2, <3>3
  <2>5. ASSUME NEW n \in 1..(L + 1) PROVE ring'[n - 1] = written'[n]
    <3>1. CASE n = L + 1
      BY <1>3, <1>4, <2>1, <3>1
    <3>2. CASE n # L + 1
      BY <1>3, <2>4, <3>2
    <3> QED BY <3>1, <3>2
  <2>6. count' = IF Len(written') < Size THEN Len(written') ELSE Size
    BY <1>3, <1>5, <1>7, <2>1
  <2>7. count' < Size => head' = count'
    BY <1>3, <1>6, <2>1
  <2>8. ASSUME NEW n \in 1..count'
        PROVE  ring'[Slot(n)'] = written'[Len(written') - count' + n]
    <3>1. n \in 1..(L + 1) /\ Len(written') - count' + n = n
      BY <1>3, <2>1
    <3> QED BY <2>3, <2>5, <3>1
  <2> QED BY <2>6, <2>7, <2>8 DEF RingInv
<1>8. CASE count = Size
  <2>1. L >= Size /\ count' = Size
    BY <1>3, <1>5, <1>8 DEF RingInv
  <2>2. ASSUME NEW n \in 1..Size
        PROVE  /\ Slot(n) = IF head + n - 1 < Size THEN head + n - 1
                                                  ELSE head + n - 1 - Size
               /\ Slot(n)' = IF head' + n - 1 < Size THEN head' + n - 1
                                                    ELSE head' + n - 1 - Size
    <3>1. head' \in 0..(Size - 1)
      BY <1>5, <1>6
    <3>2. head \in 0..(Size - 1)
      BY <1>5
    <3>3. Start = head /\ Start' = head'
      BY <1>8, <2>1 DEF Start
    <3>4. Slot(n) = (head + n - 1) % Size /\ Slot(n)' = (head' + n - 1) % Size
      BY <3>3 DEF Slot
    <3> QED BY <3>1, <3>2, <3>4, SlotWrap
  <2>3. ASSUME NEW n \in 1..(Size - 1)
        PROVE  Slot(n)' = Slot(n + 1) /\ Slot(n + 1) \in 0..(Size - 1) /\ Slot(n + 1) # head
    <3>1. n \in 1..Size /\ n + 1 \in 1..Size
      BY <1>5
    <3> QED BY <1>5, <1>6, <2>2, <3>1
  <2>4. Slot(Size)' = head
    <3>1. Size \in 1..Size
      BY <1>5
    <3> QED BY <1>5, <1>6, <2>2, <3>1
  <2>5. ASSUME NEW n \in 1..Size
        PROVE  ring'[Slot(n)'] = written'[L + 1 - Size + n]
    <3>1. CASE n = Size
      <4>1. L + 1 - Size + n = L + 1
        BY <1>3, <1>5, <3>1
      <4> QED BY <1>3, <1>4, <2>4, <3>1, <4>1
    <3>2. CASE n # Size
      <4>1. n \in 1..(Size - 1) /\ n + 1 \in 1..count
        BY <1>5, <1>8, <3>2
      <4>2. ring'[Slot(n)'] = ring[Slot(n + 1)]
        BY <1>4, <2>3, <4>1
      <4>3. ring[Slot(n + 1)] = written[L - Size + (n + 1)]
        BY <1>8, <4>1 DEF RingInv
      <4>4. L - Size + (n + 1) \in 1..L /\ L - Size + (n + 1) = L + 1 - Size + n
        BY <1>3, <1>5, <2>1, <4>1
      <4> QED BY <1>3, <4>2, <4>3, <4>4
    <3> QED BY <3>1, <3>2
  <2>6. Len(written') >= Size /\ Len(written') - count' = L + 1 - Size
    BY <1>3, <1>5, <2>1
  <2>7. count' = IF Len(written') < Size THEN Len(written') ELSE Size
    BY <1>3, <1>5, <2>1, <2>6
  <2>8. ~(count' < Size)
    BY <1>5, <2>1
  <2>9. \A n \in 1..count' : ring'[Slot(n)'] = written'[Len(written') - count' + n]
    BY <2>1, <2>5, <2>6
  <2> QED BY <2>7, <2>8, <2>9 DEF RingInv
<1> QED BY <1>5, <1>7, <1>8

LEMMA RingInductive == TypeOK /\ RingInv /\ [Next]_vars => RingInv'
<1> SUFFICES ASSUME TypeOK, RingInv, [Next]_vars PROVE RingInv'
  OBVIOUS
<1>1. CASE UNCHANGED log
  BY <1>1, RingStays
<1>2. ASSUME ~UNCHANGED log
      PROVE  \E t \in Threads, k \in Kinds : Record(t, k)
  BY <1>2 DEF Next, Tick, ReportAnomaly, Suppress, ChainEnds, ChainClean,
              ChainMissed, ReportMiss, CountResync, BeginGetBusHealth, ReadCounter
<1> QED BY <1>1, <1>2, RingRecord

LEMMA RingInit == Init => RingInv
<1> SUFFICES ASSUME Init PROVE RingInv
  OBVIOUS
<1>1. written = << >> /\ Len(written) = 0 /\ count = 0 /\ head = 0
  BY DEF Init
<1>2. Size \in Nat /\ Size > 0
  BY ReportAssumption
<1> QED BY <1>1, <1>2 DEF RingInv

\* GetRecentAnomalies returns the newest entries in their order, for a ring of
\* any size, wrapped or not (RS485Comm::GetRecentAnomalies).
THEOREM RecentIsTailHolds == Spec => []RecentIsTail
<1>1. ASSUME TypeOK, RingInv PROVE RecentIsTail
  <2> DEFINE L == Len(written)
             tail == SubSeq(written, L - count + 1, L)
  <2>1. /\ written \in Seq(Entry) /\ L \in Nat /\ count \in Nat /\ count <= L
        /\ count = IF L < Size THEN L ELSE Size
    BY <1>1, ReportAssumption DEF TypeOK, RingInv
  <2>2. /\ DOMAIN tail = 1..count /\ tail = [n \in 1..count |-> tail[n]]
        /\ \A n \in 1..count : tail[n] = written[L - count + n]
    <3>1. L - (L - count + 1) + 1 = count
      BY <2>1
    <3>2. tail = [n \in 1..count |-> written[(L - count + 1) + n - 1]]
      BY <2>1, <3>1
    <3>3. \A n \in 1..count : (L - count + 1) + n - 1 = L - count + n
      BY <2>1
    <3> HIDE DEF tail, L
    <3> QED BY <3>2, <3>3
  <2>3. Recent = [n \in 1..count |-> ring[Slot(n)]]
    BY DEF Recent, Slot, Start
  <2>4. \A n \in 1..count : ring[Slot(n)] = tail[n]
    BY <1>1, <2>2 DEF RingInv
  <2> HIDE DEF tail, L
  <2>5. Recent = tail
    BY <2>2, <2>3, <2>4
  <2> QED BY <2>1, <2>5 DEF RecentIsTail, tail, L
<1> QED BY <1>1, RingInit, RingInductive, TypeInit, TypeInductive, PTL DEF Spec

----------------------------------------------------------------------------
(* The occurrences.                                                        *)

\* acc adds up the entries of a kind, as Entered does.  That there is such a
\* function, and that each of them gives the sum, is part of the invariant: the
\* log grows by one entry at a time, and with it the function.
Adds(k, acc) ==
  acc = [n \in 0..Len(written) |->
           IF n = 0 THEN 0
           ELSE acc[n - 1] + IF written[n].kind = k THEN 1 + written[n].repeats ELSE 0]

AccountInv ==
  \A k \in Kinds :
    /\ \E acc : Adds(k, acc)
    /\ \A acc : Adds(k, acc) =>
         /\ acc[Len(written)] \in Nat
         /\ total[k] = InFlight(k) + suppressed[k] + acc[Len(written)]

\* A thread reports one thing at a time, the bus thread none while it counts a
\* chain.
ReporterInv ==
  /\ \A t \in Threads : \A j, k \in reporting[t] : j = k
  /\ bus \in {"clean", "missed", "report"} => reporting[Bus] = {}

AccountingInv == AccountInv /\ ReporterInv

\* What Entered computes is one of the functions of the invariant.
LEMMA EnteredAdds ==
  ASSUME NEW k \in Kinds, \E acc : Adds(k, acc)
  PROVE  \E acc : Adds(k, acc) /\ Entered(k) = acc[Len(written)]
<1> DEFINE sum == CHOOSE acc : Adds(k, acc)
<1>1. Adds(k, sum)
  OBVIOUS
<1>2. Entered(k) = sum[Len(written)]
  BY DEF Entered, Adds
<1> QED BY <1>1, <1>2

\* The threads that have an occurrence of a kind in hand are finitely many.
LEMMA FlightFinite ==
  ASSUME NEW k, NEW r
  PROVE  /\ IsFiniteSet({t \in Threads : k \in r[t]})
         /\ Cardinality({t \in Threads : k \in r[t]}) \in Nat
<1>1. {t \in Threads : k \in r[t]} \in SUBSET Threads
  OBVIOUS
<1>2. IsFiniteSet({t \in Threads : k \in r[t]})
  BY <1>1, FS_Subset, ReportAssumption
<1> QED BY <1>2, FS_CardinalityType

LEMMA FlightType ==
  ASSUME NEW k \in Kinds PROVE InFlight(k) \in Nat /\ InFlight(k)' \in Nat
BY FlightFinite DEF InFlight

\* A thread counts an occurrence.
LEMMA FlightGrows ==
  ASSUME TypeOK, NEW t \in Threads, NEW k \in Kinds, reporting[t] = {}, Count(t, k),
         NEW j \in Kinds
  PROVE  total'[j] - InFlight(j)' = total[j] - InFlight(j)
<1> DEFINE F(r) == {u \in Threads : j \in r[u]}
<1>1. IsFiniteSet(F(reporting)) /\ InFlight(j) \in Nat
  BY FlightFinite, FlightType
<1>2. InFlight(j) = Cardinality(F(reporting)) /\ InFlight(j)' = Cardinality(F(reporting'))
  BY DEF InFlight
<1>3. /\ reporting' = [reporting EXCEPT ![t] = {k}]
      /\ total' = [total EXCEPT ![k] = @ + 1] /\ total[j] \in Nat
  BY DEF Count, TypeOK
<1>4. CASE j = k
  <2>1. F(reporting') = F(reporting) \cup {t} /\ t \notin F(reporting)
    BY <1>3, <1>4 DEF TypeOK
  <2>2. InFlight(j)' = InFlight(j) + 1
    BY <1>1, <1>2, <2>1, FS_AddElement
  <2>3. total'[j] = total[j] + 1
    BY <1>3, <1>4 DEF TypeOK
  <2> QED BY <1>1, <1>3, <2>2, <2>3
<1>5. CASE j # k
  <2>1. F(reporting') = F(reporting)
    BY <1>3, <1>5 DEF TypeOK
  <2>2. total'[j] = total[j]
    BY <1>3, <1>5 DEF TypeOK
  <2> QED BY <1>2, <2>1, <2>2
<1> QED BY <1>4, <1>5

\* A thread is done with the occurrence it had in hand.
LEMMA FlightEnds ==
  ASSUME TypeOK, ReporterInv, NEW t \in Threads, NEW k \in Kinds, k \in reporting[t],
         reporting' = [reporting EXCEPT ![t] = {}], NEW j \in Kinds
  PROVE  InFlight(j)' = IF j = k THEN InFlight(j) - 1 ELSE InFlight(j)
<1> DEFINE F(r) == {u \in Threads : j \in r[u]}
<1>1. IsFiniteSet(F(reporting)) /\ InFlight(j) \in Nat
  BY FlightFinite, FlightType
<1>2. InFlight(j) = Cardinality(F(reporting)) /\ InFlight(j)' = Cardinality(F(reporting'))
  BY DEF InFlight
<1>3. CASE j = k
  <2>1. F(reporting') = F(reporting) \ {t} /\ t \in F(reporting)
    BY <1>3 DEF TypeOK
  <2>2. InFlight(j)' = InFlight(j) - 1
    BY <1>1, <1>2, <2>1, FS_RemoveElement
  <2> QED BY <1>1, <1>3, <2>2
<1>4. CASE j # k
  <2>1. j \notin reporting[t]
    BY <1>4 DEF ReporterInv
  <2>2. F(reporting') = F(reporting)
    BY <2>1 DEF TypeOK
  <2> QED BY <1>1, <1>2, <1>4, <2>2
<1> QED BY <1>3, <1>4

LEMMA ReporterInductive == TypeOK /\ ReporterInv /\ [Next]_vars => ReporterInv'
<1> SUFFICES ASSUME TypeOK, ReporterInv, [Next]_vars PROVE ReporterInv'
  OBVIOUS
<1>0. Bus \in Threads
  BY ReportAssumption
<1>1. ASSUME NEW t \in Threads, NEW k \in Kinds,
             ReportAnomaly(t, k) \/ Suppress(t, k) \/ Record(t, k)
      PROVE  ReporterInv'
  <2>1. PICK S \in {{}, {k}} : reporting' = [reporting EXCEPT ![t] = S]
    BY <1>1 DEF ReportAnomaly, Count, Suppress, Record
  <2>2. bus' = bus /\ (t = Bus => S = {} \/ bus = "idle")
    <3>1. CASE ReportAnomaly(t, k)
      BY <3>1 DEF ReportAnomaly
    <3>2. CASE Suppress(t, k) \/ Record(t, k)
      <4>1. reporting' = [reporting EXCEPT ![t] = {}] /\ bus' = bus
        BY <3>2 DEF Suppress, Record
      <4> QED BY <2>1, <4>1 DEF TypeOK
    <3> QED BY <1>1, <3>1, <3>2
  <2>3. \A u \in Threads : reporting'[u] = IF u = t THEN S ELSE reporting[u]
    BY <2>1 DEF TypeOK
  <2> QED BY <1>0, <2>1, <2>2, <2>3 DEF ReporterInv
<1>2. CASE ReportMiss
  <2>1. /\ reporting' = [reporting EXCEPT ![Bus] = {ChainMiss}] /\ bus' = "resync"
    BY <1>2 DEF ReportMiss, Count
  <2> QED BY <2>1 DEF ReporterInv, TypeOK
<1>3. CASE ~(bus' \in {"clean", "missed", "report"}) /\ reporting' = reporting
  BY <1>3 DEF ReporterInv
<1>4. CASE ChainEnds \/ ChainMissed
  BY <1>4 DEF ChainEnds, ChainMissed, ReporterInv
<1>5. CASE ChainClean \/ CountResync
  BY <1>3, <1>5 DEF ChainClean, CountResync
<1>6. CASE UNCHANGED << bus, reporting >>
  BY <1>6 DEF ReporterInv
<1>7. CASE Tick \/ BeginGetBusHealth \/ ReadCounter \/ UNCHANGED vars
  BY <1>6, <1>7 DEF Tick, BeginGetBusHealth, ReadCounter
<1> QED BY <1>1, <1>2, <1>4, <1>5, <1>7 DEF Next

\* Steps that leave the log alone.
LEMMA AccountStays ==
  ASSUME TypeOK, AccountInv, UNCHANGED written,
         \A k \in Kinds :
           /\ total'[k] \in Nat /\ InFlight(k)' \in Nat /\ suppressed'[k] \in Nat
           /\ total'[k] - InFlight(k)' - suppressed'[k]
                = total[k] - InFlight(k) - suppressed[k]
  PROVE  AccountInv'
<1> SUFFICES ASSUME NEW k \in Kinds
             PROVE  /\ \E acc : Adds(k, acc)'
                    /\ \A acc : Adds(k, acc)' =>
                         /\ acc[Len(written)]' \in Nat
                         /\ total'[k] = InFlight(k)' + suppressed'[k] + acc[Len(written)]'
  BY DEF AccountInv
<1>1. \A acc : Adds(k, acc)' <=> Adds(k, acc)
  BY DEF Adds
<1>2. total[k] \in Nat /\ InFlight(k) \in Nat /\ suppressed[k] \in Nat
  BY FlightType DEF TypeOK
<1>3. ASSUME NEW acc, Adds(k, acc)
      PROVE  /\ acc[Len(written)] \in Nat
             /\ total'[k] = InFlight(k)' + suppressed'[k] + acc[Len(written)]
  <2>1. /\ acc[Len(written)] \in Nat
        /\ total[k] = InFlight(k) + suppressed[k] + acc[Len(written)]
    BY <1>3 DEF AccountInv
  <2>2. /\ total'[k] \in Nat /\ InFlight(k)' \in Nat /\ suppressed'[k] \in Nat
        /\ total'[k] - InFlight(k)' - suppressed'[k]
             = total[k] - InFlight(k) - suppressed[k]
    OBVIOUS
  <2>3. PICK x, f, u, x1, f1, u1, a :
          /\ x = total[k] /\ f = InFlight(k) /\ u = suppressed[k] /\ x1 = total'[k]
          /\ f1 = InFlight(k)' /\ u1 = suppressed'[k] /\ a = acc[Len(written)]
    OBVIOUS
  <2>4. /\ x \in Nat /\ f \in Nat /\ u \in Nat /\ x1 \in Nat /\ f1 \in Nat /\ u1 \in Nat
        /\ a \in Nat /\ x = f + u + a /\ x1 - f1 - u1 = x - f - u
    BY <1>2, <2>1, <2>2, <2>3
  <2>5. x1 = f1 + u1 + a
    BY <2>4
  <2> QED BY <2>1, <2>3, <2>5
<1>4. \E acc : Adds(k, acc)
  BY DEF AccountInv
<1> QED BY <1>1, <1>3, <1>4

\* A new entry stands for the occurrence and for those suppressed before it.
LEMMA AccountRecord ==
  ASSUME TypeOK, AccountingInv, NEW t \in Threads, NEW k \in Kinds, Record(t, k)
  PROVE  AccountInv'
<1> DEFINE entry == [kind |-> k, time |-> now, repeats |-> suppressed[k],
                     latest |-> folded[k]]
           L == Len(written)
<1>1. entry \in Entry /\ written \in Seq(Entry) /\ written' = Append(written, entry)
  BY EntryType DEF Record, TypeOK
<1>2. entry.kind = k /\ entry.repeats = suppressed[k]
  OBVIOUS
<1> HIDE DEF entry
<1>3. /\ L \in Nat /\ Len(written') = L + 1 /\ written'[L + 1] = entry
      /\ \A n \in 1..L : written'[n] = written[n]
  BY <1>1, AppendFacts
<1> SUFFICES ASSUME NEW j \in Kinds
             PROVE  /\ \E acc : Adds(j, acc)'
                    /\ \A acc : Adds(j, acc)' =>
                         /\ acc[Len(written)]' \in Nat
                         /\ total'[j] = InFlight(j)' + suppressed'[j] + acc[Len(written)]'
  BY DEF AccountInv
<1> DEFINE part(n) == IF written[n].kind = j THEN 1 + written[n].repeats ELSE 0
           new == IF j = k THEN 1 + suppressed[k] ELSE 0
<1>4. /\ \A n \in 1..L : written'[n].kind = written[n].kind
                         /\ written'[n].repeats = written[n].repeats
      /\ written'[L + 1].kind = k /\ written'[L + 1].repeats = suppressed[k]
  BY <1>2, <1>3
<1>5. ASSUME NEW acc, Adds(j, acc) PROVE \E acc1 : Adds(j, acc1)'
  <2> DEFINE acc1 == [n \in 0..(L + 1) |-> IF n = L + 1 THEN acc[L] + new ELSE acc[n]]
  <2>1. acc = [n \in 0..L |-> IF n = 0 THEN 0 ELSE acc[n - 1] + part(n)]
    BY <1>5 DEF Adds
  <2>2. ASSUME NEW n \in 0..(L + 1)
        PROVE  acc1[n] = IF n = 0 THEN 0
                         ELSE acc1[n - 1] + IF written'[n].kind = j
                                            THEN 1 + written'[n].repeats ELSE 0
    <3>1. CASE n = L + 1
      <4>1. acc1[n] = acc[L] + new /\ n # 0 /\ acc1[n - 1] = acc[L]
        BY <1>3, <3>1
      <4> QED BY <1>4, <3>1, <4>1
    <3>2. CASE n = 0
      BY <1>3, <2>1, <3>2
    <3>3. CASE n \in 1..L
      <4>1. acc1[n] = acc[n] /\ acc1[n - 1] = acc[n - 1] /\ n \in 0..L /\ n # 0
        BY <1>3, <3>3
      <4>2. acc[n] = acc[n - 1] + part(n)
        BY <2>1, <4>1
      <4> QED BY <1>4, <3>3, <4>1, <4>2
    <3> QED BY <1>3, <3>1, <3>2, <3>3
  <2>3. acc1 = [n \in 0..(L + 1) |-> acc1[n]]
    OBVIOUS
  <2> HIDE DEF acc1
  <2>4. acc1 = [n \in 0..(L + 1) |->
                 IF n = 0 THEN 0
                 ELSE acc1[n - 1] + IF written'[n].kind = j
                                    THEN 1 + written'[n].repeats ELSE 0]
    BY <2>2, <2>3
  <2> QED BY <1>3, <2>4 DEF Adds
<1>6. ASSUME NEW acc, Adds(j, acc)'
      PROVE  acc[L + 1] \in Nat /\ total'[j] = InFlight(j)' + suppressed'[j] + acc[L + 1]
  <2> DEFINE acc0 == [n \in 0..L |-> acc[n]]
  <2>1. acc = [n \in 0..(L + 1) |->
                 IF n = 0 THEN 0
                 ELSE acc[n - 1] + IF written'[n].kind = j
                                   THEN 1 + written'[n].repeats ELSE 0]
    BY <1>3, <1>6 DEF Adds
  <2>2. ASSUME NEW n \in 0..L
        PROVE  acc0[n] = IF n = 0 THEN 0 ELSE acc0[n - 1] + part(n)
    <3>1. CASE n = 0
      BY <1>3, <2>1, <3>1
    <3>2. CASE n \in 1..L
      <4>1. acc0[n] = acc[n] /\ acc0[n - 1] = acc[n - 1] /\ n \in 0..(L + 1) /\ n # 0
        BY <1>3, <3>2
      <4>2. acc[n] = acc[n - 1] + IF written'[n].kind = j
                                  THEN 1 + written'[n].repeats ELSE 0
        BY <2>1, <4>1
      <4> QED BY <1>4, <3>2, <4>1, <4>2
    <3> QED BY <1>3, <3>1, <3>2
  <2>3. acc0 = [n \in 0..L |-> acc0[n]] /\ acc0[L] = acc[L]
    BY <1>3
  <2>4. acc[L + 1] = acc[L] + new
    <3>1. L + 1 \in 0..(L + 1) /\ L + 1 # 0 /\ (L + 1) - 1 = L
      BY <1>3
    <3>2. acc[L + 1] = acc[L] + IF written'[L + 1].kind = j
                                THEN 1 + written'[L + 1].repeats ELSE 0
      BY <2>1, <3>1
    <3> QED BY <1>4, <3>2
  <2> HIDE DEF acc0
  <2>5. Adds(j, acc0)
    BY <2>2, <2>3 DEF Adds
  <2>6. acc[L] \in Nat /\ total[j] = InFlight(j) + suppressed[j] + acc[L]
    BY <2>3, <2>5 DEF AccountingInv, AccountInv
  <2>7. InFlight(j)' = IF j = k THEN InFlight(j) - 1 ELSE InFlight(j)
    BY FlightEnds DEF Record, AccountingInv
  <2>8. total'[j] = total[j] /\ suppressed'[j] = IF j = k THEN 0 ELSE suppressed[j]
    BY DEF Record, TypeOK
  <2>9. PICK f \in Nat, f1 \in Int : f = InFlight(j) /\ f1 = InFlight(j)'
    BY <2>7, FlightType
  <2>10. suppressed[j] \in Nat /\ suppressed[k] \in Nat
    BY DEF TypeOK
  <2> HIDE DEF L
  <2>11. CASE j = k
    BY <2>4, <2>6, <2>7, <2>8, <2>9, <2>10, <2>11
  <2>12. CASE j # k
    BY <2>4, <2>6, <2>7, <2>8, <2>9, <2>10, <2>12
  <2> QED BY <2>11, <2>12
<1>7. \E acc : Adds(j, acc)
  BY DEF AccountingInv, AccountInv
<1> QED BY <1>3, <1>5, <1>6, <1>7

LEMMA AccountInductive == TypeOK /\ AccountingInv /\ [Next]_vars => AccountingInv'
<1> SUFFICES ASSUME TypeOK, AccountingInv, [Next]_vars PROVE AccountInv'
  BY ReporterInductive DEF AccountingInv
<1>1. AccountInv /\ ReporterInv /\ TypeOK'
  BY TypeInductive DEF AccountingInv
<1>2. \A k \in Kinds : /\ total[k] \in Nat /\ suppressed[k] \in Nat /\ InFlight(k) \in Nat
                       /\ total'[k] \in Nat /\ suppressed'[k] \in Nat
                       /\ InFlight(k)' \in Nat
  BY <1>1, FlightType DEF TypeOK
<1>3. ASSUME NEW t \in Threads, NEW k \in Kinds, reporting[t] = {}, Count(t, k),
             UNCHANGED << suppressed, written >>
      PROVE  AccountInv'
  <2>1. \A j \in Kinds : total'[j] - InFlight(j)' = total[j] - InFlight(j)
    BY <1>1, <1>3, FlightGrows
  <2>2. \A j \in Kinds : total'[j] - InFlight(j)' - suppressed'[j]
                           = total[j] - InFlight(j) - suppressed[j]
    BY <1>3, <2>1
  <2> QED BY <1>1, <1>2, <1>3, <2>2, AccountStays
<1>4. ASSUME NEW t \in Threads, NEW k \in Kinds, ReportAnomaly(t, k) PROVE AccountInv'
  BY <1>3, <1>4 DEF ReportAnomaly
<1>5. CASE ReportMiss
  <2>1. ChainMiss \in Kinds /\ Bus \in Threads /\ reporting[Bus] = {}
    BY <1>1, <1>5, ReportAssumption DEF ReportMiss, ReporterInv
  <2> QED BY <1>3, <1>5, <2>1 DEF ReportMiss
<1>6. ASSUME NEW t \in Threads, NEW k \in Kinds, Suppress(t, k) PROVE AccountInv'
  <2>1. \A j \in Kinds : InFlight(j)' = IF j = k THEN InFlight(j) - 1 ELSE InFlight(j)
    BY <1>1, <1>6, FlightEnds DEF Suppress
  <2>2. /\ UNCHANGED << total, written >>
        /\ \A j \in Kinds : suppressed'[j] = IF j = k THEN suppressed[j] + 1
                                                      ELSE suppressed[j]
    BY <1>6 DEF Suppress, TypeOK
  <2>3. ASSUME NEW j \in Kinds
        PROVE  total'[j] - InFlight(j)' - suppressed'[j]
                 = total[j] - InFlight(j) - suppressed[j]
    BY <1>2, <2>1, <2>2
  <2> QED BY <1>1, <1>2, <2>2, <2>3, AccountStays
<1>7. ASSUME NEW t \in Threads, NEW k \in Kinds, Record(t, k) PROVE AccountInv'
  BY <1>7, AccountRecord
<1>8. CASE UNCHANGED << total, suppressed, reporting, written >>
  <2>1. \A j \in Kinds : InFlight(j)' = InFlight(j)
    BY <1>8 DEF InFlight
  <2>2. \A j \in Kinds : total'[j] - InFlight(j)' - suppressed'[j]
                           = total[j] - InFlight(j) - suppressed[j]
    BY <1>8, <2>1
  <2> QED BY <1>1, <1>2, <1>8, <2>2, AccountStays
<1>9. CASE ChainEnds \/ ChainClean \/ ChainMissed \/ CountResync
  BY <1>8, <1>9 DEF ChainEnds, ChainClean, ChainMissed, CountResync
<1>10. CASE Tick \/ BeginGetBusHealth \/ ReadCounter \/ UNCHANGED vars
  BY <1>8, <1>10 DEF Tick, BeginGetBusHealth, ReadCounter
<1> QED BY <1>4, <1>5, <1>6, <1>7, <1>9, <1>10 DEF Next

LEMMA AccountInit == Init => AccountingInv
<1> SUFFICES ASSUME Init PROVE AccountingInv
  OBVIOUS
<1>1. /\ written = << >> /\ Len(written) = 0
      /\ \A t \in Threads : reporting[t] = {}
      /\ \A k \in Kinds : total[k] = 0 /\ suppressed[k] = 0
      /\ bus = "idle"
  BY DEF Init
<1>2. ASSUME NEW k \in Kinds PROVE InFlight(k) = 0
  <2>1. {t \in Threads : k \in reporting[t]} = {}
    BY <1>1
  <2> QED BY <2>1, FS_EmptySet DEF InFlight
<1>3. ASSUME NEW k \in Kinds PROVE Adds(k, [n \in 0..0 |-> 0])
  BY <1>1 DEF Adds
<1>4. ASSUME NEW k \in Kinds, NEW acc, Adds(k, acc) PROVE acc[0] = 0
  BY <1>1, <1>4 DEF Adds
<1>5. AccountInv
  BY <1>1, <1>2, <1>3, <1>4 DEF AccountInv
<1> QED BY <1>1, <1>5, ReportAssumption DEF AccountingInv, ReporterInv

\* No occurrence is lost and none is counted twice, whichever threads report and
\* however often: each is in an entry, waits in suppressed, or is in the hands of
\* a thread (RS485Comm::ReportAnomaly counts before it takes the mutex, and folds
\* what it suppresses into the next entry).
THEOREM AccountingHolds == Spec => []Accounting
<1>1. AccountingInv => Accounting
  BY EnteredAdds DEF AccountingInv, AccountInv, Accounting
<1> QED BY <1>1, AccountInit, AccountInductive, TypeInit, TypeInductive, PTL DEF Spec
=============================================================================
