----------------------------- MODULE BusHealth -----------------------------
(***************************************************************************)
(* What the library records of faults: the ring of recent anomalies with   *)
(* its rate limit (RS485Comm::ReportAnomaly, GetRecentAnomalies) and the   *)
(* counters of switch reply chains (the end of ReceiveSwitchStateChain,    *)
(* GetBusHealth).                                                          *)
(*                                                                         *)
(* Any thread may report.  An occurrence is counted before m_anomalyMutex  *)
(* is taken; all the rest of a report, the time read for it included, is   *)
(* under the mutex and one step here, and so is GetRecentAnomalies.  The   *)
(* chain counters are moved by the bus thread and read by the host, one    *)
(* atomic access at a time.                                                *)
(*                                                                         *)
(* Left out: the text of the entries and their wall clock time, and the    *)
(* width of the counters, which take years of traffic to wrap.             *)
(***************************************************************************)
EXTENDS Naturals, Sequences, FiniteSets

CONSTANTS
  Kinds,       \* Anomaly
  ChainMiss,   \* Anomaly::SwitchChainMiss
  Threads,     \* the threads that report anomalies
  Bus,         \* the bus thread
  Size,        \* kAnomalyLogSize
  Interval,    \* kRepeatInterval
  Threshold,   \* RS485_COMM_SWITCH_REPLY_MISS_THRESHOLD
  MaxTime,     \* bound on the time
  MaxEvents    \* bound on the chains and other reports together

ASSUME ReportAssumption ==
  /\ ChainMiss \in Kinds /\ Bus \in Threads /\ IsFiniteSet(Threads)
  /\ Size \in Nat \ {0} /\ Interval \in Nat
ASSUME BoundAssumption ==
  /\ Threshold \in Nat /\ MaxTime \in Nat /\ MaxEvents \in Nat

VARIABLES
  now,         \* the steady clock
  total,       \* AnomalyState::total
  suppressed,  \* AnomalyState::suppressed
  everRecorded,
  lastRecord,
  ring,        \* m_anomalyLog
  head,        \* m_anomalyLogHead
  count,       \* m_anomalyLogCount
  reporting,   \* the kinds each thread has counted and not recorded yet
  bus,         \* where the bus thread is at the end of a chain
  streak,      \* m_switchReplyMisses
  chains,      \* m_switchReplyChainCount
  clean,       \* m_cleanSwitchReplyChainCount
  misses,      \* m_switchReplyMissCount
  resyncs,     \* m_sessionResyncCount
  events,      \* chains and other reports so far, for the bound
  reader,      \* which counter GetBusHealth reads next
  health,      \* the PPUCBusHealth it fills in
  written,     \* history: all entries in their order
  folded       \* history: when the latest suppressed occurrence was

limits   == << suppressed, everRecorded, lastRecord, folded >>
log      == << ring, head, count, written >>
counters == << streak, chains, clean, misses, resyncs >>
reading  == << reader, health >>
vars == << now, total, limits, log, reporting, bus, counters, events, reading >>

Entry == [kind : Kinds, time : 0..MaxTime, repeats : Nat, latest : 0..MaxTime]

NoEntry == [repeats |-> 0]

Fields == {"chains", "clean", "misses", "resyncs"}

TypeOK ==
  /\ now \in 0..MaxTime
  /\ total \in [Kinds -> Nat] /\ suppressed \in [Kinds -> Nat]
  /\ everRecorded \in [Kinds -> BOOLEAN]
  /\ lastRecord \in [Kinds -> 0..MaxTime] /\ folded \in [Kinds -> 0..MaxTime]
  /\ ring \in [0..(Size - 1) -> Entry \cup {NoEntry}]
  /\ head \in 0..(Size - 1) /\ count \in 0..Size
  /\ written \in Seq(Entry)
  /\ reporting \in [Threads -> SUBSET Kinds]
  /\ bus \in {"idle", "clean", "missed", "report", "resync"}
  /\ streak \in Nat /\ chains \in Nat /\ clean \in Nat
  /\ misses \in Nat /\ resyncs \in Nat /\ events \in 0..MaxEvents
  /\ reader \in {"idle"} \cup Fields
  /\ health \in [Fields -> Nat]

Init ==
  /\ now = 0
  /\ total = [k \in Kinds |-> 0] /\ suppressed = total
  /\ everRecorded = [k \in Kinds |-> FALSE]
  /\ lastRecord = [k \in Kinds |-> 0] /\ folded = lastRecord
  /\ ring = [n \in 0..(Size - 1) |-> NoEntry] /\ head = 0 /\ count = 0
  /\ written = << >>
  /\ reporting = [t \in Threads |-> {}]
  /\ bus = "idle" /\ streak = 0
  /\ chains = 0 /\ clean = 0 /\ misses = 0 /\ resyncs = 0 /\ events = 0
  /\ reader = "idle" /\ health = [f \in Fields |-> 0]

Tick ==
  /\ now < MaxTime
  /\ now' = now + 1
  /\ UNCHANGED << total, limits, log, reporting, bus, counters, events, reading >>

----------------------------------------------------------------------------
(* ReportAnomaly.                                                          *)

Count(t, k) ==
  /\ total' = [total EXCEPT ![k] = @ + 1]
  /\ reporting' = [reporting EXCEPT ![t] = {k}]

\* A report of a thread, for any reason but the end of a chain.
ReportAnomaly(t, k) ==
  /\ reporting[t] = {} /\ (t = Bus => bus = "idle")
  /\ events < MaxEvents /\ events' = events + 1
  /\ Count(t, k)
  /\ UNCHANGED << now, limits, log, bus, counters, reading >>

TooSoon(k) == everRecorded[k] /\ now - lastRecord[k] < Interval

\* Mutant: every suppressed occurrence starts the interval again.
SuppressExtends(t, k) ==
  /\ k \in reporting[t] /\ TooSoon(k)
  /\ suppressed' = [suppressed EXCEPT ![k] = @ + 1]
  /\ folded' = [folded EXCEPT ![k] = now]
  /\ lastRecord' = [lastRecord EXCEPT ![k] = now]
  /\ reporting' = [reporting EXCEPT ![t] = {}]
  /\ UNCHANGED << now, total, everRecorded, log, bus, counters, events, reading >>

Suppress(t, k) ==
  /\ k \in reporting[t] /\ TooSoon(k)
  /\ suppressed' = [suppressed EXCEPT ![k] = @ + 1]
  /\ folded' = [folded EXCEPT ![k] = now]
  /\ reporting' = [reporting EXCEPT ![t] = {}]
  /\ UNCHANGED << now, total, everRecorded, lastRecord, log, bus, counters,
                  events, reading >>

\* Mutant: the number of entries held does not stop at the size of the ring.
RecordPastEnd(t, k) ==
  /\ k \in reporting[t] /\ ~TooSoon(k)
  /\ LET entry == [kind |-> k, time |-> now, repeats |-> suppressed[k],
                   latest |-> folded[k]]
     IN  /\ ring' = [ring EXCEPT ![head] = entry]
         /\ written' = Append(written, entry)
  /\ head' = (head + 1) % Size
  /\ count' = count + 1
  /\ suppressed' = [suppressed EXCEPT ![k] = 0]
  /\ lastRecord' = [lastRecord EXCEPT ![k] = now]
  /\ everRecorded' = [everRecorded EXCEPT ![k] = TRUE]
  /\ reporting' = [reporting EXCEPT ![t] = {}]
  /\ UNCHANGED << now, total, folded, bus, counters, events, reading >>

\* Mutant: the repeats are not taken off.
RecordKeepsSuppressed(t, k) ==
  /\ k \in reporting[t] /\ ~TooSoon(k)
  /\ LET entry == [kind |-> k, time |-> now, repeats |-> suppressed[k],
                   latest |-> folded[k]]
     IN  /\ ring' = [ring EXCEPT ![head] = entry]
         /\ written' = Append(written, entry)
  /\ head' = (head + 1) % Size
  /\ count' = IF count < Size THEN count + 1 ELSE count
  /\ lastRecord' = [lastRecord EXCEPT ![k] = now]
  /\ everRecorded' = [everRecorded EXCEPT ![k] = TRUE]
  /\ reporting' = [reporting EXCEPT ![t] = {}]
  /\ UNCHANGED << now, total, suppressed, folded, bus, counters,
                  events, reading >>

Record(t, k) ==
  /\ k \in reporting[t] /\ ~TooSoon(k)
  /\ LET entry == [kind |-> k, time |-> now, repeats |-> suppressed[k],
                   latest |-> folded[k]]
     IN  /\ ring' = [ring EXCEPT ![head] = entry]
         /\ written' = Append(written, entry)
  /\ head' = (head + 1) % Size
  /\ count' = IF count < Size THEN count + 1 ELSE count
  /\ suppressed' = [suppressed EXCEPT ![k] = 0]
  /\ lastRecord' = [lastRecord EXCEPT ![k] = now]
  /\ everRecorded' = [everRecorded EXCEPT ![k] = TRUE]
  /\ reporting' = [reporting EXCEPT ![t] = {}]
  /\ UNCHANGED << now, total, folded, bus, counters, events, reading >>

\* Mutant: the ring is read from its first slot.
RecentFromFirst == [n \in 1..count |-> ring[n - 1]]

\* The entries GetRecentAnomalies returns.
Recent ==
  LET start == IF count = Size THEN head ELSE 0
  IN  [n \in 1..count |-> ring[(start + n - 1) % Size]]

----------------------------------------------------------------------------
(* The end of ReceiveSwitchStateChain, on the bus thread.                  *)

ChainEnds ==
  /\ bus = "idle" /\ reporting[Bus] = {}
  /\ events < MaxEvents /\ events' = events + 1
  /\ chains' = chains + 1
  /\ bus' \in {"clean", "missed"}
  /\ UNCHANGED << now, total, limits, log, reporting, streak, clean, misses,
                  resyncs, reading >>

ChainClean ==
  /\ bus = "clean"
  /\ bus' = "idle" /\ streak' = 0 /\ clean' = clean + 1
  /\ UNCHANGED << now, total, limits, log, reporting, chains, misses, resyncs,
                  events, reading >>

ChainMissed ==
  /\ bus = "missed"
  /\ bus' = "report" /\ streak' = streak + 1 /\ misses' = misses + 1
  /\ UNCHANGED << now, total, limits, log, reporting, chains, clean, resyncs,
                  events, reading >>

ReportMiss ==
  /\ bus = "report"
  /\ bus' = "resync"
  /\ Count(Bus, ChainMiss)
  /\ UNCHANGED << now, limits, log, counters, events, reading >>

CountResync ==
  /\ bus = "resync" /\ reporting[Bus] = {}
  /\ bus' = "idle"
  /\ resyncs' = IF streak >= Threshold THEN resyncs + 1 ELSE resyncs
  /\ UNCHANGED << now, total, limits, log, reporting, streak, chains, clean,
                  misses, events, reading >>

----------------------------------------------------------------------------
(* GetBusHealth, on the host's thread.                                     *)

\* Mutant: the chains are read last.
AfterChainsLast(f) ==
  CASE f = "idle"    -> "clean"
    [] f = "clean"   -> "misses"
    [] f = "misses"  -> "resyncs"
    [] f = "resyncs" -> "chains"
    [] OTHER         -> "idle"

After(f) ==
  CASE f = "idle"    -> "chains"
    [] f = "chains"  -> "clean"
    [] f = "clean"   -> "misses"
    [] f = "misses"  -> "resyncs"
    [] OTHER         -> "idle"

Counter(f) ==
  CASE f = "chains"  -> chains
    [] f = "clean"   -> clean
    [] f = "misses"  -> misses
    [] f = "resyncs" -> resyncs

BeginGetBusHealth ==
  /\ reader = "idle"
  /\ reader' = After(reader) /\ health' = [f \in Fields |-> 0]
  /\ UNCHANGED << now, total, limits, log, reporting, bus, counters, events >>

ReadCounter ==
  /\ reader \in Fields
  /\ health' = [health EXCEPT ![reader] = Counter(reader)]
  /\ reader' = After(reader)
  /\ UNCHANGED << now, total, limits, log, reporting, bus, counters, events >>

----------------------------------------------------------------------------
Next ==
  \/ Tick
  \/ \E t \in Threads, k \in Kinds :
       ReportAnomaly(t, k) \/ Suppress(t, k) \/ Record(t, k)
  \/ ChainEnds \/ ChainClean \/ ChainMissed \/ ReportMiss \/ CountResync
  \/ BeginGetBusHealth \/ ReadCounter

Spec == Init /\ [][Next]_vars

----------------------------------------------------------------------------
(* Properties.                                                             *)

\* The threads that have counted an occurrence and not yet recorded it.
InFlight(k) == Cardinality({t \in Threads : k \in reporting[t]})

\* The occurrences that the entries of a kind stand for.
Entered(k) ==
  LET sum[n \in 0..Len(written)] ==
        IF n = 0 THEN 0
        ELSE sum[n - 1] + IF written[n].kind = k THEN 1 + written[n].repeats ELSE 0
  IN  sum[Len(written)]

\* Repeats are folded, never lost ("repeats are counted and folded into the
\* next entry"): every occurrence counted is in an entry, waiting in suppressed,
\* or in a thread about to record it.
Accounting ==
  \A k \in Kinds : total[k] = InFlight(k) + suppressed[k] + Entered(k)

\* GetRecentAnomalies returns the newest entries, oldest first, as many as the
\* ring can hold.
RecentIsTail ==
  /\ count = (IF Len(written) < Size THEN Len(written) ELSE Size)
  /\ Recent = SubSeq(written, Len(written) - count + 1, Len(written))

\* One kind gets an entry per interval at most, whichever threads report it; and
\* the repeats an entry speaks of ("+N more in the last 5s") happened within an
\* interval of the entry before it of its kind, however long ago that was.
OncePerInterval ==
  \A m, n \in DOMAIN written :
    m < n /\ written[m].kind = written[n].kind =>
      /\ written[n].time - written[m].time >= Interval
      /\ written[n].repeats > 0 /\
         (\A l \in (m + 1)..(n - 1) : written[l].kind # written[n].kind)
           => /\ written[n].latest >= written[m].time
              /\ written[n].latest - written[m].time < Interval

\* "The first occurrence is recorded immediately, so nothing is missed
\* entirely": a kind with a folded occurrence has an entry.
FirstIsRecorded ==
  \A k \in Kinds :
    suppressed[k] > 0 => \E n \in DOMAIN written : written[n].kind = k

\* Kinds are limited one by one: no kind is written too often, and none is
\* suppressed for another.
RateLimited == OncePerInterval /\ FirstIsRecorded

\* What GetBusHealth returns was never true at one moment, but the chains it
\* shows are accounted for as clean or missed, except for the one that may have
\* been ending.
HealthAddsUp ==
  reader = "idle" => health["chains"] <= health["clean"] + health["misses"] + 1
=============================================================================
