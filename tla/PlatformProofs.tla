---------------------------- MODULE PlatformProofs ----------------------------
(***************************************************************************)
(* Proofs about Platform, for any number of threads, callers, workers and  *)
(* consumers and every setting: each part keeps its types and its          *)
(* promises.  A part that does not run stays as it began, so the invariant *)
(* is the conjunction of those of the parts, with no mention of the part   *)
(* that runs.                                                              *)
(***************************************************************************)
EXTENDS Platform, DataTheorems, SequenceTheorems, TLAPS

(* The parts that use lists see them as DataTheorems does. *)
LEMMA SameLists ==
  \A list, set : /\ O!retained(list, set) = retained(list, set)
                 /\ M!retained(list, set) = retained(list, set)
                 /\ C!retained(list, set) = retained(list, set)
                 /\ N!retained(list, set) = retained(list, set)
                 /\ N!sorted(list, set) = sorted(list, set)
<1>1. \A set : /\ O!Cardinality(set) = Cardinality(set) /\ M!Cardinality(set) = Cardinality(set)
               /\ C!Cardinality(set) = Cardinality(set) /\ N!Cardinality(set) = Cardinality(set)
  BY DEF O!Cardinality, O!IsFiniteSet, M!Cardinality, M!IsFiniteSet, C!Cardinality, C!IsFiniteSet,
         N!Cardinality, N!IsFiniteSet, Cardinality, IsFiniteSet
<1>2. \A set, n : /\ O!nth(set, n) = nth(set, n) /\ M!nth(set, n) = nth(set, n)
                  /\ C!nth(set, n) = nth(set, n) /\ N!nth(set, n) = nth(set, n)
  BY <1>1 DEF O!nth, M!nth, C!nth, N!nth, nth
<1>3. \A list, set : O!retained(list, set) = retained(list, set) /\ M!retained(list, set) = retained(list, set)
  BY <1>1, <1>2 DEF O!retained, M!retained, retained
<1>4. \A list, set : C!retained(list, set) = retained(list, set) /\ N!retained(list, set) = retained(list, set)
  BY <1>1, <1>2 DEF C!retained, N!retained, retained
<1>5. \A list, set, i : N!place(list, set, i) = place(list, set, i)
  BY <1>1 DEF N!place, N!ahead, place, ahead
<1>6. \A list, set, n : N!at_place(list, set, n) = at_place(list, set, n)
  <2> TAKE list, set, n
  <2>1. \A i : i \in DOMAIN list /\ N!place(list, set, i) = n <=> i \in DOMAIN list /\ place(list, set, i) = n
    BY <1>5
  <2>2. QED
    BY <2>1 DEF N!at_place, at_place
<1>7. \A list, set : N!sorted(list, set) = sorted(list, set)
  BY <1>6 DEF N!sorted, sorted
<1>8. QED
  BY <1>3, <1>4, <1>7

(***************************************************************************)
(* The gas optimizer.  A sample that is awaited carries the time of the    *)
(* last update, all others are older; the time of an entry of the cache is *)
(* at most the clock, so the age of one from the future wraps far above    *)
(* what the cache allows.                                                  *)
(***************************************************************************)
GasInv ==
  /\ O!TypeOK /\ go_last <= go_now
  /\ go_sampling # -1 => go_sampling = go_last /\ go_last >= 1
  /\ \A i, j \in DOMAIN go_history : i < j => go_history[i][1] < go_history[j][1]
  /\ \A i \in DOMAIN go_history : /\ go_last - go_history[i][1] <= GasWindow /\ go_history[i][1] <= go_last
                                  /\ go_sampling # -1 => go_history[i][1] < go_last
  /\ go_cache.at = -1 => go_cache = O!NoData
  /\ go_call.pc # "idle" => 1 <= go_call.start /\ go_call.start <= go_now
  /\ O!AnswersFresh

(* A quotient of naturals is a natural. *)
LEMMA Quotient == \A x \in Nat : \A y \in Nat \ {0} : x \div y \in Nat
OBVIOUS

(* The sum behind the averages, over the list of the parts. *)
LEMMA GasTotal ==
  ASSUME NEW n \in Nat, NEW ns \in [1 .. n -> Nat]
  PROVE  O!total(ns) \in Nat
<1>1. O!total(ns) = FoldOver(ns, DOMAIN ns)[DOMAIN ns]
  BY DEF O!total, O!FoldSeq, O!FoldFunction, O!FoldFunctionOnSet, O!MapThenFoldSet, FoldOver, Level, Chosen
<1>2. IsFiniteSet(DOMAIN ns) /\ \A i \in DOMAIN ns : ns[i] \in Nat
  <2>1. IsFiniteSet(1 .. n)
    BY FS_Interval
  <2>2. QED
    BY <2>1
<1>3. SumFunctionOnSet(ns, DOMAIN ns) \in Nat
  BY <1>2, SumNat
<1>4. QED
  BY <1>1, <1>3, SumIsFold

(* The smallest of a set of naturals, for the parts that use Min. *)
LEMMA GasMin ==
  ASSUME NEW T \in SUBSET Nat, T # {}
  PROVE  O!Min(T) \in T /\ \A k \in T : O!Min(T) <= k
BY NatMin DEF O!Min

(* Whatever the samples, there is one level of congestion. *)
LEMMA GasCongestion ==
  ASSUME NEW hist \in Seq((1 .. LastSecond) \X GasPrices), NEW old \in O!Congestion
  PROVE  O!update_network_congestion(hist, old) \in O!Congestion
<1>1. CASE Len(hist) < 2
  BY <1>1 DEF O!update_network_congestion
<1>2. CASE ~(Len(hist) < 2)
  <2> DEFINE latest == O!recent(hist)
  <2>1. Len(hist) \in Nat /\ Len(hist) >= 2
    BY <1>2
  <2>2. PICK n \in Nat : n = O!Min({10, Len(hist)}) /\ n <= Len(hist) /\ n >= 2
    <3>1. {10, Len(hist)} \in SUBSET Nat /\ {10, Len(hist)} # {}
      BY <2>1
    <3>2. O!Min({10, Len(hist)}) \in {10, Len(hist)} /\ O!Min({10, Len(hist)}) <= Len(hist)
      BY <3>1, GasMin
    <3>3. QED
      BY <2>1, <3>2
  <2>3. latest \in [1 .. n -> (1 .. LastSecond) \X GasPrices] /\ Len(latest) = n
    <3>1. O!Reverse(hist) = [i \in 1 .. Len(hist) |-> hist[(Len(hist) - i) + 1]]
      BY DEF O!Reverse
    <3>2. \A i \in 1 .. Len(hist) : hist[(Len(hist) - i) + 1] \in (1 .. LastSecond) \X GasPrices
      <4> SUFFICES ASSUME NEW i \in 1 .. Len(hist)
                   PROVE  hist[(Len(hist) - i) + 1] \in (1 .. LastSecond) \X GasPrices
        OBVIOUS
      <4>1. (Len(hist) - i) + 1 \in 1 .. Len(hist)
        BY <2>1
      <4>2. QED
        BY <4>1
    <3>3. O!Reverse(hist) \in Seq((1 .. LastSecond) \X GasPrices) /\ Len(O!Reverse(hist)) = Len(hist)
      BY <2>1, <3>1, <3>2
    <3>4. latest = SubSeq(O!Reverse(hist), 1, n)
      BY <2>2 DEF O!recent
    <3>5. SubSeq(O!Reverse(hist), 1, n) \in Seq((1 .. LastSecond) \X GasPrices) /\ Len(SubSeq(O!Reverse(hist), 1, n)) = n
      <4>1. 1 \in 1 .. Len(O!Reverse(hist)) + 1 /\ n \in 1 - 1 .. Len(O!Reverse(hist)) /\ n - 1 + 1 = n
        BY <2>1, <2>2, <3>3
      <4>2. QED
        BY <3>3, <4>1, SubSeqProperties
    <3>6. \A s \in Seq((1 .. LastSecond) \X GasPrices) : s \in [1 .. Len(s) -> (1 .. LastSecond) \X GasPrices]
      OBVIOUS
    <3>7. QED
      BY <3>4, <3>5, <3>6
  <2> HIDE DEF latest
  <2>4. \A i \in 1 .. n : latest[i][2] \in Nat
    BY <2>3, GasNumbers
  <2>5. O!growth_rate(latest) \in Int
    <3>1. CASE Len(latest) >= 5 /\ latest[5][2] > 0 /\ latest[1][2] > latest[5][2]
      <4>1. latest[5][2] \in Nat \ {0} /\ latest[1][2] \in Nat
        BY <2>3, <2>4, <3>1
      <4>2. O!growth_rate(latest) = ((latest[1][2] - latest[5][2]) * 100) \div latest[5][2]
        BY <3>1 DEF O!growth_rate
      <4>3. QED
        BY <4>1, <4>2
    <3>2. CASE ~(Len(latest) >= 5 /\ latest[5][2] > 0 /\ latest[1][2] > latest[5][2])
      BY <3>2 DEF O!growth_rate
    <3>3. QED
      BY <3>1, <3>2
  <2>6. O!average(latest) \in Nat
    <3>1. PICK ns : ns = [i \in 1 .. n |-> latest[i][2]]
      OBVIOUS
    <3>2. ns \in [1 .. n -> Nat]
      BY <2>4, <3>1
    <3>3. O!average(latest) = O!total(ns) \div n
      BY <2>3, <3>1 DEF O!average
    <3>4. O!total(ns) \in Nat
      BY <3>2, GasTotal
    <3>5. QED
      BY <2>2, <3>3, <3>4, Quotient
  <2>7. O!variance_percent(latest) \in Int
    <3> DEFINE avg == O!average(latest)
               off(p) == IF p > avg THEN p - avg ELSE avg - p
    <3>1. PICK ns : ns = [i \in 1 .. n |-> off(latest[i][2])]
      OBVIOUS
    <3>2. ns \in [1 .. n -> Nat]
      BY <2>4, <2>6, <3>1
    <3>3. O!variance_percent(latest) = IF avg = 0 THEN 0 ELSE ((O!total(ns) \div n) * 100) \div avg
      BY <2>3, <3>1 DEF O!variance_percent
    <3>4. O!total(ns) \div n \in Nat
      <4>1. O!total(ns) \in Nat
        BY <3>2, GasTotal
      <4>2. QED
        BY <2>2, <4>1, Quotient
    <3> HIDE DEF avg, off
    <3>5. avg \in Nat
      BY <2>6 DEF avg
    <3>6. QED
      BY <3>3, <3>4, <3>5
  <2>8. O!growth_rate(O!recent(hist)) \in Int /\ O!variance_percent(O!recent(hist)) \in Int
    BY <2>5, <2>7 DEF latest
  <2>9. PICK g \in Int, v \in Int : g = O!growth_rate(O!recent(hist)) /\ v = O!variance_percent(O!recent(hist))
    BY <2>8
  <2>10. CASE g > 20 \/ v > 30
    BY <2>1, <2>9, <2>10 DEF O!update_network_congestion, O!Congestion
  <2>11. CASE g <= 20 /\ v \in 16 .. 30
    BY <2>1, <2>9, <2>11 DEF O!update_network_congestion, O!Congestion
  <2>12. CASE g \in 11 .. 20 /\ v <= 15
    BY <2>1, <2>9, <2>12 DEF O!update_network_congestion, O!Congestion
  <2>13. CASE g <= 10 /\ v <= 15
    BY <2>1, <2>9, <2>13 DEF O!update_network_congestion, O!Congestion
  <2>14. QED
    BY <2>10, <2>11, <2>12, <2>13
<1>3. QED
  BY <1>1, <1>2

LEMMA GasInit == O!Init => GasInv
<1> SUFFICES ASSUME O!Init PROVE GasInv
  OBVIOUS
<1>1. O!TypeOK
  BY GasNumbers DEF O!Init, O!with_config, O!TypeOK, O!Congestion, O!CachedGasData, O!NoData, O!NoCall
<1>2. QED
  BY <1>1 DEF O!Init, O!with_config, GasInv, O!NoData, O!NoCall, O!AnswersFresh

(* A sample begins: older prices leave the history. *)
LEMMA GasBegins ==
  ASSUME GasInv, O!begin_sample
  PROVE  GasInv'
<1> DEFINE Stamp == (1 .. LastSecond) \X GasPrices
           young == {s \in Stamp : go_now - s[1] <= GasWindow}
<1>1. /\ go_sampling = -1 /\ go_now - go_last >= go_interval /\ go_sampling' = go_now /\ go_last' = go_now
      /\ UNCHANGED <<go_now, go_congestion, go_interval, go_cache, go_call>>
  BY DEF O!begin_sample
<1>2. go_history' = retained(go_history, young)
  BY SameLists DEF O!begin_sample
<1>3. go_now \in 1 .. LastSecond /\ go_last \in Nat /\ go_last < go_now
  BY <1>1, GasNumbers DEF GasInv, O!TypeOK
<1>4. go_history \in Seq(Stamp)
  BY DEF GasInv, O!TypeOK
<1> HIDE DEF young, Stamp
<1>5. go_history' \in Seq(Stamp)
  BY <1>2, <1>4, Retained
<1>6. PICK p \in [DOMAIN go_history' -> DOMAIN go_history] :
        /\ \A n \in DOMAIN go_history' : go_history'[n] = go_history[p[n]] /\ go_history'[n] \in young
        /\ \A m, n \in DOMAIN go_history' : m < n => p[m] < p[n]
  BY <1>2, <1>4, Retained
<1>7. \A n \in DOMAIN go_history' : p[n] \in DOMAIN go_history
  OBVIOUS
<1>8. \A m, n \in DOMAIN go_history' : m < n => go_history'[m][1] < go_history'[n][1]
  BY <1>6, <1>7 DEF GasInv
<1>9. \A n \in DOMAIN go_history' : go_history'[n][1] <= go_last
  BY <1>6, <1>7 DEF GasInv
<1>10. \A n \in DOMAIN go_history' : go_now - go_history'[n][1] <= GasWindow /\ go_history'[n][1] \in 1 .. LastSecond
  BY <1>6 DEF young, Stamp
<1>11. \A n \in DOMAIN go_history' : go_history'[n][1] < go_now /\ go_history'[n][1] <= go_now
  BY <1>3, <1>9, <1>10
<1>12. O!TypeOK'
  BY <1>1, <1>3, <1>5 DEF GasInv, O!TypeOK, Stamp
<1>13. O!AnswersFresh' /\ (go_cache.at = -1 => go_cache = O!NoData)'
  BY <1>1 DEF GasInv, O!AnswersFresh, O!NoData
<1>14. (go_call.pc # "idle" => 1 <= go_call.start /\ go_call.start <= go_now)' /\ go_last' <= go_now'
  BY <1>1, <1>3 DEF GasInv
<1>16. go_last' >= 1
  BY <1>1, <1>3
<1>15. QED
  BY <1>1, <1>8, <1>10, <1>11, <1>12, <1>13, <1>14, <1>16 DEF GasInv

(* The answer of a sample is the newest of the history. *)
LEMMA GasEnds ==
  ASSUME GasInv, O!end_sample
  PROVE  GasInv'
<1> DEFINE Stamp == (1 .. LastSecond) \X GasPrices
<1>1. PICK price \in GasPrices :
        /\ go_history' = Append(go_history, <<go_sampling, price>>)
        /\ go_congestion' = O!update_network_congestion(go_history', go_congestion)
        /\ go_cache' = [at |-> go_now, congestion |-> go_congestion']
  BY DEF O!end_sample
<1>2. /\ go_sampling # -1 /\ go_sampling' = -1
      /\ UNCHANGED <<go_now, go_last, go_interval, go_call>>
  BY DEF O!end_sample
<1>3. go_now \in 1 .. LastSecond /\ go_last \in 0 .. LastSecond /\ go_sampling = go_last
  BY <1>2 DEF GasInv, O!TypeOK
<1>5. go_last >= 1
  BY <1>2 DEF GasInv
<1>4. QED
  <2>1. <<go_sampling, price>> \in Stamp
    BY <1>3, <1>5
  <2>2. go_history \in Seq(Stamp) /\ \A i \in DOMAIN go_history : go_history[i] \in Stamp
    BY DEF GasInv, O!TypeOK
  <2>3. go_history' \in Seq(Stamp) /\ go_congestion' \in O!Congestion
    <3>1. go_history' \in Seq(Stamp) /\ go_congestion \in O!Congestion
      BY <1>1, <2>1, <2>2 DEF GasInv, O!TypeOK
    <3>2. QED
      BY <1>1, <3>1, GasCongestion
  <2>4. /\ DOMAIN go_history = 1 .. Len(go_history) /\ Len(go_history) \in Nat
        /\ DOMAIN go_history' = 1 .. Len(go_history) + 1
        /\ go_history'[Len(go_history) + 1] = <<go_sampling, price>>
        /\ \A i \in DOMAIN go_history : go_history'[i] = go_history[i]
    BY <1>1, <2>1, <2>2
  <2>5. \A i \in DOMAIN go_history : go_history[i][1] < go_last /\ go_last - go_history[i][1] <= GasWindow
    BY <1>2 DEF GasInv
  <2>6. \A i \in DOMAIN go_history' :
           go_last - go_history'[i][1] <= GasWindow /\ go_history'[i][1] <= go_last
    <3> SUFFICES ASSUME NEW i \in DOMAIN go_history'
                 PROVE  go_last - go_history'[i][1] <= GasWindow /\ go_history'[i][1] <= go_last
      OBVIOUS
    <3>1. CASE i = Len(go_history) + 1
      BY <1>3, <2>4, <3>1, GasNumbers
    <3>2. CASE i \in DOMAIN go_history
      <4>1. go_history[i][1] \in Int
        BY <2>2, <3>2
      <4>2. QED
        BY <1>3, <2>4, <2>5, <3>2, <4>1
    <3>3. QED
      BY <2>4, <3>1, <3>2
  <2>7. \A i, j \in DOMAIN go_history' : i < j => go_history'[i][1] < go_history'[j][1]
    <3> SUFFICES ASSUME NEW i \in DOMAIN go_history', NEW j \in DOMAIN go_history', i < j
                 PROVE  go_history'[i][1] < go_history'[j][1]
      OBVIOUS
    <3>1. i \in DOMAIN go_history
      BY <2>4
    <3>2. CASE j = Len(go_history) + 1
      BY <1>3, <2>4, <2>5, <3>1, <3>2
    <3>3. CASE j \in DOMAIN go_history
      BY <2>4, <3>1, <3>3 DEF GasInv
    <3>4. QED
      BY <2>4, <3>2, <3>3
  <2>8. go_cache'.at = go_now /\ go_cache'.congestion = go_congestion' /\ go_cache' \in O!CachedGasData
    BY <1>1, <1>3, <2>3 DEF O!CachedGasData
  <2>9. O!TypeOK'
    BY <1>2, <1>3, <2>3, <2>8, GasNumbers DEF GasInv, O!TypeOK
  <2>10. O!AnswersFresh' /\ (go_cache.at = -1 => go_cache = O!NoData)'
    BY <1>2, <1>3, <2>8 DEF GasInv, O!AnswersFresh
  <2>11. QED
    BY <1>2, <1>3, <2>6, <2>7, <2>9, <2>10 DEF GasInv

LEMMA GasStep == GasInv /\ [O!Next]_gasVars => GasInv'
<1> SUFFICES ASSUME GasInv, [O!Next]_gasVars
             PROVE  GasInv'
  OBVIOUS
<1>1. CASE UNCHANGED gasVars
  BY <1>1 DEF gasVars, GasInv, O!TypeOK, O!AnswersFresh, O!CachedGasData, O!NoData
<1>2. CASE O!tick \/ O!fail_sample \/ O!set_sample_interval
  <2>1. /\ go_now <= go_now' /\ go_now' \in 1 .. LastSecond /\ go_interval' \in Intervals
        /\ go_sampling' \in {-1, go_sampling} /\ go_sampling' \in -1 .. LastSecond
        /\ UNCHANGED <<go_history, go_last, go_congestion, go_cache, go_call>>
    BY <1>2, GasNumbers DEF O!tick, O!fail_sample, O!set_sample_interval, O!samplerVars, GasInv, O!TypeOK
  <2>2. O!TypeOK'
    BY <2>1 DEF GasInv, O!TypeOK
  <2>3. go_last <= go_now'
    BY <2>1, GasNumbers DEF GasInv, O!TypeOK
  <2>4. go_call.pc # "idle" => 1 <= go_call.start /\ go_call.start <= go_now'
    <3>1. go_call.start \in Int /\ go_now \in Int /\ go_now' \in Int
      BY <2>1, GasNumbers DEF GasInv, O!TypeOK
    <3>2. QED
      BY <2>1, <3>1 DEF GasInv
  <2>5. O!AnswersFresh' /\ (go_cache.at = -1 => go_cache = O!NoData)'
    BY <2>1 DEF GasInv, O!AnswersFresh, O!NoData
  <2>6. QED
    BY <2>1, <2>2, <2>3, <2>4, <2>5 DEF GasInv
<1>3. CASE O!call_begin \/ O!lookup \/ O!call_returns
  <2>1. UNCHANGED <<go_now, go_history, go_last, go_congestion, go_sampling, go_interval, go_cache>>
    BY <1>3 DEF O!call_begin, O!lookup, O!call_returns, O!samplerVars
  <2>2. go_now \in 1 .. LastSecond /\ go_cache.at \in -1 .. LastSecond /\ go_cache.congestion \in O!Congestion
    BY DEF GasInv, O!TypeOK, O!CachedGasData
  <2>3. /\ go_call'.pc \in {"idle", "lookup", "asking", "done"} /\ go_call' \in [pc : {"idle", "lookup", "asking", "done"}, start : -1 .. LastSecond, answer : -1 .. LastSecond]
        /\ go_call'.pc # "idle" => 1 <= go_call'.start /\ go_call'.start <= go_now
        /\ O!AnswersFresh'
    <3>1. CASE O!call_begin
      <4>1. go_call' = [pc |-> "lookup", start |-> go_now, answer |-> -1]
        BY <3>1 DEF O!call_begin, O!NoCall
      <4>2. go_now \in -1 .. LastSecond /\ -1 \in -1 .. LastSecond
        BY <2>2, GasNumbers
      <4>3. QED
        BY <2>2, <4>1, <4>2 DEF O!AnswersFresh
    <3>2. CASE O!call_returns
      BY <2>2, <3>2, GasNumbers DEF O!call_returns, O!NoCall, O!AnswersFresh
    <3>3. CASE O!lookup
      <4>1. /\ go_call.pc = "lookup" /\ 1 <= go_call.start /\ go_call.start <= go_now
            /\ go_call \in [pc : {"idle", "lookup", "asking", "done"}, start : -1 .. LastSecond, answer : -1 .. LastSecond]
        BY <3>3 DEF O!lookup, GasInv, O!TypeOK
      <4>2. CASE O!is_fresh(go_call.start, go_cache)
        <5>1. go_call' = [go_call EXCEPT !.pc = "done", !.answer = go_cache.at]
          BY <3>3, <4>2 DEF O!lookup
        <5>2. go_cache # O!NoData /\ (go_call.start - go_cache.at) % 2^20 < GasTtl
          BY <4>2 DEF O!is_fresh, O!age
        <5>3. go_cache.at # -1
          BY <5>2 DEF GasInv
        <5>4. PICK start \in 1 .. LastSecond, at \in 0 .. LastSecond : start = go_call.start /\ at = go_cache.at
          BY <2>2, <4>1, <5>3, GasNumbers
        <5>5. at <= start
          <6>1. SUFFICES ASSUME at > start PROVE FALSE
            BY <5>4, GasNumbers
          <6>2. start - at \in -LastSecond .. -1
            BY <5>4, <6>1, GasNumbers
          <6>3. (start - at) % 1048576 = 1048576 + (start - at)
            BY <6>2, GasNumbers
          <6>4. QED
            BY <5>2, <5>4, <6>2, <6>3, GasNumbers
        <5>6. start - at < GasTtl
          <6>1. start - at \in 0 .. LastSecond
            BY <5>4, <5>5, GasNumbers
          <6>2. (start - at) % 1048576 = start - at
            BY <6>1, GasNumbers
          <6>3. QED
            BY <5>2, <5>4, <6>2
        <5>7. QED
          BY <2>2, <4>1, <5>1, <5>4, <5>5, <5>6 DEF O!AnswersFresh
      <4>3. CASE ~O!is_fresh(go_call.start, go_cache)
        BY <3>3, <4>1, <4>3 DEF O!lookup, O!AnswersFresh
      <4>4. QED
        BY <4>2, <4>3
    <3>4. QED
      BY <1>3, <3>1, <3>2, <3>3
  <2>4. O!TypeOK'
    BY <2>1, <2>3 DEF GasInv, O!TypeOK
  <2>5. QED
    BY <2>1, <2>3, <2>4 DEF GasInv, O!NoData
<1>4. CASE O!get_cached_gas_data \/ O!get_current_gas_price
  <2>1. PICK level \in O!Congestion : O!asked(level)
    BY <1>4 DEF O!get_cached_gas_data, O!get_current_gas_price, O!Congestion, GasInv, O!TypeOK
  <2>2. /\ go_call.pc = "asking" /\ 1 <= go_call.start /\ go_call.start <= go_now /\ go_now \in 1 .. LastSecond
        /\ go_call \in [pc : {"idle", "lookup", "asking", "done"}, start : -1 .. LastSecond, answer : -1 .. LastSecond]
    BY <2>1 DEF O!asked, GasInv, O!TypeOK
  <2>3. /\ go_cache' = [at |-> go_call.start, congestion |-> level]
        /\ go_call' = [go_call EXCEPT !.pc = "done", !.answer = go_call.start]
        /\ UNCHANGED <<go_now, go_history, go_last, go_congestion, go_sampling, go_interval>>
    BY <2>1 DEF O!asked, O!samplerVars
  <2>4. go_cache' \in O!CachedGasData /\ go_cache'.at # -1
    BY <2>2, <2>3, GasNumbers DEF O!CachedGasData
  <2>5. /\ go_call' \in [pc : {"idle", "lookup", "asking", "done"}, start : -1 .. LastSecond, answer : -1 .. LastSecond]
        /\ 1 <= go_call'.start /\ go_call'.start <= go_now /\ O!AnswersFresh'
    <3>1. /\ go_call'.pc = "done" /\ go_call'.start = go_call.start /\ go_call'.answer = go_call.start
          /\ go_call' \in [pc : {"idle", "lookup", "asking", "done"}, start : -1 .. LastSecond, answer : -1 .. LastSecond]
      BY <2>2, <2>3
    <3>2. go_call.start \in Int /\ go_call.start - go_call.start = 0 /\ 0 < GasTtl
      BY <2>2, GasNumbers
    <3>3. QED
      BY <2>2, <3>1, <3>2 DEF O!AnswersFresh
  <2>6. O!TypeOK'
    BY <2>3, <2>4, <2>5 DEF GasInv, O!TypeOK
  <2>7. QED
    BY <2>3, <2>4, <2>5, <2>6 DEF GasInv
<1>5. CASE O!cleanup_gas_cache
  <2>1. go_cache' = O!NoData /\ O!NoData \in O!CachedGasData
    BY <1>5, GasNumbers DEF O!cleanup_gas_cache, O!NoData, O!CachedGasData, O!Congestion
  <2>2. UNCHANGED <<go_now, go_history, go_last, go_congestion, go_sampling, go_interval, go_call>>
    BY <1>5 DEF O!cleanup_gas_cache, O!samplerVars
  <2>3. O!TypeOK' /\ O!AnswersFresh'
    BY <2>1, <2>2 DEF GasInv, O!TypeOK, O!AnswersFresh
  <2>4. QED
    BY <2>1, <2>2, <2>3 DEF GasInv, O!NoData
<1>6. QED
  BY <1>1, <1>2, <1>3, <1>4, <1>5, GasBegins, GasEnds DEF O!Next

(* What the invariant says of the prices that are offered. *)
LEMMA GasMeans == GasInv => O!HistoryInWindow /\ O!AnswersFresh /\ O!RetriesClimbToLimit /\ O!FeesConsistent
<1> SUFFICES ASSUME GasInv
             PROVE  O!HistoryInWindow /\ O!AnswersFresh /\ O!RetriesClimbToLimit /\ O!FeesConsistent
  OBVIOUS
<1>1. O!HistoryInWindow
  <2>1. \A i \in 1 .. Len(go_history) - 1 : i \in DOMAIN go_history /\ i + 1 \in DOMAIN go_history /\ i < i + 1
    BY DEF GasInv, O!TypeOK
  <2>2. QED
    BY <2>1 DEF GasInv, O!HistoryInWindow
<1>2. O!RetriesClimbToLimit
  <2> DEFINE last == IF go_history = <<>> THEN O!Min(GasPrices) ELSE go_history[Len(go_history)][2]
  <2>1. PICK price \in Nat : price = last
    <3>1. O!Min(GasPrices) \in Nat
      BY GasMin, GasNumbers
    <3>2. ASSUME go_history # <<>>
          PROVE  go_history[Len(go_history)][2] \in Nat
      <4>1. go_history \in Seq((1 .. LastSecond) \X GasPrices)
        BY DEF GasInv, O!TypeOK
      <4>2. Len(go_history) \in DOMAIN go_history
        BY <3>2, <4>1
      <4>3. go_history[Len(go_history)] \in (1 .. LastSecond) \X GasPrices
        BY <4>1, <4>2
      <4>4. QED
        BY <4>3, GasNumbers
    <3>3. QED
      BY <3>1, <3>2
  <2>2. SUFFICES ASSUME NEW cap \in Nat, NEW r \in Nat
                 PROVE  /\ O!get_optimized_gas_price(cap, r + 1, price) <= cap
                        /\ price <= cap => O!get_optimized_gas_price(cap, r, price) <= O!get_optimized_gas_price(cap, r + 1, price)
                        /\ O!get_optimized_gas_limit(r, price) <= O!get_optimized_gas_limit(r + 1, price)
    BY <2>1, GasNumbers DEF O!RetriesClimbToLimit
  <2>3. r = 0 \/ r = 1 \/ r = 2 \/ r = 3 \/ r > 3
    OBVIOUS
  <2>4. O!get_optimized_gas_price(cap, r + 1, price) <= cap
    BY <2>3 DEF O!get_optimized_gas_price
  <2>5. price <= cap => O!get_optimized_gas_price(cap, r, price) <= O!get_optimized_gas_price(cap, r + 1, price)
    BY <2>3 DEF O!get_optimized_gas_price
  <2>6. O!get_optimized_gas_limit(r, price) <= O!get_optimized_gas_limit(r + 1, price)
    BY <2>3 DEF O!get_optimized_gas_limit
  <2>7. QED
    BY <2>4, <2>5, <2>6
<1>3. O!FeesConsistent
  <2> DEFINE level == go_cache.congestion
  <2>1. SUFFICES ASSUME NEW cap \in Nat, NEW reward \in Nat, NEW base \in Nat, NEW price \in Nat,
                        NEW fees, fees = O!get_optimal_eip1559_fees(cap, level, reward, base, price)
                 PROVE  /\ fees.max <= cap
                        /\ fees.max < cap => fees.priority <= fees.max
                        /\ fees.max < cap => base <= fees.max - fees.priority
    BY GasNumbers DEF O!FeesConsistent
  <2>2. PICK multiplier \in {120, 130, 150, 200}, rise \in {100, 120, 150, 200} :
          O!base_fee_multiplier(level) = multiplier /\ O!boost(level) = rise
    <3>1. level \in {"Low", "Medium", "High", "VeryHigh"}
      BY DEF GasInv, O!TypeOK, O!CachedGasData, O!Congestion
    <3> HIDE DEF level
    <3>2. CASE level = "Low"
      BY <3>2 DEF O!base_fee_multiplier, O!boost
    <3>3. CASE level = "Medium"
      BY <3>3 DEF O!base_fee_multiplier, O!boost
    <3>4. CASE level = "High"
      BY <3>4 DEF O!base_fee_multiplier, O!boost
    <3>5. CASE level = "VeryHigh"
      BY <3>5 DEF O!base_fee_multiplier, O!boost
    <3>6. QED
      BY <3>1, <3>2, <3>3, <3>4, <3>5
  <2> HIDE DEF level
  <2>3. PICK limited \in Nat : limited = O!Min({O!boost(level), 100 + BoostLimit})
    <3>1. {O!boost(level), 100 + BoostLimit} \in SUBSET Nat /\ {O!boost(level), 100 + BoostLimit} # {}
      BY <2>2, GasNumbers
    <3>2. PICK two \in SUBSET Nat : two = {O!boost(level), 100 + BoostLimit} /\ two # {}
      BY <3>1
    <3>3. O!Min(two) \in two
      BY <3>2, GasMin
    <3>4. QED
      BY <3>2, <3>3
  <2>4. PICK priority \in Nat : priority = (reward * limited) \div 100
    <3>1. reward * limited \in Nat
      OBVIOUS
    <3>2. QED
      BY <3>1, Quotient
  <2>5. PICK needed \in Nat : needed = (base * multiplier) \div 100 + priority /\ base + priority <= needed
    BY <2>2
  <2>6. O!max_fee(level, priority, base, price) = needed
    BY <2>2, <2>5 DEF O!max_fee
  <2>7. fees.priority = priority /\ fees.max = O!Min({cap, needed})
    BY <2>1, <2>3, <2>4, <2>6 DEF O!get_optimal_eip1559_fees
  <2>8. O!Min({cap, needed}) \in {cap, needed} /\ O!Min({cap, needed}) <= cap
    <3>1. {cap, needed} \in SUBSET Nat /\ {cap, needed} # {}
      OBVIOUS
    <3>2. PICK two \in SUBSET Nat : two = {cap, needed}
      BY <3>1
    <3>3. O!Min(two) \in two /\ \A k \in two : O!Min(two) <= k
      BY <3>1, <3>2, GasMin
    <3>4. cap \in two
      BY <3>2
    <3>5. QED
      BY <3>2, <3>3, <3>4
  <2>9. QED
    BY <2>5, <2>7, <2>8
<1>4. QED
  BY <1>1, <1>2, <1>3 DEF GasInv

(***************************************************************************)
(* The wallets.  A caller that has stored a wallet and not yet cached it   *)
(* finds it in the store and in the file, unless the wallet was removed in *)
(* between.                                                                *)
(***************************************************************************)
WalletsInv ==
  /\ W!TypeOK /\ W!SignersAreStored /\ W!ReportedAreSaved
  /\ \A t \in Threads, a \in Addresses :
       wm_pc[t] = <<"insert", a>> => a \in wm_raced \/ (a \in wm_stored /\ a \in wm_file)
  /\ wm_reported \subseteq wm_stored \cup wm_raced

LEMMA WalletsInit == W!Init => WalletsInv
BY DEF W!Init, W!new, WalletsInv, W!TypeOK, W!SignersAreStored, W!ReportedAreSaved, W!Steps, W!Idle

LEMMA WalletsStep == WalletsInv /\ [W!Next]_walletsVars => WalletsInv'
<1> SUFFICES ASSUME WalletsInv, [W!Next]_walletsVars
             PROVE  WalletsInv'
  OBVIOUS
<1> USE DEF WalletsInv, W!TypeOK, W!SignersAreStored, W!ReportedAreSaved, W!Steps, W!Idle, W!at
<1>1. CASE UNCHANGED walletsVars
  BY <1>1 DEF walletsVars
<1>2. ASSUME NEW t \in Threads, NEW a \in Addresses,
             W!create_wallet(t, a) \/ W!import_private_key(t, a) \/ W!import_from_mnemonic(t, a)
               \/ W!create_hd_wallets(t, a)
      PROVE  WalletsInv'
  BY <1>2 DEF W!create_wallet, W!import_private_key, W!import_from_mnemonic, W!create_hd_wallets,
              W!create_with_private_key
<1>3. ASSUME NEW t \in Threads, NEW a \in Addresses, W!insert(t, a)
      PROVE  WalletsInv'
  BY <1>3 DEF W!insert
<1>4. ASSUME NEW t \in Threads, NEW a \in Addresses, W!get_wallet(t, a)
      PROVE  WalletsInv'
  BY <1>4 DEF W!get_wallet
<1>5. ASSUME NEW t \in Threads, NEW a \in Addresses, W!load(t, a)
      PROVE  WalletsInv'
  BY <1>5 DEF W!load
<1>6. ASSUME NEW t \in Threads, NEW a \in Addresses, W!remove_wallet(t, a)
      PROVE  WalletsInv'
  BY <1>6 DEF W!remove_wallet
<1>7. ASSUME NEW t \in Threads, NEW a \in Addresses, W!evict(t, a)
      PROVE  WalletsInv'
  BY <1>7 DEF W!evict
<1>8. CASE W!save_wallets \/ W!restart
  BY <1>8 DEF W!save_wallets, W!restart
<1>9. QED
  BY <1>1, <1>2, <1>3, <1>4, <1>5, <1>6, <1>7, <1>8 DEF W!Next

(***************************************************************************)
(* The registry of adapters.  Adapters are numbered as they are made, so   *)
(* one that is registered later has a greater number: a caller that has    *)
(* read one wraps it, or an older one than the registry holds by then.     *)
(***************************************************************************)
RegistryInv ==
  /\ A!adaptersTypeOK /\ A!WrapperFollowsAdapter
  /\ \A n \in ChainNames : ar_public[n] <= ar_made
  /\ \A c \in Callers : ar_adding[c] # <<>> => ar_adding[c][2] <= ar_public[ar_adding[c][1]]

LEMMA WrapperKnown ==
  ASSUME NEW n, NEW i \in A!Adapters
  PROVE  A!wrapper_of(n, i) \in A!Wrappers /\ A!wrapper_of(n, i).inner = i
BY DEF A!wrapper_of, A!Wrappers, A!Kinds, A!wrap, A!EthereumAdapterEnum, A!BSCAdapterEnum, A!AvalancheAdapterEnum,
       A!BaseAdapterEnum, A!ArbitrumAdapterEnum, A!OptimismAdapterEnum, A!PolygonAdapterEnum, A!MonadAdapterEnum,
       A!CustomChainAdapterEnum

LEMMA RegistryInit == A!adaptersInit => RegistryInv
BY RegistryNumbers
   DEF A!adaptersInit, RegistryInv, A!adaptersTypeOK, A!WrapperFollowsAdapter, A!Adapters, A!Wrappers, A!Kinds, A!NoWrapper

LEMMA RegistryStep == RegistryInv /\ [A!adaptersNext]_registryVars => RegistryInv'
<1> SUFFICES ASSUME RegistryInv, [A!adaptersNext]_registryVars
             PROVE  RegistryInv'
  OBVIOUS
<1>1. ASSUME NEW c \in Callers, A!add_wallet_write(c)
      PROVE  RegistryInv'
  <2>1. PICK n \in ChainNames, i \in A!Adapters : ar_adding[c] = <<n, i>> /\ i <= ar_public[n]
    BY <1>1 DEF A!add_wallet_write, RegistryInv, A!adaptersTypeOK
  <2>2. /\ ar_adding' = [ar_adding EXCEPT ![c] = <<>>]
        /\ ar_typed' = [ar_typed EXCEPT ![n] = A!wrapper_of(n, i)]
        /\ UNCHANGED <<ar_made, ar_public, ar_private, ar_wrapped, ar_found>>
    BY <1>1, <2>1 DEF A!add_wallet_write
  <2>3. PICK w \in A!Wrappers : w = A!wrapper_of(n, i) /\ w.inner = i
    BY WrapperKnown
  <2>4. ar_typed' \in [ChainNames -> A!Wrappers] /\ ar_typed'[n] = w /\ \A m \in ChainNames : m # n => ar_typed'[m] = ar_typed[m]
    BY <2>2, <2>3 DEF RegistryInv, A!adaptersTypeOK
  <2>5. A!adaptersTypeOK'
    BY <2>2, <2>4 DEF RegistryInv, A!adaptersTypeOK
  <2>6. A!WrapperFollowsAdapter'
    BY <2>1, <2>2, <2>3, <2>4 DEF RegistryInv, A!WrapperFollowsAdapter
  <2>7. QED
    BY <2>2, <2>5, <2>6 DEF RegistryInv, A!adaptersTypeOK
<1>2. ASSUME NEW n \in ChainNames, A!register_adapter(n)
      PROVE  RegistryInv'
  <2>1. ar_made' = ar_made + 1 /\ ar_made' \in A!Adapters
    BY <1>2, RegistryNumbers DEF A!register_adapter, RegistryInv, A!adaptersTypeOK, A!Adapters
  <2>2. PICK w \in A!Wrappers : w = A!wrapper_of(n, ar_made') /\ w.inner = ar_made'
    BY <2>1, WrapperKnown
  <2>3. /\ ar_private' = [ar_private EXCEPT ![n] = ar_made'] /\ ar_wrapped' = [ar_wrapped EXCEPT ![n] = w]
        /\ UNCHANGED <<ar_public, ar_typed, ar_adding, ar_found>>
    BY <1>2, <2>1, <2>2 DEF A!register_adapter
  <2>4. A!adaptersTypeOK' /\ A!WrapperFollowsAdapter'
    BY <2>1, <2>2, <2>3 DEF RegistryInv, A!adaptersTypeOK, A!WrapperFollowsAdapter
  <2>5. \A m \in ChainNames : ar_public[m] <= ar_made'
    BY <2>1, RegistryNumbers DEF RegistryInv, A!adaptersTypeOK, A!Adapters
  <2>6. QED
    BY <2>3, <2>4, <2>5 DEF RegistryInv
<1> USE RegistryNumbers DEF RegistryInv, A!adaptersTypeOK, A!WrapperFollowsAdapter, A!Adapters, A!get
<1>3. ASSUME NEW n \in ChainNames, A!register(n)
      PROVE  RegistryInv'
  <2>1. /\ ar_made' = ar_made + 1 /\ ar_public' = [ar_public EXCEPT ![n] = ar_made + 1]
        /\ UNCHANGED <<ar_typed, ar_private, ar_wrapped, ar_adding, ar_found>> /\ ar_made' \in A!Adapters
    BY <1>3 DEF A!register
  <2>2. \A m \in ChainNames : ar_public[m] <= ar_public'[m] /\ ar_public'[m] <= ar_made' /\ ar_public'[m] \in A!Adapters
    BY <2>1
  <2>3. \A m \in ChainNames : ar_typed[m].inner <= ar_public'[m]
    BY <2>2 DEF A!Wrappers
  <2>4. \A c \in Callers : ar_adding[c] # <<>> => ar_adding[c][2] <= ar_public'[ar_adding[c][1]]
    BY <2>2
  <2>5. QED
    BY <2>1, <2>2, <2>3, <2>4
<1>4. ASSUME NEW n \in ChainNames, A!get_chain_adapter(n)
      PROVE  RegistryInv'
  BY <1>4 DEF A!get_chain_adapter
<1>5. ASSUME NEW c \in Callers, NEW n \in ChainNames, A!add_wallet_read(c, n)
      PROVE  RegistryInv'
  BY <1>5 DEF A!add_wallet_read
<1>6. CASE UNCHANGED registryVars
  BY <1>6 DEF registryVars
<1>7. QED
  BY <1>1, <1>2, <1>3, <1>4, <1>5, <1>6 DEF A!adaptersNext

(***************************************************************************)
(* The registry of chains.  What init_adapters has made and what is left   *)
(* of the configurations are together the EVM chains.                      *)
(***************************************************************************)
ChainsInv ==
  /\ A!chainsTypeOK /\ A!InfoFollowsAdapter /\ A!PublishedWhole
  /\ cr_build.busy => cr_build.made = EvmChains \ cr_build.left

LEMMA ChainsInit == A!chainsInit => ChainsInv
<1> SUFFICES ASSUME A!chainsInit PROVE ChainsInv
  OBVIOUS
<1>1. A!NoInfo \in A!Infos /\ A!NoInfo.status = "none"
  BY RegistryNumbers DEF A!NoInfo, A!Infos
<1>2. QED
  BY <1>1 DEF A!chainsInit, ChainsInv, A!chainsTypeOK, A!InfoFollowsAdapter, A!PublishedWhole

LEMMA ChainsStep == ChainsInv /\ [A!chainsNext]_chainsVars => ChainsInv'
<1> SUFFICES ASSUME ChainsInv, [A!chainsNext]_chainsVars
             PROVE  ChainsInv'
  OBVIOUS
<1> USE RegistryNumbers DEF ChainsInv, A!chainsTypeOK, A!InfoFollowsAdapter, A!PublishedWhole, A!initVars, A!Infos, A!NoInfo
<1>1. CASE UNCHANGED chainsVars
  BY <1>1 DEF chainsVars
<1>2. ASSUME NEW c \in Chains, A!register_chain_adapter(c)
      PROVE  ChainsInv'
  BY <1>2 DEF A!register_chain_adapter, A!inserts
<1>3. ASSUME NEW c \in Chains, A!unregister_adapter(c)
      PROVE  ChainsInv'
  BY <1>3 DEF A!unregister_adapter
<1>4. ASSUME NEW c \in Chains, A!register_watcher(c) \/ A!unregister_watcher(c) \/ A!add_chain_config(c)
      PROVE  ChainsInv'
  BY <1>4 DEF A!register_watcher, A!unregister_watcher, A!add_chain_config
<1>5. ASSUME NEW c \in Chains, A!init_adapter_from_config(c)
      PROVE  ChainsInv'
  BY <1>5 DEF A!init_adapter_from_config, A!inserts
<1>6. ASSUME NEW c \in Chains, NEW s \in {"Active", "Degraded"}, A!update_adapter_info(c, s)
      PROVE  ChainsInv'
  BY <1>6 DEF A!update_adapter_info
<1>7. ASSUME NEW c \in Chains, NEW ok \in BOOLEAN, A!check_adapter_connection(c, ok)
      PROVE  ChainsInv'
  <2>1. PICK info : /\ info = IF ok THEN [status |-> "Active", ok |-> cr_info[c].ok + 1, failed |-> cr_info[c].failed]
                              ELSE [status |-> "Degraded", ok |-> cr_info[c].ok, failed |-> cr_info[c].failed + 1]
                    /\ cr_info' = [cr_info EXCEPT ![c] = info]
    BY <1>7 DEF A!check_adapter_connection
  <2>2. info \in A!Infos /\ info.status \in {"Active", "Degraded"} /\ (cr_adapters[c] = "placeholder" => info.ok = cr_info[c].ok)
    <3>1. /\ cr_info[c].status \in {"none", "Active", "Degraded"} /\ cr_info[c].ok \in 0 .. MaxChecked
          /\ cr_info[c].failed \in 0 .. MaxChecked /\ cr_info[c].ok + cr_info[c].failed < MaxChecked
          /\ cr_info[c] \in A!Infos
      BY <1>7 DEF A!check_adapter_connection
    <3>2. cr_info[c].ok + 1 \in 0 .. MaxChecked /\ cr_info[c].failed + 1 \in 0 .. MaxChecked
      BY <3>1
    <3>3. CASE ok
      <4>1. cr_adapters[c] = "real"
        <5> HIDE DEF ChainsInv, A!Infos
        <5>1. A!answers(c, ok)
          BY <1>7 DEF A!check_adapter_connection
        <5>2. ok => cr_adapters[c] = "real"
          BY <5>1 DEF A!answers
        <5>3. QED
          BY <3>3, <5>2
      <4>2. info = [status |-> "Active", ok |-> cr_info[c].ok + 1, failed |-> cr_info[c].failed]
        BY <2>1, <3>1, <3>3
      <4>3. QED
        BY <3>1, <3>2, <4>1, <4>2
    <3>4. CASE ~ok
      BY <2>1, <3>1, <3>2, <3>4
    <3>5. QED
      BY <3>3, <3>4
  <2>3. cr_info' = [cr_info EXCEPT ![c] = info] /\ cr_adapters[c] # "none"
        /\ UNCHANGED <<cr_adapters, cr_configs, cr_watchers, cr_pools, cr_build, cr_published>>
    <3> HIDE DEF ChainsInv, A!Infos
    <3>1. A!answers(c, ok)
      BY <1>7 DEF A!check_adapter_connection
    <3>2. cr_adapters[c] # "none"
      BY <3>1 DEF A!answers
    <3>3. cr_info' = [cr_info EXCEPT ![c] = info]
      BY <2>1
    <3>4. UNCHANGED <<cr_adapters, cr_configs, cr_watchers, cr_pools, cr_build, cr_published>>
      BY <1>7 DEF A!check_adapter_connection
    <3>5. QED
      BY <3>2, <3>3, <3>4
  <2>4. cr_info' \in [Chains -> A!Infos] /\ \A d \in Chains : cr_info'[d] = IF d = c THEN info ELSE cr_info[d]
    BY <2>2, <2>3
  <2> HIDE DEF A!Infos
  <2>5. QED
    BY <2>2, <2>3, <2>4
<1>8. ASSUME NEW b \in BootChains, NEW ok \in BOOLEAN, A!init_step(b, ok)
      PROVE  ChainsInv'
  BY <1>8 DEF A!init_step
<1>9. CASE A!init_adapters \/ A!publish
  <2>1. CASE A!init_adapters
    <3>1. cr_build' = [busy |-> TRUE, left |-> BootChains, made |-> {}] /\ UNCHANGED <<cr_adapters, cr_info, cr_configs, cr_watchers, cr_pools, cr_published>>
      BY <2>1 DEF A!init_adapters
    <3>2. cr_build' \in [busy : BOOLEAN, left : SUBSET BootChains, made : SUBSET BootChains] /\ cr_build'.made = EvmChains \ cr_build'.left
      BY <3>1
    <3>3. QED
      BY <3>1, <3>2
  <2>2. CASE A!publish
    <3>1. /\ cr_build' = [busy |-> FALSE, left |-> {}, made |-> {}] /\ cr_published' = EvmChains
          /\ UNCHANGED <<cr_adapters, cr_info, cr_configs, cr_watchers, cr_pools>>
      BY <2>2 DEF A!publish
    <3>2. cr_build' \in [busy : BOOLEAN, left : SUBSET BootChains, made : SUBSET BootChains] /\ ~cr_build'.busy
      BY <3>1
    <3>3. QED
      BY <3>1, <3>2
  <2>3. QED
    BY <1>9, <2>1, <2>2
<1>10. QED
  BY <1>1, <1>2, <1>3, <1>4, <1>5, <1>6, <1>7, <1>8, <1>9 DEF A!chainsNext

(***************************************************************************)
(* The pool of endpoints.  No permit is out before there is a pool.        *)
(***************************************************************************)
PoolInv ==
  /\ P!TypeOK /\ P!StatusMatchesRate /\ P!GuardsWithinLimit
  /\ ~cp_open => \A u \in Urls : cp_held[u] = 0

(* The lists of endpoints are the sequences of distinct urls. *)
LEMMA ListOfUrls ==
  \A q : q \in P!Lists <=> q \in Seq(Urls) /\ \A i, j \in 1 .. Len(q) : q[i] = q[j] => i = j
<1>1. ASSUME NEW q, q \in P!Lists
      PROVE  q \in Seq(Urls) /\ \A i, j \in 1 .. Len(q) : q[i] = q[j] => i = j
  <2>1. PICK n \in 0 .. P!Cardinality(Urls) : q \in [1 .. n -> Urls]
    BY <1>1 DEF P!Lists, P!BoundedSeq, P!SeqOf
  <2>2. n \in Nat /\ DOMAIN q = 1 .. n
    BY <2>1
  <2>3. q \in Seq(Urls) /\ Len(q) = n
    BY <2>1, <2>2, IsASeq
  <2>4. QED
    BY <1>1, <2>2, <2>3 DEF P!Lists, P!IsInjective
<1>2. ASSUME NEW q \in Seq(Urls), \A i, j \in 1 .. Len(q) : q[i] = q[j] => i = j
      PROVE  q \in P!Lists
  <2>1. Len(q) \in Nat /\ DOMAIN q = 1 .. Len(q) /\ q \in [1 .. Len(q) -> Urls]
    BY <1>2, LenProperties
  <2>2. q \in Injection(1 .. Len(q), Urls)
    BY <1>2, <2>1 DEF Injection, IsInjective
  <2>3. IsFiniteSet(Urls) /\ Cardinality(1 .. Len(q)) <= Cardinality(Urls)
    BY <2>2, PoolNumbers, FS_Injection
  <2>4. Cardinality(1 .. Len(q)) = Len(q)
    <3>1. IsFiniteSet(1 .. Len(q)) /\ Cardinality(1 .. Len(q)) = IF 1 > Len(q) THEN 0 ELSE Len(q) - 1 + 1
      BY <2>1, FS_Interval
    <3>2. QED
      BY <2>1, <3>1
  <2>5. P!Cardinality(Urls) = Cardinality(Urls)
    BY DEF P!Cardinality, P!IsFiniteSet, Cardinality, IsFiniteSet
  <2>6. Len(q) \in 0 .. P!Cardinality(Urls)
    BY <2>1, <2>3, <2>4, <2>5, FS_CardinalityType
  <2>7. q \in P!BoundedSeq(Urls, P!Cardinality(Urls))
    BY <2>1, <2>6 DEF P!BoundedSeq, P!SeqOf
  <2>8. QED
    BY <1>2, <2>1, <2>7 DEF P!Lists, P!IsInjective
<1>3. QED
  BY <1>1, <1>2

(* A round robin finds an endpoint that is usable, or none. *)
LEMMA Skipped ==
  ASSUME NEW q \in P!Lists, NEW i \in Nat
  PROVE  /\ P!skipped(q, i) \in 0 .. Len(q)
         /\ P!skipped(q, i) < Len(q) =>
              LET u == q[((i + P!skipped(q, i)) % Len(q)) + 1]
              IN  /\ u \in P!ToSet(q) /\ u \in Urls /\ P!usable(u)
                  /\ (i + P!skipped(q, i) + 1) % Len(q) \in Nat
<1> DEFINE at(k) == q[((i + k) % Len(q)) + 1]
           found(k) == (\A j \in 0 .. k - 1 : ~P!usable(at(j))) /\ (k < Len(q) => P!usable(at(k)))
           s == P!skipped(q, i)
<1>1. q \in Seq(Urls) /\ Len(q) \in Nat /\ DOMAIN q = 1 .. Len(q) /\ \A n \in 1 .. Len(q) : q[n] \in Urls
  BY ListOfUrls, LenProperties, ElementOfSeq
<1>2. \E k \in 0 .. Len(q) : found(k)
  <2> DEFINE T == {k \in 0 .. Len(q) - 1 : P!usable(at(k))}
  <2>1. CASE T = {}
    <3> HIDE DEF at
    <3>1. Len(q) \in 0 .. Len(q) /\ ~(Len(q) < Len(q)) /\ \A j \in 0 .. Len(q) - 1 : ~P!usable(at(j))
      BY <1>1, <2>1
    <3>2. QED
      BY <3>1
  <2>2. CASE T # {}
    <3>1. T \subseteq Nat
      BY <1>1
    <3>2. PICK n \in T : \A k \in T : n <= k
      BY <2>2, <3>1, NatMin
    <3> HIDE DEF at
    <3>3. n \in 0 .. Len(q) /\ n \in Nat /\ P!usable(at(n))
      BY <1>1, <3>2
    <3>4. \A j \in 0 .. n - 1 : ~P!usable(at(j))
      BY <1>1, <3>2
    <3>5. QED
      BY <3>3, <3>4
  <2>3. QED
    BY <2>1, <2>2
<1>3. s = CHOOSE k \in 0 .. Len(q) : found(k)
  BY DEF P!skipped
<1>4. s \in 0 .. Len(q) /\ (s < Len(q) => P!usable(at(s)))
  <2> HIDE DEF s, at
  <2>1. QED
    BY <1>2, <1>3
<1>5. ASSUME s < Len(q)
      PROVE  at(s) \in P!ToSet(q) /\ at(s) \in Urls /\ P!usable(at(s)) /\ (i + s + 1) % Len(q) \in Nat
  <2> HIDE DEF s
  <2>1. s \in Nat /\ Len(q) \in Nat \ {0} /\ i + s \in Nat /\ i + s + 1 \in Nat
    BY <1>1, <1>4, <1>5
  <2>2. \A x \in Nat, y \in Nat \ {0} : x % y \in 0 .. y - 1
    OBVIOUS
  <2>3. (i + s) % Len(q) \in 0 .. Len(q) - 1 /\ (i + s + 1) % Len(q) \in 0 .. Len(q) - 1
    BY <2>1, <2>2
  <2>4. ((i + s) % Len(q)) + 1 \in 1 .. Len(q) /\ (i + s + 1) % Len(q) \in Nat
    BY <2>1, <2>3
  <2>5. QED
    BY <1>1, <1>4, <1>5, <2>4 DEF P!ToSet
<1>6. QED
  BY <1>4, <1>5

(* What get_provider takes is a usable endpoint of a list. *)
LEMMA Choice ==
  ASSUME PoolInv
  PROVE  /\ \A u \in P!choice.url : u \in Urls /\ u \in P!ToSet(cp_primary) \cup P!ToSet(cp_backup) /\ P!usable(u)
         /\ P!choice.next \in [primary : Nat, backup : Nat]
<1> DEFINE np == cp_next.primary
           nb == cp_next.backup
           kp == P!skipped(cp_primary, np)
           kb == P!skipped(cp_backup, nb)
           up == cp_primary[((np + kp) % Len(cp_primary)) + 1]
           ub == cp_backup[((nb + kb) % Len(cp_backup)) + 1]
<1>1. cp_primary \in P!Lists /\ cp_backup \in P!Lists /\ np \in Nat /\ nb \in Nat /\ cp_next \in [primary : Nat, backup : Nat]
  BY DEF PoolInv, P!TypeOK
<1>2. kp < Len(cp_primary) => up \in P!ToSet(cp_primary) /\ up \in Urls /\ P!usable(up) /\ (np + kp + 1) % Len(cp_primary) \in Nat
  BY <1>1, Skipped
<1>3. kb < Len(cp_backup) => ub \in P!ToSet(cp_backup) /\ ub \in Urls /\ P!usable(ub) /\ (nb + kb + 1) % Len(cp_backup) \in Nat
  BY <1>1, Skipped
<1>4. CASE kp < Len(cp_primary)
  <2>1. P!choice = [url |-> {up}, next |-> [cp_next EXCEPT !.primary = (np + kp + 1) % Len(cp_primary)]]
    BY <1>4 DEF P!choice
  <2> HIDE DEF np, kp, up
  <2>2. QED
    BY <1>1, <1>2, <1>4, <2>1
<1>5. CASE ~(kp < Len(cp_primary)) /\ kb < Len(cp_backup)
  <2>1. P!choice = [url |-> {ub}, next |-> [cp_next EXCEPT !.backup = (nb + kb + 1) % Len(cp_backup)]]
    BY <1>5 DEF P!choice
  <2> HIDE DEF nb, kb, ub
  <2>2. QED
    BY <1>1, <1>3, <1>5, <2>1
<1>6. CASE ~(kp < Len(cp_primary)) /\ ~(kb < Len(cp_backup))
  <2>1. P!choice = [url |-> {}, next |-> cp_next]
    BY <1>6 DEF P!choice
  <2>2. QED
    BY <1>1, <2>1
<1>7. QED
  BY <1>4, <1>5, <1>6

(* Recording a request keeps the status true to the rate of errors. *)
RateTrue(i) ==
  /\ i.status = "Healthy" => 10 * i.error <= i.success + i.error
  /\ i.status = "Degraded" => 2 * i.error <= i.success + i.error /\ 10 * i.error >= i.success + i.error

LEMMA Recorded ==
  ASSUME PoolInv, NEW u \in Urls, NEW ok \in BOOLEAN, P!CanCount(u, ok)
  PROVE  /\ P!recorded(u, ok) \in P!EndpointInfo /\ RateTrue(P!recorded(u, ok))
         /\ cp_info[u].status = "Down" /\ P!recorded(u, ok).status # "Down" => P!recorded(u, ok).error > cp_info[u].error
<1>1. PICK st, s, e : /\ st \in {"Healthy", "Degraded", "Down"} /\ s \in 0 .. MaxRequests /\ e \in 0 .. MaxFailures
                      /\ cp_info[u] = [status |-> st, success |-> s, error |-> e]
  BY DEF PoolInv, P!TypeOK, P!EndpointInfo
<1>2. MaxRequests \in Nat /\ MaxFailures \in Nat /\ s \in Nat /\ e \in Nat /\ s + e < MaxRequests
  BY <1>1, PoolNumbers DEF P!CanCount, P!total
<1>3. RateTrue([status |-> st, success |-> s, error |-> e])
  BY <1>1 DEF PoolInv, P!StatusMatchesRate, P!total, RateTrue
<1>4. CASE ok
  <2>1. P!recorded(u, ok) = P!record_success(cp_info[u])
    BY <1>4 DEF P!recorded
  <2>2. P!recorded(u, ok) = [status |-> IF st = "Degraded" /\ 10 * e < s + 1 + e THEN "Healthy" ELSE st, success |-> s + 1, error |-> e]
    <3>1. PICK j : /\ j = [cp_info[u] EXCEPT !.success = @ + 1]
                   /\ P!recorded(u, ok) = IF cp_info[u].status = "Degraded" /\ 10 * j.error < P!total(j) THEN [j EXCEPT !.status = "Healthy"] ELSE j
      BY <2>1, Zenon DEF P!record_success
    <3>2. j = [status |-> st, success |-> s + 1, error |-> e]
      BY <1>1, <3>1
    <3>3. cp_info[u].status = st /\ j.error = e /\ P!total(j) = s + 1 + e
      BY <1>1, <3>2 DEF P!total
    <3>4. [j EXCEPT !.status = "Healthy"] = [status |-> "Healthy", success |-> s + 1, error |-> e]
      BY <3>2
    <3>5. P!recorded(u, ok) = IF st = "Degraded" /\ 10 * e < s + 1 + e THEN [j EXCEPT !.status = "Healthy"] ELSE j
      BY <3>1, <3>3, Zenon
    <3>6. CASE st = "Degraded" /\ 10 * e < s + 1 + e
      BY <3>4, <3>5, <3>6
    <3>7. CASE ~(st = "Degraded" /\ 10 * e < s + 1 + e)
      BY <3>2, <3>5, <3>7
    <3>8. QED
      BY <3>6, <3>7
  <2>3. s + 1 \in 0 .. MaxRequests
    BY <1>2
  <2>4. CASE st = "Degraded" /\ 10 * e < s + 1 + e
    BY <1>1, <1>2, <1>3, <2>2, <2>3, <2>4 DEF P!EndpointInfo, RateTrue
  <2>5. CASE ~(st = "Degraded" /\ 10 * e < s + 1 + e)
    BY <1>1, <1>2, <1>3, <2>2, <2>3, <2>5 DEF P!EndpointInfo, RateTrue
  <2>6. QED
    BY <2>4, <2>5
<1>5. CASE ~ok
  <2>1. P!recorded(u, ok) = P!record_error(cp_info[u])
    BY <1>5 DEF P!recorded
  <2>2. e + 1 \in 0 .. MaxFailures
    BY <1>1, <1>2, <1>5 DEF P!CanCount
  <2>3. PICK j : /\ j = [cp_info[u] EXCEPT !.error = @ + 1]
                 /\ P!recorded(u, ok) = CASE 2 * j.error > P!total(j) -> [j EXCEPT !.status = "Down"]
                                          [] 2 * j.error <= P!total(j) /\ 10 * j.error > P!total(j) -> [j EXCEPT !.status = "Degraded"]
                                          [] OTHER -> j
    BY <2>1, Zenon DEF P!record_error
  <2> DEFINE with(word) == [status |-> word, success |-> s, error |-> e + 1]
  <2>4. j = with(st)
    BY <1>1, <2>3
  <2>5. j.error = e + 1 /\ P!total(j) = s + (e + 1) /\ j.error \in Nat /\ P!total(j) \in Nat
    BY <1>2, <2>4 DEF P!total
  <2>6. [j EXCEPT !.status = "Down"] = with("Down") /\ [j EXCEPT !.status = "Degraded"] = with("Degraded")
    BY <2>4
  <2>7. CASE 2 * (e + 1) > s + (e + 1)
    <3>1. P!recorded(u, ok) = with("Down")
      <4> HIDE DEF with
      <4>1. QED
        BY <2>3, <2>7, <2>5, <2>6
    <3>2. QED
      BY <1>1, <1>2, <2>2, <3>1 DEF P!EndpointInfo, RateTrue
  <2>8. CASE ~(2 * (e + 1) > s + (e + 1)) /\ 10 * (e + 1) > s + (e + 1)
    <3>1. P!recorded(u, ok) = with("Degraded")
      <4> HIDE DEF with
      <4>1. QED
        BY <1>2, <2>3, <2>8, <2>5, <2>6
    <3>2. QED
      BY <1>1, <1>2, <2>2, <2>8, <3>1 DEF P!EndpointInfo, RateTrue
  <2>9. CASE ~(2 * (e + 1) > s + (e + 1)) /\ ~(10 * (e + 1) > s + (e + 1))
    <3>1. P!recorded(u, ok) = with(st)
      <4> HIDE DEF with
      <4>1. QED
        BY <1>2, <2>3, <2>9, <2>4, <2>5, <2>6
    <3>2. QED
      BY <1>1, <1>2, <1>3, <2>2, <2>9, <3>1 DEF P!EndpointInfo, RateTrue
  <2>10. QED
    BY <2>7, <2>8, <2>9
<1>6. QED
  BY <1>4, <1>5

LEMMA PoolInit == P!Init => PoolInv
<1> SUFFICES ASSUME P!Init PROVE PoolInv
  OBVIOUS
<1>1. <<>> \in P!Lists
  <2>1. <<>> \in Seq(Urls) /\ \A i : i \notin 1 .. Len(<<>>)
    BY EmptySeq
  <2>2. PICK none : none = <<>>
    OBVIOUS
  <2>3. none \in P!Lists
    BY <2>1, <2>2, ListOfUrls
  <2>4. QED
    BY <2>2, <2>3
<1>2. P!new_info \in P!EndpointInfo /\ P!new_info = [status |-> "Healthy", success |-> 0, error |-> 0]
  BY PoolNumbers DEF P!new_info, P!EndpointInfo
<1>3. \A u \in Urls : cp_info[u] \in P!EndpointInfo /\ cp_info[u].status = "Healthy" /\ cp_info[u].success = 0 /\ cp_info[u].error = 0
  BY <1>2 DEF P!Init
<1>4. P!StatusMatchesRate
  BY <1>3 DEF P!StatusMatchesRate, P!total
<1> HIDE DEF P!new_info
<1>5. P!TypeOK
  BY <1>1, <1>2 DEF P!Init, P!TypeOK
<1>6. P!GuardsWithinLimit /\ \A u \in Urls : cp_held[u] = 0
  BY PoolNumbers DEF P!Init, P!GuardsWithinLimit
<1>7. QED
  BY <1>4, <1>5, <1>6 DEF PoolInv

(* Requests to the endpoints of a set are recorded, or none is.            *)
LEMMA AllRecorded ==
  ASSUME PoolInv, NEW asked \in SUBSET Urls, NEW up, \A u \in asked : P!CanCount(u, u \in up),
         cp_info' = [u \in Urls |-> IF u \in asked THEN P!recorded(u, u \in up) ELSE cp_info[u]]
  PROVE  /\ cp_info' \in [Urls -> P!EndpointInfo] /\ P!StatusMatchesRate'
         /\ \A u \in Urls : cp_info[u].status = "Down" /\ cp_info'[u].status # "Down" => cp_info'[u].error > cp_info[u].error
<1>1. \A u \in Urls : cp_info[u] \in P!EndpointInfo /\ RateTrue(cp_info[u])
  BY DEF PoolInv, P!TypeOK, P!StatusMatchesRate, P!total, RateTrue
<1>2. \A u \in asked : /\ P!recorded(u, u \in up) \in P!EndpointInfo /\ RateTrue(P!recorded(u, u \in up))
                       /\ cp_info[u].status = "Down" /\ P!recorded(u, u \in up).status # "Down" => P!recorded(u, u \in up).error > cp_info[u].error
  <2> TAKE u \in asked
  <2>1. CASE u \in up
    <3>1. PICK ok \in BOOLEAN : ok = TRUE /\ (u \in up) = ok
      BY <2>1
    <3>2. P!CanCount(u, ok) /\ u \in Urls
      BY <3>1
    <3>3. QED
      BY <3>1, <3>2, Recorded
  <2>2. CASE u \notin up
    <3>1. PICK ok \in BOOLEAN : ~ok
      OBVIOUS
    <3>2. P!CanCount(u, ok) /\ u \in Urls
      BY <2>2, <3>1 DEF P!CanCount
    <3>3. P!recorded(u, ok) = P!recorded(u, u \in up)
      BY <2>2, <3>1 DEF P!recorded
    <3>4. QED
      BY <3>2, <3>3, Recorded
  <2>3. QED
    BY <2>1, <2>2
<1>3. \A u \in Urls : /\ cp_info'[u] \in P!EndpointInfo /\ RateTrue(cp_info'[u])
                      /\ cp_info[u].status = "Down" /\ cp_info'[u].status # "Down" => cp_info'[u].error > cp_info[u].error
  <2> TAKE u \in Urls
  <2>1. CASE u \in asked
    BY <1>2, <2>1
  <2>2. CASE u \notin asked
    BY <1>1, <2>2
  <2>3. QED
    BY <2>1, <2>2
<1>4. QED
  BY <1>3 DEF P!StatusMatchesRate, P!total, RateTrue

LEMMA PoolStep ==
  PoolInv /\ [P!Next]_poolVars =>
    /\ PoolInv'
    /\ \A u \in Urls : cp_info[u].status = "Down" /\ cp_info'[u].status # "Down" => cp_info'[u].error > cp_info[u].error
<1> DEFINE DownStays == \A u \in Urls : cp_info[u].status = "Down" /\ cp_info'[u].status # "Down" => cp_info'[u].error > cp_info[u].error
<1> SUFFICES ASSUME PoolInv, [P!Next]_poolVars
             PROVE  PoolInv' /\ DownStays
  OBVIOUS
<1> USE PoolNumbers DEF PoolInv, P!TypeOK, P!StatusMatchesRate, P!GuardsWithinLimit
<1>1. CASE UNCHANGED poolVars
  BY <1>1 DEF poolVars
<1>2. CASE P!get_or_create_pool
  BY <1>2 DEF P!get_or_create_pool, P!new
<1>3. CASE P!get_provider
  <2>1. \A u \in P!choice.url : u \in Urls /\ u \in P!ToSet(cp_primary) \cup P!ToSet(cp_backup) /\ P!usable(u)
    BY Choice
  <2>2. cp_next' \in [primary : Nat, backup : Nat]
    BY <1>3, Choice DEF P!get_provider
  <2>3. UNCHANGED <<cp_open, cp_primary, cp_backup, cp_info>> /\ cp_open
        /\ cp_held' = [u \in Urls |-> cp_held[u] + (IF u \in P!choice.url THEN 1 ELSE 0)]
    BY <1>3 DEF P!get_provider
  <2>4. \A u \in Urls : cp_held'[u] \in Nat /\ (cp_held'[u] <= MaxConnections) /\ (cp_held'[u] > 0 => u \in P!ToSet(cp_primary) \cup P!ToSet(cp_backup))
    <3> TAKE u \in Urls
    <3>1. CASE u \in P!choice.url
      BY <2>1, <2>3, <3>1 DEF P!usable
    <3>2. CASE u \notin P!choice.url
      BY <2>3, <3>2
    <3>3. QED
      BY <3>1, <3>2
  <2>5. QED
    BY <2>2, <2>3, <2>4
<1>4. ASSUME NEW ok \in BOOLEAN, P!with_provider(ok)
      PROVE  PoolInv' /\ DownStays
  <2>1. PICK asked \in SUBSET Urls : asked = P!choice.url
    BY Choice
  <2>2. PICK up : up = IF ok THEN asked ELSE {}
    OBVIOUS
  <2>3. \A u \in asked : (u \in up) = ok
    BY <2>2
  <2>4. \A u \in asked : P!CanCount(u, u \in up) /\ P!recorded(u, ok) = P!recorded(u, u \in up)
    BY <1>4, <2>1, <2>3 DEF P!with_provider
  <2>5. cp_info' = [u \in Urls |-> IF u \in asked THEN P!recorded(u, u \in up) ELSE cp_info[u]]
    BY <1>4, <2>1, <2>4 DEF P!with_provider
  <2>6. cp_info' \in [Urls -> P!EndpointInfo] /\ P!StatusMatchesRate' /\ DownStays
    BY <2>4, <2>5, AllRecorded
  <2>7. cp_next' \in [primary : Nat, backup : Nat] /\ UNCHANGED <<cp_open, cp_primary, cp_backup, cp_held>>
    BY <1>4, Choice DEF P!with_provider
  <2>8. QED
    BY <2>6, <2>7
<1>5. ASSUME NEW u \in Urls, P!drop_guard(u) \/ P!report(u)
      PROVE  PoolInv' /\ DownStays
  BY <1>5 DEF P!drop_guard, P!report, P!vars
<1>6. ASSUME NEW u \in Urls, NEW b \in BOOLEAN, P!add_endpoint(u, b)
      PROVE  PoolInv' /\ DownStays
  <2>1. \A q \in P!Lists : u \notin P!ToSet(q) => Append(q, u) \in P!Lists /\ P!ToSet(q) \subseteq P!ToSet(Append(q, u))
    <3> SUFFICES ASSUME NEW q \in P!Lists, u \notin P!ToSet(q)
                 PROVE  Append(q, u) \in P!Lists /\ P!ToSet(q) \subseteq P!ToSet(Append(q, u))
      OBVIOUS
    <3>1. q \in Seq(Urls) /\ DOMAIN q = 1 .. Len(q) /\ Len(q) \in Nat /\ \A i, j \in 1 .. Len(q) : q[i] = q[j] => i = j
      BY ListOfUrls
    <3>2. /\ Append(q, u) \in Seq(Urls) /\ Len(Append(q, u)) = Len(q) + 1
          /\ \A i \in 1 .. Len(q) : Append(q, u)[i] = q[i]
          /\ Append(q, u)[Len(q) + 1] = u /\ DOMAIN Append(q, u) = 1 .. Len(q) + 1
      BY <3>1, AppendProperties
    <3>3. \A i \in 1 .. Len(q) : q[i] # u
      BY <3>1 DEF P!ToSet
    <3>4. \A i, j \in 1 .. Len(q) + 1 : Append(q, u)[i] = Append(q, u)[j] => i = j
      <4> TAKE i, j \in 1 .. Len(q) + 1
      <4>1. (i \in 1 .. Len(q) \/ i = Len(q) + 1) /\ (j \in 1 .. Len(q) \/ j = Len(q) + 1)
        <5>1. \A n \in Nat : \A k \in 1 .. n + 1 : k \in 1 .. n \/ k = n + 1
          OBVIOUS
        <5>2. QED
          BY <3>1, <5>1
      <4>2. CASE i \in 1 .. Len(q) /\ j \in 1 .. Len(q)
        BY <3>1, <3>2, <4>2
      <4>3. CASE i = Len(q) + 1 /\ j \in 1 .. Len(q)
        BY <3>2, <3>3, <4>3
      <4>4. CASE i \in 1 .. Len(q) /\ j = Len(q) + 1
        BY <3>2, <3>3, <4>4
      <4>5. QED
        BY <4>1, <4>2, <4>3, <4>4
    <3>5. \A i \in DOMAIN q : q[i] = Append(q, u)[i] /\ i \in DOMAIN Append(q, u)
      BY <3>1, <3>2
    <3>6. P!ToSet(q) \subseteq P!ToSet(Append(q, u))
      BY <3>5 DEF P!ToSet
    <3>7. QED
      BY <3>2, <3>4, <3>6, ListOfUrls
  <2>2. cp_primary' \in P!Lists /\ cp_backup' \in P!Lists /\ P!ToSet(cp_primary) \subseteq P!ToSet(cp_primary')
        /\ P!ToSet(cp_backup) \subseteq P!ToSet(cp_backup')
    BY <1>6, <2>1 DEF P!add_endpoint
  <2>3. UNCHANGED <<cp_open, cp_next, cp_info, cp_held>>
    BY <1>6 DEF P!add_endpoint
  <2>4. QED
    BY <2>2, <2>3
<1>7. ASSUME NEW up \in SUBSET Urls, P!health_check_all(up)
      PROVE  PoolInv' /\ DownStays
  <2>1. PICK asked : asked = P!ToSet(cp_primary) \cup P!ToSet(cp_backup)
    OBVIOUS
  <2>2. asked \in SUBSET Urls
    BY <2>1, ListOfUrls, ElementOfSeq, LenProperties DEF P!ToSet
  <2>3. /\ \A u \in asked : P!CanCount(u, u \in up)
        /\ cp_info' = [u \in Urls |-> IF u \in asked THEN P!recorded(u, u \in up) ELSE cp_info[u]]
        /\ UNCHANGED <<cp_open, cp_primary, cp_backup, cp_next, cp_held>>
    BY <1>7, <2>1 DEF P!health_check_all
  <2>4. cp_info' \in [Urls -> P!EndpointInfo] /\ P!StatusMatchesRate' /\ DownStays
    BY <2>2, <2>3, AllRecorded
  <2>5. QED
    BY <2>3, <2>4
<1>8. QED
  BY <1>1, <1>2, <1>3, <1>4, <1>5, <1>6, <1>7 DEF P!Next

(***************************************************************************)
(* The modules of the token and their keys.                                *)
(***************************************************************************)
ModulesInv == M!TypeOK /\ M!KeysMatchModules /\ M!OwnerIsAdmin

LEMMA ModulesInit == M!Init => ModulesInv
<1> SUFFICES ASSUME NEW owner \in Accounts, NEW given \in SUBSET Accounts, M!new(owner, given)
             PROVE  ModulesInv
  BY DEF M!Init
<1>1. M!EmptyMap = [x \in {} |-> {}] /\ DOMAIN M!EmptyMap = {}
  BY DEF M!EmptyMap
<1>2. module_keys = <<>> /\ module_keys \in Seq(Names) /\ DOMAIN module_keys = {}
  BY EmptySeq DEF M!new
<1>3. M!Range(module_keys) = {} /\ M!IsInjective(module_keys)
  BY <1>2 DEF M!Range, M!IsInjective
<1>4. modules = M!EmptyMap /\ authorized_callers = M!EmptyMap /\ owner_id = owner /\ admins = given \cup {owner}
  BY DEF M!new
<1>5. QED
  BY <1>1, <1>2, <1>3, <1>4 DEF ModulesInv, M!TypeOK, M!KeysMatchModules, M!OwnerIsAdmin

LEMMA ModulesStep == ModulesInv /\ [M!Next]_modulesVars => ModulesInv'
<1> SUFFICES ASSUME ModulesInv, [M!Next]_modulesVars
             PROVE  ModulesInv'
  OBVIOUS
<1> USE DEF ModulesInv, M!TypeOK, M!OwnerIsAdmin
<1>1. CASE UNCHANGED modulesVars
  BY <1>1 DEF modulesVars, M!KeysMatchModules
<1> SUFFICES ASSUME NEW caller \in Accounts,
                    \/ \E m \in M!Module : M!add_module(caller, m)
                    \/ \E n \in Names, m \in M!Module : M!update_module(caller, n, m)
                    \/ \E n \in Names, s \in M!ModuleStatus : M!update_module_status(caller, n, s)
                    \/ \E n \in Names : M!remove_module(caller, n)
                    \/ \E c \in Accounts, ps \in SUBSET Permissions : M!authorize_caller(caller, c, ps)
                    \/ \E c \in Accounts, ps \in SUBSET Permissions : M!revoke_permissions(caller, c, ps)
                    \/ \E c \in Accounts : M!revoke_all(caller, c)
                    \/ \E a \in Accounts : M!add_admin(caller, a)
                    \/ \E a \in Accounts : M!remove_admin(caller, a)
                    \/ \E a \in Accounts : M!transfer_ownership(caller, a)
             PROVE  ModulesInv'
  BY <1>1 DEF M!Next
<1>2. ASSUME NEW n \in Names, NEW m \in M!Module, modules' = M!insert(modules, n, m)
      PROVE  DOMAIN modules' = DOMAIN modules \cup {n} /\ modules' \in [DOMAIN modules' -> M!Module]
  BY <1>2 DEF M!insert
<1>3. ASSUME NEW m \in M!Module, M!add_module(caller, m)
      PROVE  ModulesInv'
  <2>1. m.name \in Names /\ m.name \notin DOMAIN modules /\ modules' = M!insert(modules, m.name, m)
        /\ module_keys' = Append(module_keys, m.name) /\ UNCHANGED <<authorized_callers, owner_id, admins>>
    BY <1>3 DEF M!add_module, M!Module
  <2>2. PICK name \in Names : name = m.name
    BY <2>1
  <2>3. DOMAIN modules' = DOMAIN modules \cup {name} /\ modules' \in [DOMAIN modules' -> M!Module]
    BY <1>2, <2>1, <2>2
  <2>4. module_keys \in Seq(Names) /\ Len(module_keys) \in Nat /\ DOMAIN module_keys = 1 .. Len(module_keys)
    BY LenProperties
  <2>5. /\ module_keys' \in Seq(Names) /\ DOMAIN module_keys' = 1 .. Len(module_keys) + 1
        /\ \A i \in 1 .. Len(module_keys) : module_keys'[i] = module_keys[i]
        /\ module_keys'[Len(module_keys) + 1] = name
    BY <2>1, <2>2, <2>4, AppendProperties
  <2>6. \A i \in 1 .. Len(module_keys) : module_keys[i] # name
    BY <2>1, <2>2, <2>4 DEF M!KeysMatchModules, M!Range
  <2>7. PICK n \in Nat : n = Len(module_keys)
    BY <2>4
  <2>8. \A i \in 1 .. n + 1 : i \in 1 .. n \/ i = n + 1
    BY <2>7
  <2>9. M!Range(module_keys') = M!Range(module_keys) \cup {name}
    <3>1. n + 1 \in DOMAIN module_keys' /\ \A i \in 1 .. n : i \in DOMAIN module_keys'
      BY <2>5, <2>7
    <3>2. QED
      BY <2>4, <2>5, <2>7, <2>8, <3>1 DEF M!Range
  <2>10. M!IsInjective(module_keys')
    <3> SUFFICES ASSUME NEW i \in 1 .. n + 1, NEW j \in 1 .. n + 1, module_keys'[i] = module_keys'[j]
                 PROVE  i = j
      BY <2>5, <2>7 DEF M!IsInjective
    <3>1. CASE i \in 1 .. n /\ j \in 1 .. n
      BY <2>4, <2>5, <2>7, <3>1 DEF M!KeysMatchModules, M!IsInjective
    <3>2. CASE i = n + 1 \/ j = n + 1
      BY <2>5, <2>6, <2>7, <2>8, <3>2
    <3>3. QED
      BY <2>8, <3>1, <3>2
  <2>11. QED
    BY <2>1, <2>3, <2>5, <2>9, <2>10 DEF M!KeysMatchModules
<1>4. ASSUME NEW n \in Names, NEW m \in M!Module, n \in DOMAIN modules, modules' = M!insert(modules, n, m),
             UNCHANGED <<module_keys, authorized_callers, owner_id, admins>>
      PROVE  ModulesInv'
  <2>1. DOMAIN modules' = DOMAIN modules /\ modules' \in [DOMAIN modules' -> M!Module]
    BY <1>2, <1>4
  <2>2. QED
    BY <1>4, <2>1 DEF M!KeysMatchModules
<1>5. ASSUME NEW n \in Names, NEW m \in M!Module, M!update_module(caller, n, m)
      PROVE  ModulesInv'
  BY <1>4, <1>5 DEF M!update_module
<1>6. ASSUME NEW n \in Names, NEW s \in M!ModuleStatus, M!update_module_status(caller, n, s)
      PROVE  ModulesInv'
  <2>1. PICK m \in M!Module : m = [modules[n] EXCEPT !.status = s]
    BY <1>6 DEF M!update_module_status, M!Module
  <2>2. QED
    BY <1>4, <1>6, <2>1 DEF M!update_module_status
<1>7. ASSUME NEW n \in Names, M!remove_module(caller, n)
      PROVE  ModulesInv'
  <2>1. modules' = [x \in DOMAIN modules \ {n} |-> modules[x]] /\ UNCHANGED <<authorized_callers, owner_id, admins>>
        /\ module_keys' = retained(module_keys, Names \ {n})
    BY <1>7, SameLists DEF M!remove_module, M!remove
  <2>2. DOMAIN modules' = DOMAIN modules \ {n} /\ modules' \in [DOMAIN modules' -> M!Module]
    BY <2>1
  <2>3. PICK kept : kept = Names \ {n}
    OBVIOUS
  <2>4. PICK keys : keys = module_keys' /\ keys = retained(module_keys, kept)
    BY <2>1, <2>3
  <2>5. /\ keys \in Seq(Names)
        /\ \E p \in [DOMAIN keys -> DOMAIN module_keys] :
             /\ \A k \in DOMAIN keys : keys[k] = module_keys[p[k]] /\ keys[k] \in kept
             /\ \A m, k \in DOMAIN keys : m < k => p[m] < p[k]
             /\ \A i \in DOMAIN module_keys : module_keys[i] \in kept => \E k \in DOMAIN keys : p[k] = i
    BY <2>4, Retained
  <2>6. PICK p \in [DOMAIN keys -> DOMAIN module_keys] :
             /\ \A k \in DOMAIN keys : keys[k] = module_keys[p[k]] /\ keys[k] \in kept
             /\ \A m, k \in DOMAIN keys : m < k => p[m] < p[k]
             /\ \A i \in DOMAIN module_keys : module_keys[i] \in kept => \E k \in DOMAIN keys : p[k] = i
    BY <2>5
  <2>7. module_keys \in Seq(Names) /\ \A i \in DOMAIN module_keys : module_keys[i] \in Names
    BY ElementOfSeq, LenProperties
  <2>8. M!Range(keys) = M!Range(module_keys) \ {n}
    <3>1. \A x \in M!Range(keys) : x \in M!Range(module_keys) \ {n}
      BY <2>3, <2>6 DEF M!Range
    <3>2. ASSUME NEW x \in M!Range(module_keys) \ {n}
          PROVE  x \in M!Range(keys)
      <4>1. PICK i \in DOMAIN module_keys : module_keys[i] = x
        BY DEF M!Range
      <4>2. PICK k \in DOMAIN keys : p[k] = i
        BY <2>3, <2>6, <2>7, <4>1
      <4>3. QED
        BY <2>6, <4>1, <4>2 DEF M!Range
    <3>3. QED
      BY <3>1, <3>2
  <2>9. M!IsInjective(keys)
    <3> SUFFICES ASSUME NEW i \in DOMAIN keys, NEW j \in DOMAIN keys, keys[i] = keys[j]
                 PROVE  i = j
      BY DEF M!IsInjective
    <3>1. p[i] = p[j]
      BY <2>6 DEF M!KeysMatchModules, M!IsInjective
    <3>2. i \in Nat /\ j \in Nat /\ p[i] \in Nat /\ p[j] \in Nat
      <4>1. keys \in Seq(Names) /\ module_keys \in Seq(Names)
        BY <2>5, <2>7
      <4>2. DOMAIN keys = 1 .. Len(keys) /\ Len(keys) \in Nat
        BY <4>1, LenProperties
      <4>3. DOMAIN module_keys = 1 .. Len(module_keys) /\ Len(module_keys) \in Nat
        BY <4>1, LenProperties
      <4>4. QED
        BY <2>6, <4>2, <4>3
    <3>3. ~(i < j) /\ ~(j < i)
      BY <2>6, <3>1, <3>2
    <3>4. QED
      BY <3>2, <3>3
  <2>10. QED
    BY <2>1, <2>2, <2>4, <2>5, <2>8, <2>9 DEF M!KeysMatchModules
<1>8. ASSUME UNCHANGED <<modules, module_keys, owner_id, admins>>,
             NEW c \in Accounts,
             \/ \E ps \in SUBSET Permissions : authorized_callers' = M!insert(authorized_callers, c, ps)
             \/ authorized_callers' = M!remove(authorized_callers, c)
      PROVE  ModulesInv'
  <2>1. DOMAIN authorized_callers' \in SUBSET Accounts /\ authorized_callers' \in [DOMAIN authorized_callers' -> SUBSET Permissions]
    BY <1>8 DEF M!insert, M!remove
  <2>2. QED
    BY <1>8, <2>1 DEF M!KeysMatchModules
<1>9. ASSUME NEW c \in Accounts, NEW ps \in SUBSET Permissions, M!authorize_caller(caller, c, ps)
      PROVE  ModulesInv'
  BY <1>8, <1>9 DEF M!authorize_caller
<1>10. ASSUME NEW c \in Accounts, NEW ps \in SUBSET Permissions, M!revoke_permissions(caller, c, ps)
       PROVE  ModulesInv'
  BY <1>8, <1>10 DEF M!revoke_permissions
<1>11. ASSUME NEW c \in Accounts, M!revoke_all(caller, c)
       PROVE  ModulesInv'
  BY <1>8, <1>11 DEF M!revoke_all
<1>12. ASSUME NEW a \in Accounts, M!add_admin(caller, a) \/ M!remove_admin(caller, a) \/ M!transfer_ownership(caller, a)
       PROVE  ModulesInv'
  BY <1>12 DEF M!add_admin, M!remove_admin, M!transfer_ownership, M!KeysMatchModules
<1>13. QED
  BY <1>3, <1>5, <1>6, <1>7, <1>9, <1>10, <1>11, <1>12

(***************************************************************************)
(* Errors, and what is tried again.                                        *)
(***************************************************************************)
ErrorsInv == E!classesTypeOK /\ E!NoRetryWithoutFunds /\ E!GrantsJustified

(* Whatever else a message says, one about missing funds is not retried.   *)
LEMMA NoFundsNoRetry ==
  ASSUME NEW m, "insufficient funds" \in m
  PROVE  /\ ~E!retried(m) /\ ~E!is_retryable(E!parse_error_message(m))
         /\ E!is_retryable(E!from_anyhow(m)) => E!has(m, {"connect", "rate limit", "timeout"})
<1>1. E!has(m, {"insufficient funds", "gas required exceeds"}) /\ E!has(m, {"insufficient funds"})
  BY DEF E!has
<1>2. ~E!retried(m) /\ E!parse_error_message(m) = "InsufficientGas"
  BY <1>1 DEF E!retried, E!parse_error_message
<1>3. ASSUME ~E!has(m, {"connect", "rate limit", "timeout"})
      PROVE  ~E!is_retryable(E!from_anyhow(m))
  <2>1. ~E!has(m, {"connect"}) /\ ~E!has(m, {"rate limit"}) /\ ~E!has(m, {"timeout"})
    BY <1>3 DEF E!has
  <2>2. E!from_anyhow(m) \in {"NonceError", "GasEstimationError", "TransactionError", "ContractCallError", "TokenError", "InsufficientBalance"}
    BY <1>1, <2>1 DEF E!from_anyhow
  <2>3. QED
    BY <2>2 DEF E!is_retryable
<1>4. QED
  BY <1>2, <1>3 DEF E!is_retryable

LEMMA ErrorsInit == E!classesInit => ErrorsInv
BY ErrorNumbers DEF E!classesInit, ErrorsInv, E!classesTypeOK, E!NoRetryWithoutFunds, E!GrantsJustified, E!Classes

LEMMA ErrorsStep == ErrorsInv /\ [E!classesNext]_errorsVars => ErrorsInv'
<1> SUFFICES ASSUME ErrorsInv, [E!classesNext]_errorsVars
             PROVE  ErrorsInv'
  OBVIOUS
<1>1. E!NoRetryWithoutFunds'
  BY NoFundsNoRetry DEF E!NoRetryWithoutFunds
<1> USE ErrorNumbers DEF ErrorsInv, E!classesTypeOK, E!GrantsJustified
<1>2. CASE UNCHANGED errorsVars \/ E!over
  BY <1>1, <1>2 DEF errorsVars, E!over, E!classesVars
<1>3. CASE E!handle_transaction_error
  BY <1>1, <1>3 DEF E!handle_transaction_error, E!grants
<1>4. ASSUME NEW m \in E!Msgs, NEW c \in E!Classes, E!fails(m, c)
      PROVE  ErrorsInv'
  <2>1. m \subseteq E!Words
    BY DEF E!Msgs
  <2>2. QED
    BY <1>1, <1>4, <2>1 DEF E!fails
<1>5. QED
  BY <1>2, <1>3, <1>4 DEF E!classesNext

(***************************************************************************)
(* The store of errors.  A change of status keeps the identifier it has    *)
(* read, and what a cleanup has yet to remove was old when it began.       *)
(***************************************************************************)
StoreInv ==
  /\ E!storeTypeOK /\ E!YoungErrorsKept
  /\ eh_update # E!none => \E i \in E!Ids, s \in Statuses : eh_update = <<i[1], i[2], s>>
  /\ eh_cleaning # E!idle => \A i \in eh_cleaning \cup eh_old : E!age(i) > MaxAge
  /\ eh_cleaning # E!idle => \A i \in eh_old \ eh_cleaning : i \in E!present => i \in eh_revived

LEMMA StoreInit == E!storeInit => StoreInv
BY ErrorNumbers DEF E!storeInit, StoreInv, E!storeTypeOK, E!YoungErrorsKept, E!none, E!idle, E!present

LEMMA IdleIsNoSet == ~(E!idle \subseteq E!Ids)
BY DEF E!idle, E!Ids

LEMMA StoreStep ==
  StoreInv /\ [E!storeNext]_error_storeVars =>
    /\ StoreInv'
    /\ eh_cleaning # E!idle /\ eh_cleaning' = E!idle => eh_old \cap E!present \subseteq eh_revived
<1> SUFFICES ASSUME StoreInv, [E!storeNext]_error_storeVars
             PROVE  StoreInv' /\ (eh_cleaning # E!idle /\ eh_cleaning' = E!idle => eh_old \cap E!present \subseteq eh_revived)
  OBVIOUS
<1> DEFINE EndsClean == eh_cleaning # E!idle /\ eh_cleaning' = E!idle => eh_old \cap E!present \subseteq eh_revived
<1>a. \A i \in E!Ids : i = <<i[1], i[2]>> /\ i[1] \in ErrorNames /\ i[2] \in 0 .. LastMoment
  BY DEF E!Ids
<1> USE ErrorNumbers DEF StoreInv, E!storeTypeOK, E!YoungErrorsKept, E!ghosts, E!present, E!age
<1>1. CASE UNCHANGED error_storeVars
  BY <1>1 DEF error_storeVars
<1>2. CASE E!store_tick
  BY <1>2, <1>a DEF E!store_tick
<1>3. CASE E!update_error_status
  BY <1>3, <1>a DEF E!update_error_status
<1>4. CASE E!clear_errors
  BY <1>4 DEF E!clear_errors, E!takes
<1>5. CASE E!get_errors
  BY <1>5, IdleIsNoSet DEF E!get_errors, E!old
<1>6. CASE E!cleanup_ends
  BY <1>6 DEF E!cleanup_ends
<1>7. ASSUME NEW i \in E!Ids, E!cleanup_removes(i)
      PROVE  StoreInv' /\ EndsClean
  BY <1>7, <1>a, IdleIsNoSet DEF E!cleanup_removes
<1>8. ASSUME NEW name \in ErrorNames, E!add_transaction_error(name)
      PROVE  StoreInv' /\ EndsClean
  BY <1>8, <1>a DEF E!add_transaction_error, E!Ids
<1>9. ASSUME NEW i \in E!Ids, E!remove_error(i) \/ E!not_found(i)
      PROVE  StoreInv' /\ EndsClean
  BY <1>9 DEF E!remove_error, E!takes, E!not_found, E!storeVars
<1>10. ASSUME NEW i \in E!Ids, NEW s \in Statuses, E!get_error(i, s)
       PROVE  StoreInv' /\ EndsClean
  BY <1>10, <1>a DEF E!get_error
<1>11. QED
  BY <1>1, <1>2, <1>3, <1>4, <1>5, <1>6, <1>7, <1>8, <1>9, <1>10 DEF E!storeNext, E!cleanup_old_errors

(***************************************************************************)
(* The breaker: as many timers run as it is open.                          *)
(***************************************************************************)
BreakerInv == K!breakerTypeOK /\ K!OpenHasItsTimer

LEMMA BreakerInit == K!breakerInit => BreakerInv
BY RetryNumbers DEF K!breakerInit, BreakerInv, K!breakerTypeOK, K!OpenHasItsTimer

LEMMA BreakerStep == BreakerInv /\ [K!breakerNext]_circuit_breakerVars => BreakerInv'
<1> SUFFICES ASSUME BreakerInv, [K!breakerNext]_circuit_breakerVars
             PROVE  BreakerInv'
  OBVIOUS
<1> USE RetryNumbers DEF BreakerInv, K!breakerTypeOK, K!OpenHasItsTimer
<1>1. CASE UNCHANGED circuit_breakerVars \/ K!cannot_execute
  BY <1>1 DEF circuit_breakerVars, K!cannot_execute, K!breakerVars
<1>2. CASE K!reset_timeout
  BY <1>2 DEF K!reset_timeout
<1>3. ASSUME NEW c \in BreakerCalls, K!can_execute(c)
      PROVE  BreakerInv'
  BY <1>3 DEF K!can_execute
<1>4. ASSUME NEW c \in BreakerCalls, K!on_success(c)
      PROVE  BreakerInv'
  BY <1>4 DEF K!on_success, K!call_ends
<1>5. ASSUME NEW c \in BreakerCalls, K!on_failure(c)
      PROVE  BreakerInv'
  BY <1>5 DEF K!on_failure, K!call_ends
<1>6. QED
  BY <1>1, <1>2, <1>3, <1>4, <1>5 DEF K!breakerNext

(***************************************************************************)
(* The retry policy.  While a call tries, it has tried once more often     *)
(* than it has retried; while it sleeps, it has counted the retry to come. *)
(***************************************************************************)
PolicyInv ==
  /\ K!policyTypeOK /\ K!StatsMissFirstTries /\ K!DelayBounded
  /\ \A c \in RetryCallers : /\ cr_step[c] = "trying" => cr_tried[c] = cr_again[c] + 1
                             /\ cr_step[c] = "sleeping" => cr_tried[c] = cr_again[c]

(* The greatest and the least of two numbers. *)
LEMMA OfTwo ==
  ASSUME NEW a \in Nat, NEW b \in Nat
  PROVE  /\ K!Max({a, b}) = IF a > b THEN a ELSE b
         /\ K!Min({a, b}) = IF a < b THEN a ELSE b
<1>1. K!Max({a, b}) = CHOOSE x \in {a, b} : \A y \in {a, b} : x >= y
  BY DEF K!Max
<1>2. K!Min({a, b}) = CHOOSE x \in {a, b} : \A y \in {a, b} : x <= y
  BY DEF K!Min
<1>3. CASE a > b
  <2>1. \A x : x \in {a, b} /\ (\A y \in {a, b} : x >= y) <=> x \in {a} /\ TRUE
    BY <1>3
  <2>2. \A x : x \in {a, b} /\ (\A y \in {a, b} : x <= y) <=> x \in {b} /\ TRUE
    BY <1>3
  <2>3. QED
    BY <1>1, <1>2, <1>3, <2>1, <2>2
<1>4. CASE ~(a > b)
  <2>1. \A x : x \in {a, b} /\ (\A y \in {a, b} : x >= y) <=> x \in {b} /\ TRUE
    BY <1>4
  <2>2. \A x : x \in {a, b} /\ (\A y \in {a, b} : x <= y) <=> x \in {a} /\ TRUE
    BY <1>4
  <2>3. QED
    BY <1>1, <1>2, <1>4, <2>1, <2>2
<1>5. QED
  BY <1>3, <1>4

LEMMA PolicyInit == K!policyInit => PolicyInv
<1> SUFFICES ASSUME K!policyInit PROVE PolicyInv
  OBVIOUS
<1>1. K!Max({InitialDelay, MaxDelay}) \in Nat
  BY OfTwo, RetryNumbers
<1>2. QED
  BY <1>1, RetryNumbers DEF K!policyInit, PolicyInv, K!policyTypeOK, K!StatsMissFirstTries, K!DelayBounded

LEMMA PolicyStep == PolicyInv /\ [K!policyNext]_common_retryVars => PolicyInv'
<1> SUFFICES ASSUME PolicyInv, [K!policyNext]_common_retryVars
             PROVE  PolicyInv'
  OBVIOUS
<1>a. PICK most \in Nat : most = K!Max({InitialDelay, MaxDelay}) /\ InitialDelay <= most /\ MaxDelay <= most
  BY OfTwo, RetryNumbers
<1>b. \A c \in RetryCallers : K!grown(cr_delay[c]) \in Nat /\ K!grown(cr_delay[c]) <= MaxDelay
  <2> TAKE c \in RetryCallers
  <2>1. PICK longer \in Nat : longer = cr_delay[c] * Factor
    BY RetryNumbers DEF PolicyInv, K!policyTypeOK
  <2>2. K!grown(cr_delay[c]) = K!Min({longer, MaxDelay})
    BY <2>1 DEF K!grown
  <2>3. PICK greatest \in Nat : greatest = MaxDelay
    BY RetryNumbers
  <2>4. K!Min({longer, greatest}) = IF longer < greatest THEN longer ELSE greatest
    BY OfTwo
  <2>5. QED
    BY <2>2, <2>3, <2>4
<1> USE RetryNumbers DEF PolicyInv, K!policyTypeOK, K!StatsMissFirstTries, K!counts, K!goes
<1>1. CASE UNCHANGED common_retryVars
  BY <1>1 DEF common_retryVars, K!DelayBounded
<1>2. CASE K!set_enabled
  BY <1>2 DEF K!set_enabled, K!DelayBounded
<1>3. ASSUME NEW c \in RetryCallers, K!retry(c)
      PROVE  PolicyInv'
  BY <1>3, <1>a DEF K!retry, K!DelayBounded
<1>4. ASSUME NEW c \in RetryCallers, K!tried_once(c)
      PROVE  PolicyInv'
  BY <1>4 DEF K!tried_once, K!DelayBounded
<1>5. ASSUME NEW c \in RetryCallers, K!succeeds(c)
      PROVE  PolicyInv'
  <2>1. /\ cr_step[c] = "trying" /\ cr_step' = [cr_step EXCEPT ![c] = "idle"] /\ cr_total' = cr_total + cr_again[c] /\ cr_ended' = cr_ended + 1
        /\ cr_tries' = cr_tries + cr_tried[c] /\ cr_tried' = [cr_tried EXCEPT ![c] = 0] /\ cr_ok' = cr_ok + 1
        /\ UNCHANGED <<cr_enabled, cr_again, cr_delay, cr_rounds, cr_failed>>
    BY <1>5 DEF K!succeeds, K!ends
  <2>2. cr_again[c] \in 0 .. MaxAgain /\ cr_tried[c] = cr_again[c] + 1
    BY <2>1
  <2>3. K!StatsMissFirstTries'
    BY <2>1, <2>2
  <2>4. K!policyTypeOK'
    BY <2>1, <2>2
  <2>5. QED
    BY <2>1, <2>3, <2>4 DEF K!DelayBounded
<1>6. ASSUME NEW c \in RetryCallers, K!gives_up(c)
      PROVE  PolicyInv'
  BY <1>6 DEF K!gives_up, K!ends, K!DelayBounded
<1>7. ASSUME NEW c \in RetryCallers, K!sleeps(c)
      PROVE  PolicyInv'
  <2>1. /\ cr_again[c] < MaxAgain /\ cr_step[c] = "trying" /\ cr_step' = [cr_step EXCEPT ![c] = "sleeping"]
        /\ cr_again' = [cr_again EXCEPT ![c] = @ + 1]
        /\ UNCHANGED <<cr_enabled, cr_delay, cr_total, cr_ok, cr_failed, cr_ended, cr_tried, cr_tries, cr_rounds>>
    BY <1>7 DEF K!sleeps
  <2>2. cr_again[c] + 1 \in 0 .. MaxAgain /\ cr_tried[c] = cr_again[c] + 1
    BY <2>1
  <2>3. cr_again' \in [RetryCallers -> 0 .. MaxAgain] /\ cr_again'[c] = cr_again[c] + 1 /\ \A d \in RetryCallers : d # c => cr_again'[d] = cr_again[d]
    BY <2>1, <2>2
  <2>4. cr_step' \in [RetryCallers -> {"idle", "once", "trying", "sleeping"}] /\ cr_step'[c] = "sleeping" /\ \A d \in RetryCallers : d # c => cr_step'[d] = cr_step[d]
    BY <2>1
  <2>5. QED
    BY <2>1, <2>2, <2>3, <2>4 DEF K!DelayBounded
<1>8. ASSUME NEW c \in RetryCallers, K!wakes(c)
      PROVE  PolicyInv'
  BY <1>8, <1>a, <1>b DEF K!wakes, K!DelayBounded
<1>9. QED
  BY <1>1, <1>2, <1>3, <1>4, <1>5, <1>6, <1>7, <1>8 DEF K!policyNext

(***************************************************************************)
(* The endpoints of a chain.  A check holds the lock until the list is in  *)
(* order again, and only then is the list read.                            *)
(***************************************************************************)
Urls1(list) == \A i, j \in DOMAIN list : list[i].url = list[j].url => i = j
InOrder(list) == \A i, j \in DOMAIN list : i < j /\ list[i].enabled /\ list[j].enabled => list[j].priority <= list[i].priority

ManagerInv ==
  /\ em_list \in Seq(N!Endpoint) /\ Urls1(em_list)
  /\ em_checking \in {N!None} \cup 0 .. Len(em_list)
  /\ N!unlocked => InOrder(em_list)

(* No list of different endpoints is longer than there are urls.           *)
LEMMA ManagerTypes == ManagerInv => N!managerTypeOK
<1> SUFFICES ASSUME ManagerInv PROVE N!managerTypeOK
  OBVIOUS
<1>1. em_list \in Seq(N!Endpoint) /\ Len(em_list) \in Nat /\ DOMAIN em_list = 1 .. Len(em_list)
      /\ \A i \in 1 .. Len(em_list) : em_list[i] \in N!Endpoint
  BY LenProperties, ElementOfSeq DEF ManagerInv
<1>2. PICK f : f = [i \in 1 .. Len(em_list) |-> em_list[i].url]
  OBVIOUS
<1>3. f \in Injection(1 .. Len(em_list), EndpointUrls)
  BY <1>1, <1>2 DEF ManagerInv, Urls1, Injection, IsInjective, N!Endpoint
<1>4. Cardinality(1 .. Len(em_list)) <= Cardinality(EndpointUrls) /\ IsFiniteSet(EndpointUrls)
  BY <1>3, EndpointNumbers, FS_Injection
<1>5. Cardinality(1 .. Len(em_list)) = Len(em_list)
  <2>1. IsFiniteSet(1 .. Len(em_list)) /\ Cardinality(1 .. Len(em_list)) = IF 1 > Len(em_list) THEN 0 ELSE Len(em_list) - 1 + 1
    BY <1>1, FS_Interval
  <2>2. QED
    BY <1>1, <2>1
<1>6. N!Cardinality(EndpointUrls) = Cardinality(EndpointUrls) /\ Cardinality(EndpointUrls) \in Nat
  BY <1>4, FS_CardinalityType DEF N!Cardinality, N!IsFiniteSet, Cardinality, IsFiniteSet
<1>7. em_checking \in {N!None} \cup 0 .. N!Cardinality(EndpointUrls)
  BY <1>1, <1>4, <1>5, <1>6 DEF ManagerInv
<1>8. QED
  BY <1>1, <1>7 DEF N!managerTypeOK, N!ToSet

(* What is given of a list in order is an endpoint of the highest priority. *)
LEMMA ManagerMeans == ManagerInv => N!BestIsBest
<1> SUFFICES ASSUME ManagerInv, N!unlocked, N!enabled # <<>>
             PROVE  \A i \in DOMAIN N!enabled : N!enabled[i].priority <= N!enabled[1].priority
  BY DEF N!BestIsBest
<1>1. PICK on, given : on = {e \in N!Endpoint : e.enabled} /\ given = retained(em_list, on) /\ given = N!enabled
  BY SameLists DEF N!enabled
<1>2. em_list \in Seq(N!Endpoint) /\ InOrder(em_list) /\ DOMAIN em_list = 1 .. Len(em_list) /\ Len(em_list) \in Nat
      /\ \A i \in DOMAIN em_list : em_list[i] \in N!Endpoint
  BY LenProperties, ElementOfSeq DEF ManagerInv
<1>3. /\ given \in Seq(N!Endpoint)
      /\ \E p \in [DOMAIN given -> DOMAIN em_list] :
           /\ \A n \in DOMAIN given : given[n] = em_list[p[n]] /\ given[n] \in on
           /\ \A m, n \in DOMAIN given : m < n => p[m] < p[n]
  <2>1. PICK S, list : S = N!Endpoint /\ list = em_list /\ list \in Seq(S) /\ given = retained(list, on)
    BY <1>1, <1>2
  <2>2. /\ given \in Seq(S)
        /\ \E p \in [DOMAIN given -> DOMAIN list] :
             /\ \A n \in DOMAIN given : given[n] = list[p[n]] /\ given[n] \in on
             /\ \A m, n \in DOMAIN given : m < n => p[m] < p[n]
             /\ \A i \in DOMAIN list : list[i] \in on => \E n \in DOMAIN given : p[n] = i
    BY <2>1, Retained
  <2>3. QED
    BY <2>1, <2>2
<1>4. PICK p \in [DOMAIN given -> DOMAIN em_list] :
           /\ \A n \in DOMAIN given : given[n] = em_list[p[n]] /\ given[n] \in on
           /\ \A m, n \in DOMAIN given : m < n => p[m] < p[n]
  BY <1>3
<1>5. Len(given) \in Nat /\ DOMAIN given = 1 .. Len(given) /\ given # <<>>
  BY <1>1, <1>3, LenProperties
<1>6. ASSUME NEW i \in DOMAIN given
      PROVE  given[i].priority <= given[1].priority
  <2>1. 1 \in DOMAIN given /\ i \in Nat /\ (i = 1 \/ 1 < i)
    BY <1>5, <1>6
  <2>2. p[1] \in DOMAIN em_list /\ p[i] \in DOMAIN em_list /\ given[1] = em_list[p[1]] /\ given[i] = em_list[p[i]]
        /\ em_list[p[1]].enabled /\ em_list[p[i]].enabled
    BY <1>1, <1>4, <1>6, <2>1
  <2>3. CASE 1 < i
    BY <1>2, <1>4, <1>6, <2>1, <2>2, <2>3 DEF InOrder
  <2>4. CASE i = 1
    <3>1. given[1].priority \in Int
      BY <1>2, <2>2, EndpointNumbers DEF N!Endpoint
    <3>2. QED
      BY <2>4, <3>1
  <2>5. QED
    BY <2>1, <2>3, <2>4
<1>7. QED
  BY <1>1, <1>6

(* Both orders are orders of the endpoints, and bring the enabled ones in order. *)
LEMMA Orders ==
  ASSUME NEW list \in Seq(N!Endpoint), Urls1(list), NEW order, order \in {N!higher, N!before},
         NEW r, r = sorted(list, order)
  PROVE  r \in Seq(N!Endpoint) /\ Len(r) = Len(list) /\ Urls1(r) /\ InOrder(r)
<1>1. \A a, b \in N!Endpoint : /\ <<a, b>> \in N!higher <=> a.priority > b.priority
                               /\ <<a, b>> \in N!before <=> (a.enabled /\ ~b.enabled) \/ (a.enabled = b.enabled /\ a.priority > b.priority)
  BY DEF N!higher, N!before
<1>2. \A a \in N!Endpoint : a.priority \in Int /\ a.enabled \in BOOLEAN
  BY EndpointNumbers DEF N!Endpoint
<1>3. /\ \A a, b, c \in N!Endpoint : <<a, b>> \in order => <<a, c>> \in order \/ <<c, b>> \in order
      /\ \A a \in N!Endpoint : <<a, a>> \notin order
      /\ \A a, b \in N!Endpoint : <<a, b>> \in order => <<b, a>> \notin order
      /\ \A a, b \in N!Endpoint : a.enabled /\ b.enabled => (<<a, b>> \in order <=> a.priority > b.priority)
  <2>1. CASE order = N!higher
    BY <1>1, <1>2, <2>1
  <2>2. CASE order = N!before
    BY <1>1, <1>2, <2>2
  <2>3. QED
    BY <2>1, <2>2
<1>4. PICK S : S = N!Endpoint
  OBVIOUS
<1>5. /\ r \in Seq(S) /\ Len(r) = Len(list)
      /\ \E p \in [DOMAIN list -> DOMAIN list] :
           /\ \A n \in DOMAIN list : r[n] = list[p[n]]
           /\ \A m, n \in DOMAIN list : p[m] = p[n] => m = n
      /\ \A m, n \in DOMAIN list : m < n => <<r[n], r[m]>> \notin order
  <2>1. /\ \A a, b, c \in S : <<a, b>> \in order => <<a, c>> \in order \/ <<c, b>> \in order
        /\ \A a \in S : <<a, a>> \notin order
        /\ \A a, b \in S : <<a, b>> \in order => <<b, a>> \notin order
        /\ list \in Seq(S) /\ r = sorted(list, order)
    BY <1>3, <1>4
  <2>2. /\ r \in Seq(S) /\ Len(r) = Len(list)
        /\ \E p \in [DOMAIN list -> DOMAIN list] :
             /\ \A n \in DOMAIN list : r[n] = list[p[n]]
             /\ \A i \in DOMAIN list : \E n \in DOMAIN list : p[n] = i
             /\ \A m, n \in DOMAIN list : p[m] = p[n] => m = n
        /\ \A m, n \in DOMAIN list : m < n => <<r[n], r[m]>> \notin order
    BY <2>1, Sorted
  <2>3. QED
    BY <2>2
<1>6. DOMAIN r = DOMAIN list /\ \A i \in DOMAIN r : r[i] \in N!Endpoint
  BY <1>4, <1>5, LenProperties, ElementOfSeq
<1>7. Urls1(r)
  BY <1>5, <1>6 DEF Urls1
<1>8. InOrder(r)
  <2> SUFFICES ASSUME NEW i \in DOMAIN r, NEW j \in DOMAIN r, i < j, r[i].enabled, r[j].enabled
               PROVE  r[j].priority <= r[i].priority
    BY DEF InOrder
  <2>1. PICK a \in N!Endpoint, b \in N!Endpoint : a = r[i] /\ b = r[j]
    BY <1>6
  <2>2. <<b, a>> \notin order /\ a.enabled /\ b.enabled
    BY <1>5, <1>6, <2>1
  <2>3. ~(b.priority > a.priority)
    BY <1>3, <2>2
  <2>4. QED
    BY <1>2, <2>1, <2>3
<1>9. QED
  BY <1>4, <1>5, <1>7, <1>8

LEMMA ManagerInit == N!managerInit => ManagerInv
<1> SUFFICES ASSUME N!managerInit PROVE ManagerInv
  OBVIOUS
<1>1. em_list = <<>> /\ em_list \in Seq(N!Endpoint) /\ DOMAIN em_list = {} /\ em_checking = N!None
  BY EmptySeq DEF N!managerInit
<1>2. QED
  BY <1>1 DEF ManagerInv, Urls1, InOrder

LEMMA ManagerStep == ManagerInv /\ [N!managerNext]_endpoint_managerVars => ManagerInv'
<1> SUFFICES ASSUME ManagerInv, [N!managerNext]_endpoint_managerVars
             PROVE  ManagerInv'
  OBVIOUS
<1>a. em_list \in Seq(N!Endpoint) /\ Len(em_list) \in Nat /\ DOMAIN em_list = 1 .. Len(em_list)
      /\ \A i \in 1 .. Len(em_list) : em_list[i] \in N!Endpoint
  BY LenProperties, ElementOfSeq DEF ManagerInv
<1>1. CASE \/ UNCHANGED endpoint_managerVars \/ N!get_best_endpoint \/ N!get_endpoints_for_chain
           \/ \E e : N!add_known(e)
  BY <1>1 DEF ManagerInv, endpoint_managerVars, N!get_best_endpoint, N!get_endpoints_for_chain, N!add_known, N!managerVars, N!unlocked
<1>2. CASE N!start_endpoint_manager_service
  BY <1>2, <1>a DEF N!start_endpoint_manager_service, ManagerInv, N!unlocked, N!None
<1>b. ASSUME NEW i \in DOMAIN em_list, NEW up \in BOOLEAN, em_list' = [em_list EXCEPT ![i].enabled = up]
      PROVE  /\ em_list' \in Seq(N!Endpoint) /\ Len(em_list') = Len(em_list) /\ Urls1(em_list')
             /\ ~up /\ InOrder(em_list) => InOrder(em_list')
  <2>1. PICK e : e = [em_list[i] EXCEPT !.enabled = up] /\ em_list' = [em_list EXCEPT ![i] = e]
    BY <1>b
  <2>2. e \in N!Endpoint /\ e.url = em_list[i].url /\ e.enabled = up
    BY <1>a, <2>1 DEF N!Endpoint
  <2>3. em_list' \in Seq(N!Endpoint) /\ Len(em_list') = Len(em_list)
        /\ \A j \in 1 .. Len(em_list) : em_list'[j] = IF j = i THEN e ELSE em_list[j]
    BY <1>a, <2>1, <2>2, ExceptSeq
  <2>4. DOMAIN em_list' = DOMAIN em_list
    BY <2>1
  <2>5. Urls1(em_list')
    BY <1>a, <2>2, <2>3, <2>4 DEF ManagerInv, Urls1
  <2>6. ~up /\ InOrder(em_list) => InOrder(em_list')
    BY <1>a, <2>2, <2>3, <2>4 DEF InOrder
  <2>7. QED
    BY <2>3, <2>5, <2>6
<1>3. CASE N!check_endpoints_health
  <2>1. PICK up \in BOOLEAN : em_list' = [em_list EXCEPT ![em_checking + 1].enabled = up]
    BY <1>3 DEF N!check_endpoints_health, N!check_endpoint_health
  <2>2. em_checking \in 0 .. Len(em_list) /\ em_checking < Len(em_list) /\ em_checking' = em_checking + 1
    BY <1>3 DEF N!check_endpoints_health, ManagerInv, N!unlocked
  <2>3. PICK i \in DOMAIN em_list : i = em_checking + 1
    BY <1>a, <2>2
  <2>4. em_list' = [em_list EXCEPT ![i].enabled = up]
    BY <2>1, <2>3
  <2>5. em_list' \in Seq(N!Endpoint) /\ Len(em_list') = Len(em_list) /\ Urls1(em_list')
    BY <1>b, <2>4
  <2>6. em_checking' \in 0 .. Len(em_list) /\ em_checking' # N!None
    BY <1>a, <2>2 DEF N!None
  <2>7. QED
    BY <2>5, <2>6 DEF ManagerInv, N!unlocked
<1>4. CASE N!health_checked
  <2>1. PICK order : order = N!before
    OBVIOUS
  <2>2. em_list' = sorted(em_list, order) /\ em_checking' = N!None
    BY <1>4, <2>1, SameLists DEF N!health_checked
  <2>3. em_list' \in Seq(N!Endpoint) /\ Len(em_list') = Len(em_list) /\ Urls1(em_list') /\ InOrder(em_list')
    <3>1. PICK r : r = em_list' /\ r = sorted(em_list, order)
      BY <2>2
    <3>2. r \in Seq(N!Endpoint) /\ Len(r) = Len(em_list) /\ Urls1(r) /\ InOrder(r)
      BY <2>1, <3>1, Orders DEF ManagerInv
    <3>3. QED
      BY <3>1, <3>2
  <2>4. QED
    BY <2>2, <2>3 DEF ManagerInv
<1>5. ASSUME NEW e \in [url : EndpointUrls, priority : Priorities, enabled : {TRUE}], N!add_endpoint(e)
      PROVE  ManagerInv'
  <2>1. e \in N!Endpoint
    BY DEF N!Endpoint
  <2>2. PICK order, list : order = N!higher /\ list = Append(em_list, e)
    OBVIOUS
  <2>3. list \in Seq(N!Endpoint) /\ Len(list) = Len(em_list) + 1 /\ list[Len(em_list) + 1] = e
        /\ DOMAIN list = 1 .. Len(em_list) + 1 /\ \A i \in 1 .. Len(em_list) : list[i] = em_list[i]
    BY <1>a, <2>1, <2>2, AppendProperties
  <2>4. \A i \in 1 .. Len(em_list) : em_list[i].url # e.url
    BY <1>5, <1>a DEF N!add_endpoint
  <2>5. Urls1(list)
    <3>1. \A i \in 1 .. Len(em_list) + 1 : i \in 1 .. Len(em_list) \/ i = Len(em_list) + 1
      BY <1>a
    <3> SUFFICES ASSUME NEW i \in 1 .. Len(em_list) + 1, NEW j \in 1 .. Len(em_list) + 1, list[i].url = list[j].url
                 PROVE  i = j
      BY <2>3 DEF Urls1
    <3>2. CASE i \in 1 .. Len(em_list) /\ j \in 1 .. Len(em_list)
      BY <1>a, <2>3, <3>2 DEF ManagerInv, Urls1
    <3>3. CASE i = Len(em_list) + 1 \/ j = Len(em_list) + 1
      BY <2>3, <2>4, <3>1, <3>3
    <3>4. QED
      BY <3>1, <3>2, <3>3
  <2>6. PICK r : r = em_list' /\ r = sorted(list, order)
    BY <1>5, <2>2, SameLists DEF N!add_endpoint
  <2>7. r \in Seq(N!Endpoint) /\ Len(r) = Len(list) /\ Urls1(r) /\ InOrder(r)
    BY <2>2, <2>3, <2>5, <2>6, Orders
  <2>8. em_checking' = N!None
    BY <1>5 DEF N!add_endpoint, N!unlocked
  <2>9. QED
    BY <2>6, <2>7, <2>8 DEF ManagerInv
<1>6. ASSUME NEW url, N!disable_endpoint(url)
      PROVE  ManagerInv'
  <2>1. PICK i \in DOMAIN em_list : em_list' = [em_list EXCEPT ![i].enabled = FALSE]
    BY <1>6 DEF N!disable_endpoint
  <2>2. PICK up \in BOOLEAN : up = FALSE
    OBVIOUS
  <2>3. em_list' = [em_list EXCEPT ![i].enabled = up] /\ ~up
    BY <2>1, <2>2
  <2>4. /\ em_list' \in Seq(N!Endpoint) /\ Len(em_list') = Len(em_list) /\ Urls1(em_list')
        /\ ~up /\ InOrder(em_list) => InOrder(em_list')
    BY <1>b, <2>3
  <2>5. em_checking = N!None /\ UNCHANGED em_checking
    BY <1>6 DEF N!disable_endpoint, N!unlocked
  <2>6. QED
    BY <2>3, <2>4, <2>5 DEF ManagerInv, N!unlocked
<1>7. QED
  BY <1>1, <1>2, <1>3, <1>4, <1>5, <1>6 DEF N!managerNext

(***************************************************************************)
(* The statistics of an endpoint.                                          *)
(***************************************************************************)
StatsInv ==
  /\ N!statsTypeOK /\ N!StatsDriftDown
  /\ es_total # 0 => es_seen # {}

(* An average that is rounded down moves towards the new value, not past it. *)
LEMMA Between ==
  ASSUME NEW a \in Nat, NEW t \in Nat, NEW l \in Nat, NEW q, q = (a * t + l) \div (t + 1)
  PROVE  q \in Nat /\ (l <= a => l <= q /\ q <= a) /\ (a <= l => a <= q /\ q <= l)
<1>1. PICK at \in Nat : at = a * t
  OBVIOUS
<1>2. at + l \in Nat /\ t + 1 \in Nat \ {0}
  OBVIOUS
<1>3. \A x \in Nat, y \in Nat \ {0} : (x \div y) \in Nat /\ y * (x \div y) <= x /\ x < y * (x \div y) + y
  OBVIOUS
<1>4. q \in Nat /\ (t + 1) * q <= at + l /\ at + l < (t + 1) * q + (t + 1)
  BY <1>1, <1>2, <1>3
<1>5. \A x, y \in Nat : x < y => t * x <= t * y /\ (t + 1) * y = t * y + y /\ (t + 1) * x = t * x + x
  <2> TAKE x \in Nat, y \in Nat
  <2>1. \A d \in Nat : t * d \in Nat /\ t * (x + d) = t * x + t * d
    OBVIOUS
  <2>2. CASE x < y
    <3>1. PICK d \in Nat : y = x + d
      <4>1. y - x \in Nat /\ y = x + (y - x)
        BY <2>2
      <4>2. QED
        BY <4>1
    <3>2. t * x \in Nat /\ t * y \in Nat /\ t * y = t * x + t * d /\ t * d \in Nat
      BY <2>1, <3>1
    <3>3. QED
      BY <3>2
  <2>3. QED
    BY <2>2
<1>6. at = t * a
  BY <1>1
<1>7. t * q \in Nat /\ (t + 1) * q = t * q + q
  BY <1>4
<1>8. ASSUME l <= a PROVE l <= q /\ q <= a
  <2>1. ~(a < q)
    BY <1>4, <1>5, <1>6, <1>8
  <2>2. ~(q < l)
    <3>1. SUFFICES ASSUME q < l PROVE FALSE
      OBVIOUS
    <3>2. q < a /\ q + 1 \in Nat /\ q + 1 <= l /\ q + 1 <= a
      BY <1>4, <1>8, <3>1
    <3>3. t * (q + 1) <= t * a
      <4>1. PICK c \in Nat : c = q + 1 /\ (c < a \/ c = a)
        BY <3>2
      <4>2. t * c <= t * a
        BY <1>5, <4>1
      <4>3. QED
        BY <4>1, <4>2
    <3>4. t * (q + 1) = t * q + t
      BY <1>4
    <3>5. QED
      BY <1>4, <1>6, <1>7, <3>2, <3>3, <3>4
  <2>3. QED
    BY <1>4, <2>1, <2>2
<1>9. ASSUME a <= l PROVE a <= q /\ q <= l
  <2>1. ~(l < q)
    <3>1. SUFFICES ASSUME l < q PROVE FALSE
      OBVIOUS
    <3>2. a < q
      BY <1>4, <1>9, <3>1
    <3>3. t * a <= t * q
      BY <1>4, <1>5, <3>2
    <3>4. QED
      BY <1>4, <1>6, <1>7, <3>1, <3>3
  <2>2. ~(q < a)
    <3>1. SUFFICES ASSUME q < a PROVE FALSE
      OBVIOUS
    <3>2. q + 1 \in Nat /\ q + 1 <= a /\ q + 1 <= l
      BY <1>4, <1>9, <3>1
    <3>3. t * (q + 1) <= t * a
      <4>1. PICK c \in Nat : c = q + 1 /\ (c < a \/ c = a)
        BY <3>2
      <4>2. t * c <= t * a
        BY <1>5, <4>1
      <4>3. QED
        BY <4>1, <4>2
    <3>4. t * (q + 1) = t * q + t
      BY <1>4
    <3>5. QED
      BY <1>4, <1>6, <1>7, <3>2, <3>3, <3>4
  <2>3. QED
    BY <1>4, <2>1, <2>2
<1>10. QED
  BY <1>4, <1>8, <1>9

LEMMA StatsInit == N!statsInit => StatsInv
BY EndpointNumbers DEF N!statsInit, StatsInv, N!statsTypeOK, N!StatsDriftDown

LEMMA StatsStep == StatsInv /\ [N!statsNext]_endpoint_statsVars => StatsInv'
<1> SUFFICES ASSUME StatsInv, [N!statsNext]_endpoint_statsVars
             PROVE  StatsInv'
  OBVIOUS
<1>1. CASE UNCHANGED endpoint_statsVars \/ N!get_stats
  BY <1>1 DEF StatsInv, N!statsTypeOK, N!StatsDriftDown, endpoint_statsVars, N!get_stats, N!statsVars
<1>2. ASSUME NEW s \in BOOLEAN, NEW l \in Latencies, N!update_stats(s, l)
      PROVE  StatsInv'
  <2>1. PICK a \in Nat, t \in Nat, i \in Nat : a = es_avg /\ t = es_total /\ i = l
    BY EndpointNumbers DEF StatsInv, N!statsTypeOK
  <2>2. PICK q : q = es_avg' /\ q = (a * t + i) \div (t + 1)
    BY <1>2, <2>1 DEF N!update_stats, N!average
  <2>3. q \in Nat /\ (i <= a => i <= q /\ q <= a) /\ (a <= i => a <= q /\ q <= i)
    BY <2>2, Between
  <2>4. es_seen' = es_seen \cup {l} /\ es_seen' \subseteq Latencies
    BY <1>2 DEF N!update_stats, StatsInv, N!statsTypeOK
  <2>5. (\E x \in es_seen' : x <= es_avg') /\ (\E x \in es_seen' : es_avg' <= x)
    <3>1. CASE es_seen = {}
      <4>1. t = 0
        BY <2>1, <3>1 DEF StatsInv
      <4>2. q = i
        BY <2>2, <2>3, <4>1
      <4>3. QED
        BY <2>1, <2>2, <2>4, <4>2
    <3>2. CASE es_seen # {}
      <4>1. PICK low \in es_seen, high \in es_seen : low <= a /\ a <= high
        BY <2>1, <3>2 DEF StatsInv, N!StatsDriftDown
      <4>2. low \in Nat /\ high \in Nat
        BY <2>4, EndpointNumbers
      <4>3. low \in es_seen' /\ high \in es_seen' /\ i \in es_seen'
        BY <2>1, <2>4
      <4>4. CASE i <= a
        BY <2>2, <2>3, <4>1, <4>2, <4>3, <4>4
      <4>5. CASE a <= i
        BY <2>2, <2>3, <4>1, <4>2, <4>3, <4>5
      <4>6. QED
        BY <4>4, <4>5
    <3>3. QED
      BY <3>1, <3>2
  <2>6. es_total' \in 0 .. MaxCalls /\ es_count' \in Nat /\ es_successes' \in Nat /\ es_count' <= es_successes'
    BY <1>2, EndpointNumbers DEF N!update_stats, N!recounted, StatsInv, N!statsTypeOK, N!StatsDriftDown
  <2>7. QED
    BY <2>2, <2>3, <2>4, <2>5, <2>6 DEF StatsInv, N!statsTypeOK, N!StatsDriftDown
<1>3. QED
  BY <1>1, <1>2 DEF N!statsNext

(***************************************************************************)
(* The tokens of users who logged out, the file of the users, and the days *)
(* they paid for.                                                          *)
(***************************************************************************)
\* A token is listed, or its logout a success, only after it was made.
BlacklistInv ==
  /\ L!blacklistTypeOK /\ L!OutIsListed /\ L!ListIsShort
  /\ \A t \in bl_listed \cup bl_out : bl_expires[t] > 0

LEMMA BlacklistInit == L!blacklistInit => BlacklistInv
BY LimiterNumbers DEF L!blacklistInit, BlacklistInv, L!blacklistTypeOK, L!OutIsListed, L!ListIsShort

LEMMA BlacklistStep == BlacklistInv /\ [L!blacklistNext]_token_blacklistVars => BlacklistInv'
<1> SUFFICES ASSUME BlacklistInv, [L!blacklistNext]_token_blacklistVars
             PROVE  BlacklistInv'
  OBVIOUS
<1> USE LimiterNumbers DEF BlacklistInv, L!blacklistTypeOK, L!OutIsListed, L!ListIsShort
<1>1. CASE UNCHANGED token_blacklistVars
  BY <1>1 DEF token_blacklistVars
<1>2. CASE L!blacklist_tick
  BY <1>2 DEF L!blacklist_tick
<1>3. ASSUME NEW t \in Jtis, L!logout(t)
      PROVE  BlacklistInv'
  BY <1>3 DEF L!logout, L!due, L!Hour, L!cleanup_blacklist, L!decode_jwt_token
<1>4. ASSUME NEW t \in Jtis, NEW n \in Lifetimes, L!create_jwt_token(t, n)
      PROVE  BlacklistInv'
  BY <1>4 DEF L!create_jwt_token
<1>5. ASSUME NEW t \in Jtis, L!logout_invalid(t) \/ L!is_blacklisted(t) \/ L!is_allowed(t)
      PROVE  UNCHANGED token_blacklistVars
  BY <1>5 DEF L!logout_invalid, L!is_blacklisted, L!is_allowed, L!blacklistVars, token_blacklistVars
<1>6. QED
  BY <1>1, <1>2, <1>3, <1>4, <1>5 DEF L!blacklistNext

\* A process that is not up has no write under way; the save under way, unless it
\* began over another, is the only one; and what the last save handed over is
\* what the memory holds, in the file or on its way there.
AccountsInv ==
  /\ U!accountsTypeOK
  /\ ~us_up => us_writes = {}
  /\ us_step = "write" /\ ~us_over => us_writes = {}
  /\ us_up /\ us_step = "idle" /\ ~us_over /\ ~us_failed
       => us_writes = {us_mem} \/ (us_writes = {} /\ us_file = us_mem)

LEMMA AccountsInit == U!accountsInit => AccountsInv
BY DEF U!accountsInit, AccountsInv, U!accountsTypeOK, U!Maps, U!Hashes, U!nobody

LEMMA AccountsStep == AccountsInv /\ [U!accountsNext]_user_accountsVars => AccountsInv'
<1> SUFFICES ASSUME AccountsInv, [U!accountsNext]_user_accountsVars
             PROVE  AccountsInv'
  OBVIOUS
<1> USE DEF AccountsInv, U!accountsTypeOK
<1>1. CASE UNCHANGED user_accountsVars
  BY <1>1 DEF user_accountsVars
<1>2. U!nobody \in U!Maps /\ \A u \in Users, h \in U!Hashes : [us_mem EXCEPT ![u] = h] \in U!Maps
  BY DEF U!Maps, U!nobody, U!Hashes
<1>3. CASE U!new
  <2>1. [U!nobody EXCEPT ![Admin] = U!new_user] \in U!Maps
    BY DEF U!nobody, U!Maps, U!Hashes, U!new_user
  <2>2. QED
    BY <1>3, <2>1 DEF U!new
<1>4. CASE U!load_fails \/ U!reads \/ \E u \in Users : U!refused(u)
  BY <1>1, <1>4 DEF U!load_fails, U!reads, U!refused, U!accountsVars, user_accountsVars
<1>5. CASE U!save_create
  BY <1>5 DEF U!save_create
<1>6. CASE U!save_write
  <2>1. us_mem' = us_mem /\ us_writes' \in SUBSET U!Maps /\ us_step' = "idle" /\ us_up' = TRUE /\ us_over' = us_over
        /\ us_failed' = us_failed /\ us_file' = us_file
    BY <1>6 DEF U!save_write
  <2>2. ~us_over => us_writes' = {us_mem}
    BY <1>6 DEF U!save_write
  <2>3. U!accountsTypeOK'
    BY <2>1
  <2>4. us_over' \/ us_writes' = {us_mem'}
    BY <2>1, <2>2
  <2>5. us_up' = TRUE /\ us_step' # "write"
    BY <2>1
  <2> HIDE DEF U!accountsTypeOK
  <2>6. QED
    BY <2>3, <2>4, <2>5
<1>7. CASE U!crash
  BY <1>2, <1>7 DEF U!crash
<1>8. CASE U!repaired
  BY <1>8 DEF U!repaired
<1>9. ASSUME NEW m \in us_writes, U!write_lands(m)
      PROVE  AccountsInv'
  <2>1. m \in U!Maps /\ us_up
    OBVIOUS
  <2>2. us_file' \in U!Maps \cup {U!Torn, U!Absent} /\ us_writes' \subseteq us_writes
    BY <1>9, <2>1 DEF U!write_lands
  <2>3. us_step = "idle" /\ ~us_over /\ ~us_failed => us_writes \ {m} = {} /\ m = us_mem
    BY <2>1
  <2>4. QED
    BY <1>9, <2>1, <2>2, <2>3 DEF U!write_lands
<1>10. ASSUME NEW mem \in U!Maps, U!idle, U!save(mem), U!stays
       PROVE  AccountsInv'
  BY <1>10 DEF U!idle, U!save, U!stays
<1>11. ASSUME NEW u \in Users,
              U!add_user(u) \/ U!authenticate(u) \/ U!update_user(u) \/ U!assign_wallet(u)
              \/ U!unassign_wallet(u) \/ U!update_user_subscription(u) \/ U!delete_user(u)
              \/ U!change_password(u) \/ U!reset_password(u)
       PROVE  AccountsInv'
  <2>1. U!idle /\ U!stays /\ \E mem \in U!Maps : U!save(mem)
    <3>1. "none" \in U!Hashes /\ "argon2" \in U!Hashes /\ U!new_user \in U!Hashes /\ U!other_fields \in U!Maps
      BY DEF U!Hashes, U!new_user, U!other_fields
    <3>2. QED
      BY <1>2, <1>11, <3>1 DEF U!add_user, U!authenticate, U!update_user, U!assign_wallet, U!unassign_wallet,
         U!update_user_subscription, U!delete_user, U!change_password, U!reset_password, U!set_password
  <2>2. QED
    BY <1>10, <2>1
<1>12. QED
  BY <1>1, <1>3, <1>4, <1>5, <1>6, <1>7, <1>8, <1>9, <1>11 DEF U!accountsNext

\* The days on which the user can still trade, and those he traded on, were
\* granted to him, but for the days his stretches ended on.
remaining == IF sm_sub # U!NoSub /\ sm_sub.end >= su_now THEN sm_sub.end - su_now + 1 ELSE 0

DaysInv ==
  /\ U!daysTypeOK /\ U!DaysAddUp
  /\ sm_served + remaining <= sm_granted + sm_stretches

LEMMA DaysInit == U!daysInit => DaysInv
<1> SUFFICES ASSUME U!daysInit
             PROVE  DaysInv
  OBVIOUS
<1>1. QED
  BY UserNumbers DEF U!daysInit, DaysInv, U!daysTypeOK, U!DaysAddUp, U!left, remaining, U!NoSub

LEMMA DaysStep == DaysInv /\ [U!daysNext]_subscriptionsVars => DaysInv'
<1> SUFFICES ASSUME DaysInv, [U!daysNext]_subscriptionsVars
             PROVE  DaysInv'
  OBVIOUS
<1> USE UserNumbers DEF DaysInv, U!daysTypeOK, U!DaysAddUp, U!left, remaining, U!su, U!sm
<1>0. \/ sm_sub = U!NoSub
      \/ /\ sm_sub # U!NoSub /\ sm_sub.end \in Nat /\ sm_sub.level \in U!Levels
         /\ sm_sub = [level |-> sm_sub.level, end |-> sm_sub.end]
  BY DEF U!NoSub
<1>a. \A l \in U!Levels, e \in Nat : [level |-> l, end |-> e] # U!NoSub
                                     /\ [level |-> l, end |-> e] \in [level : U!Levels, end : Nat]
  <2> TAKE l \in U!Levels, e \in Nat
  <2>1. [level |-> l, end |-> e].end = e /\ U!NoSub.end = -1
    BY DEF U!NoSub
  <2>2. QED
    BY <2>1
<1>1. CASE UNCHANGED subscriptionsVars
  BY <1>1 DEF subscriptionsVars
<1>2. ASSUME NEW d \in Durations, U!update_subscription(d)
      PROVE  DaysInv'
  <2>1. d \in Nat /\ su_now \in Nat /\ su_sub.expiry \in Nat /\ su_sub.active \in BOOLEAN
    OBVIOUS
  <2>2. CASE U!is_active
    <3>1. /\ su_sub' = [expiry |-> d + su_sub.expiry, active |-> TRUE]
          /\ su_bought' = su_bought + d /\ UNCHANGED <<su_now, su_served, su_lost>> /\ UNCHANGED U!sm
      BY <1>2, <2>1, <2>2 DEF U!update_subscription, U!buys, U!extended, U!is_active
    <3>2. su_sub' \in [expiry : Nat, active : BOOLEAN] /\ su_sub'.expiry = d + su_sub.expiry
      BY <2>1, <3>1
    <3>3. QED
      BY <2>1, <2>2, <3>1, <3>2 DEF U!is_active
  <2>3. CASE ~U!is_active
    <3>1. /\ su_sub' = [expiry |-> su_now + d, active |-> TRUE] /\ su_lost' = su_lost + U!left(su_sub.expiry)
          /\ su_bought' = su_bought + d /\ UNCHANGED <<su_now, su_served>> /\ UNCHANGED U!sm
      BY <1>2, <2>3 DEF U!update_subscription, U!buys
    <3>2. su_sub' \in [expiry : Nat, active : BOOLEAN] /\ su_sub'.expiry = su_now + d
      BY <2>1, <3>1
    <3>3. QED
      BY <2>1, <3>1, <3>2
  <2>4. QED
    BY <2>2, <2>3
<1>3. ASSUME NEW d \in Durations, U!extend(d)
      PROVE  DaysInv'
  <2>1. d \in Nat /\ su_now \in Nat /\ su_sub.expiry \in Nat
    OBVIOUS
  <2>2. PICK e \in Nat : e = d + (IF su_now > su_sub.expiry THEN su_now ELSE su_sub.expiry)
    BY <2>1
  <2>3. su_sub' = [expiry |-> e, active |-> TRUE] /\ su_bought' = su_bought + d
        /\ UNCHANGED <<su_now, su_served, su_lost>> /\ UNCHANGED U!sm
    BY <1>3, <2>2 DEF U!extend, U!buys, U!extended
  <2>4. su_sub' \in [expiry : Nat, active : BOOLEAN] /\ su_sub'.expiry = e
    BY <2>3
  <2>5. QED
    BY <2>1, <2>2, <2>3, <2>4
<1>4. CASE U!deactivate
  BY <1>4 DEF U!deactivate
<1>5. CASE U!reactivate
  BY <1>5 DEF U!reactivate
<1>6. CASE U!cleanup_expired_subscriptions
  BY <1>6 DEF U!cleanup_expired_subscriptions
<1>7. CASE U!tick
  BY <1>0, <1>7 DEF U!tick, U!is_active, U!allows
<1>8. ASSUME NEW d \in Durations, U!extend_subscription(d)
      PROVE  DaysInv'
  <2>1. sm_sub' = [level |-> sm_sub.level, end |-> sm_sub.end + d]
    BY <1>0, <1>8 DEF U!extend_subscription
  <2>2. sm_sub' # U!NoSub /\ sm_sub' \in [level : U!Levels, end : Nat] /\ sm_sub'.end = sm_sub.end + d
    <3>1. sm_sub # U!NoSub /\ d \in Nat
      BY <1>8 DEF U!extend_subscription
    <3>2. sm_sub.level \in U!Levels /\ sm_sub.end + d \in Nat
      BY <1>0, <3>1
    <3>3. QED
      BY <1>a, <2>1, <3>2
  <2>3. QED
    BY <1>0, <1>8, <2>2 DEF U!extend_subscription, U!grants
<1>9. ASSUME NEW l \in U!Levels, U!update_user_level(l)
      PROVE  DaysInv'
  <2>1. CASE sm_sub # U!NoSub
    <3>1. sm_sub' = [level |-> l, end |-> sm_sub.end]
      BY <1>0, <1>9, <2>1 DEF U!update_user_level
    <3>2. sm_sub' # U!NoSub /\ sm_sub' \in [level : U!Levels, end : Nat] /\ sm_sub'.end = sm_sub.end
      BY <1>0, <1>a, <2>1, <3>1
    <3>3. QED
      BY <1>0, <1>9, <2>1, <3>2 DEF U!update_user_level
  <2>2. CASE sm_sub = U!NoSub
    <3>1. sm_sub' = [level |-> l, end |-> su_now + FirstDays]
      BY <1>9, <2>2 DEF U!update_user_level
    <3>2. sm_sub' # U!NoSub /\ sm_sub' \in [level : U!Levels, end : Nat] /\ sm_sub'.end = su_now + FirstDays
      BY <1>a, <3>1
    <3>3. QED
      BY <1>9, <2>2, <3>2 DEF U!update_user_level, U!grants
  <2>3. QED
    BY <2>1, <2>2
<1>10. QED
  BY <1>1, <1>2, <1>3, <1>4, <1>5, <1>6, <1>7, <1>8, <1>9
     DEF U!daysNext, U!update_subscription_handler, U!daysVars, subscriptionsVars

(* Nobody trades on more days than he was granted. *)
LEMMA DaysMean == DaysInv => U!TradesWithinGrants
<1>1. DaysInv => remaining \in Nat
  BY DEF DaysInv, remaining, U!daysTypeOK, U!NoSub
<1>2. QED
  BY <1>1 DEF DaysInv, U!daysTypeOK, U!TradesWithinGrants

(***************************************************************************)
(* The limit on the requests of a client.                                  *)
(***************************************************************************)
(* What was allowed from one time on, and before another. *)
Taken(allowed, from, to) == SumFunctionOnSet(allowed, {s \in 0 .. LastTime : from <= s /\ s < to})
End == LastTime + 1

\* What a window that is open has counted is what was allowed since it began; so
\* little was allowed before it, in a stretch that reaches into it, that the
\* stretch holds no second full window; and nothing is allowed after its end.
\* Without an open window the same holds of the present.
LimiterSums ==
  /\ \A t \in 0 .. LastTime : Taken(rl_allowed, t, t + Window) <= 2 * Limit
  /\ rl_data # L!NoData =>
       /\ rl_data.window_start \in 0 .. rl_now /\ rl_data.count <= Limit
       /\ Taken(rl_allowed, rl_data.window_start, End) = rl_data.count
       /\ \A t \in 0 .. rl_data.window_start :
            rl_data.window_start < t + Window => Taken(rl_allowed, t, rl_data.window_start) <= Limit
       /\ \A s \in 0 .. LastTime : rl_data.window_start + Window <= s => rl_allowed[s] = 0
  /\ rl_data = L!NoData =>
       /\ \A t \in 0 .. LastTime : rl_now < t + Window => Taken(rl_allowed, t, End) <= Limit
       /\ \A s \in 0 .. LastTime : rl_now <= s => rl_allowed[s] = 0

LimiterInv ==
  /\ L!limiterTypeOK /\ rl_data \in [count : Nat, window_start : Nat]
  /\ Window > 0 => LimiterSums

LEMMA CountedIsTaken == \A t : L!counted_in(t) = Taken(rl_allowed, t, t + Window)
<1> TAKE t
<1> DEFINE Ts == {s \in 0 .. LastTime : t <= s /\ s < t + Window}
<1>1. L!counted_in(t) = SumFunctionOnSet(rl_allowed, Ts)
  BY DEF L!counted_in, L!FoldFunctionOnSet, L!MapThenFoldSet, L!Times, SumFunctionOnSet, FoldFunctionOnSet, MapThenFoldSet
<1>2. QED
  BY <1>1 DEF Taken

LEMMA TakenParts ==
  ASSUME NEW allowed \in [0 .. LastTime -> Nat]
  PROVE  /\ \A a, b \in Nat : Taken(allowed, a, b) \in Nat
         /\ \A a, b, c \in Nat : a <= b /\ b <= c => Taken(allowed, a, c) = Taken(allowed, a, b) + Taken(allowed, b, c)
         /\ \A a, b \in Nat : (\A s \in 0 .. LastTime : a <= s /\ s < b => allowed[s] = 0) => Taken(allowed, a, b) = 0
         /\ \A a, b \in Nat : Taken(allowed, a, b) <= Taken(allowed, a, End)
<1> DEFINE within(a, b) == {s \in 0 .. LastTime : a <= s /\ s < b}
<1>1. \A a, b \in Nat : IsFiniteSet(within(a, b))
  <2>1. IsFiniteSet(0 .. LastTime)
    BY FS_Interval, LimiterNumbers
  <2>2. QED
    BY <2>1, FS_Subset
<1>2. \A a, b \in Nat : Taken(allowed, a, b) = SumFunctionOnSet(allowed, within(a, b))
  BY DEF Taken
<1>3. \A a, b \in Nat : \A s \in within(a, b) : allowed[s] \in Nat /\ allowed[s] \in Int
  OBVIOUS
<1>4. ASSUME NEW a \in Nat, NEW b \in Nat
      PROVE  Taken(allowed, a, b) \in Nat
  <2> HIDE DEF within
  <2>1. QED
    BY <1>1, <1>2, <1>3, SumNat
<1>5. ASSUME NEW a \in Nat, NEW b \in Nat, NEW c \in Nat, a <= b, b <= c
      PROVE  Taken(allowed, a, c) = Taken(allowed, a, b) + Taken(allowed, b, c)
  <2>1. within(a, b) \in SUBSET within(a, c) /\ within(b, c) = within(a, c) \ within(a, b)
    BY <1>5, LimiterNumbers
  <2> HIDE DEF within
  <2>2. SumFunctionOnSet(allowed, within(a, c))
        = SumFunctionOnSet(allowed, within(a, b)) + SumFunctionOnSet(allowed, within(a, c) \ within(a, b))
    BY <1>1, <1>3, <2>1, SumParts
  <2>3. QED
    BY <1>2, <2>1, <2>2
<1>6. ASSUME NEW a \in Nat, NEW b \in Nat, \A s \in 0 .. LastTime : a <= s /\ s < b => allowed[s] = 0
      PROVE  Taken(allowed, a, b) = 0
  <2>1. \A s \in within(a, b) : allowed[s] = 0
    BY <1>6
  <2> HIDE DEF within
  <2>2. QED
    BY <1>1, <1>2, <2>1, SumNone
<1>7. ASSUME NEW a \in Nat, NEW b \in Nat
      PROVE  Taken(allowed, a, b) <= Taken(allowed, a, End)
  <2>1. End \in Nat /\ \A s \in 0 .. LastTime : s < End
    BY LimiterNumbers DEF End
  <2>2. Taken(allowed, a, b) \in Nat /\ Taken(allowed, a, End) \in Nat /\ Taken(allowed, b, End) \in Nat
    BY <1>4, <2>1
  <2>3. CASE a <= b /\ b <= End
    BY <1>5, <2>1, <2>2, <2>3
  <2>4. CASE a <= End /\ End <= b
    <3>1. Taken(allowed, a, b) = Taken(allowed, a, End) + Taken(allowed, End, b)
      BY <1>5, <2>1, <2>4
    <3>2. Taken(allowed, End, b) = 0
      BY <1>6, <2>1
    <3>3. QED
      BY <2>2, <3>1, <3>2
  <2>5. CASE b < a \/ End < a
    <3>1. \A s \in 0 .. LastTime : ~(a <= s /\ s < b)
      BY <2>1, <2>5
    <3>2. Taken(allowed, a, b) = 0
      BY <1>6, <3>1
    <3>3. QED
      BY <2>2, <3>2
  <2>6. QED
    BY <2>1, <2>3, <2>4, <2>5
<1>8. QED
  BY <1>4, <1>5, <1>6, <1>7

(* What is allowed now adds to the stretches that hold the present. *)
LEMMA TakenMore ==
  ASSUME rl_allowed \in [0 .. LastTime -> Nat], rl_now \in 0 .. LastTime, rl_allowed' = [rl_allowed EXCEPT ![rl_now] = @ + 1],
         NEW a \in Nat, NEW b \in Nat
  PROVE  Taken(rl_allowed', a, b) = Taken(rl_allowed, a, b) + IF a <= rl_now /\ rl_now < b THEN 1 ELSE 0
<1>1. PICK S : S = {s \in 0 .. LastTime : a <= s /\ s < b}
  OBVIOUS
<1>2. IsFiniteSet(S)
  <2>1. IsFiniteSet(0 .. LastTime)
    BY FS_Interval, LimiterNumbers
  <2>2. QED
    BY <1>1, <2>1, FS_Subset
<1>3. S \subseteq DOMAIN rl_allowed /\ \A s \in S : rl_allowed[s] \in Int
  BY <1>1
<1>4. SumFunctionOnSet(rl_allowed', S) = SumFunctionOnSet(rl_allowed, S) + IF rl_now \in S THEN 1 ELSE 0
  BY <1>2, <1>3, SumRaised
<1>5. Taken(rl_allowed, a, b) = SumFunctionOnSet(rl_allowed, S) /\ Taken(rl_allowed', a, b) = SumFunctionOnSet(rl_allowed', S)
  BY <1>1 DEF Taken
<1>6. rl_now \in S <=> a <= rl_now /\ rl_now < b
  BY <1>1
<1>7. QED
  BY <1>4, <1>5, <1>6

LEMMA LimiterInit == L!limiterInit => LimiterInv
<1> SUFFICES ASSUME L!limiterInit
             PROVE  LimiterInv
  OBVIOUS
<1>1. L!limiterTypeOK /\ rl_data = L!NoData /\ rl_data \in [count : Nat, window_start : Nat] /\ \A s \in 0 .. LastTime : rl_allowed[s] = 0
  <2>1. rl_data = [count |-> 0, window_start |-> LastTime + 1]
    BY DEF L!limiterInit, L!NoData
  <2>2. rl_data.count = 0 /\ rl_data.window_start = LastTime + 1
    BY <2>1
  <2>3. QED
    <3>1. rl_data.count \in Nat /\ rl_data.window_start \in Nat /\ rl_data \in [count : Nat, window_start : Nat]
          /\ rl_data = L!NoData
      BY <2>1, <2>2, LimiterNumbers DEF L!limiterInit
    <3>2. rl_now \in 0 .. LastTime /\ rl_busy \in BOOLEAN /\ rl_cleaned \in 0 .. LastTime
      <4>1. rl_now = 0 /\ rl_cleaned = 0 /\ rl_busy \in BOOLEAN
        BY DEF L!limiterInit
      <4>2. 0 \in 0 .. LastTime
        BY LimiterNumbers
      <4>3. QED
        BY <4>1, <4>2
    <3>3. rl_allowed \in [0 .. LastTime -> Nat] /\ \A s \in 0 .. LastTime : rl_allowed[s] = 0
      BY LimiterNumbers DEF L!limiterInit, L!Times
    <3>4. QED
      BY <3>1, <3>2, <3>3 DEF L!limiterTypeOK, L!Times
<1>2. rl_allowed \in [0 .. LastTime -> Nat]
  BY DEF L!limiterInit, L!Times
<1>3. \A a, b \in Nat : Taken(rl_allowed, a, b) = 0
  <2>1. \A a, b \in Nat : (\A s \in 0 .. LastTime : a <= s /\ s < b => rl_allowed[s] = 0) => Taken(rl_allowed, a, b) = 0
    BY <1>2, TakenParts
  <2>2. \A s \in 0 .. LastTime : rl_allowed[s] = 0
    BY <1>1
  <2>3. QED
    BY <2>1, <2>2
<1>4. LastTime \in Nat /\ Window \in Nat /\ Limit \in Nat /\ End \in Nat
  BY LimiterNumbers DEF End
<1>5. LimiterSums
  BY <1>1, <1>3, <1>4 DEF LimiterSums
<1>6. QED
  BY <1>1, <1>5 DEF LimiterInv

LEMMA LimiterMeans == LimiterInv => L!BurstBounded
<1> SUFFICES ASSUME LimiterInv, NEW t \in 0 .. LastTime
             PROVE  Taken(rl_allowed, t, t + Window) <= 2 * Limit
  BY CountedIsTaken DEF L!BurstBounded, L!Times
<1>1. CASE Window > 0
  BY <1>1 DEF LimiterInv, LimiterSums
<1>2. CASE ~(Window > 0)
  <2>1. t + Window = t /\ t \in Nat /\ Limit \in Nat
    BY <1>2, LimiterNumbers
  <2>2. rl_allowed \in [0 .. LastTime -> Nat]
    BY DEF LimiterInv, L!limiterTypeOK, L!Times
  <2>3. Taken(rl_allowed, t, t) = 0
    BY <2>1, <2>2, TakenParts
  <2>4. QED
    BY <2>1, <2>3
<1>3. QED
  BY <1>1, <1>2

LEMMA LimiterStep == LimiterInv /\ [L!limiterNext]_rate_limiterVars => LimiterInv'
<1> SUFFICES ASSUME LimiterInv, [L!limiterNext]_rate_limiterVars
             PROVE  LimiterInv'
  OBVIOUS
<1>1. /\ rl_now \in 0 .. LastTime /\ rl_data.count \in Nat /\ rl_data.window_start \in Nat /\ rl_busy \in BOOLEAN
      /\ rl_cleaned \in 0 .. LastTime /\ rl_allowed \in [0 .. LastTime -> Nat]
      /\ Limit \in Nat \ {0} /\ Window \in Nat /\ Expiry \in Nat /\ Window <= Expiry /\ LastTime \in Nat /\ End \in Nat
      /\ rl_now < End
  BY LimiterNumbers DEF LimiterInv, L!limiterTypeOK, L!Times, End
<1>2. \A a, b \in Nat : Taken(rl_allowed, a, b) \in Nat
  BY <1>1, TakenParts
<1>20. \A a, b, c \in Nat : a <= b /\ b <= c => Taken(rl_allowed, a, c) = Taken(rl_allowed, a, b) + Taken(rl_allowed, b, c)
  BY <1>1, TakenParts
<1>21. \A a, b \in Nat : (\A s \in 0 .. LastTime : a <= s /\ s < b => rl_allowed[s] = 0) => Taken(rl_allowed, a, b) = 0
  BY <1>1, TakenParts
<1>22. \A a, b \in Nat : Taken(rl_allowed, a, b) <= Taken(rl_allowed, a, End)
  BY <1>1, TakenParts
<1>3. L!NoData = [count |-> 0, window_start |-> End] /\ L!NoData.window_start = End /\ L!NoData.count = 0 /\ L!NoData' = L!NoData
  BY DEF L!NoData, End
<1>4. CASE UNCHANGED <<rl_now, rl_data, rl_allowed>> /\ rl_busy' \in BOOLEAN /\ rl_cleaned' \in 0 .. LastTime
  BY <1>3, <1>4 DEF LimiterInv, LimiterSums, Taken, L!limiterTypeOK, L!Times
<1>5. ASSUME L!allows(rl_data), rl_data' = L!counted(rl_data), rl_allowed' = [rl_allowed EXCEPT ![rl_now] = @ + 1],
             rl_now' = rl_now, rl_busy' = rl_busy, rl_cleaned' \in 0 .. LastTime
      PROVE  LimiterInv'
  <2>1. \A a, b \in Nat : a <= rl_now /\ rl_now < b => Taken(rl_allowed', a, b) = Taken(rl_allowed, a, b) + 1
    BY <1>1, <1>5, TakenMore
  <2>10. \A a, b \in Nat : ~(a <= rl_now /\ rl_now < b) => Taken(rl_allowed', a, b) = Taken(rl_allowed, a, b)
    <3>1. \A a, b \in Nat : Taken(rl_allowed', a, b) = Taken(rl_allowed, a, b) + IF a <= rl_now /\ rl_now < b THEN 1 ELSE 0
      BY <1>1, <1>5, TakenMore
    <3>2. QED
      <4> TAKE a, b \in Nat
      <4> HAVE ~(a <= rl_now /\ rl_now < b)
      <4>1. Taken(rl_allowed', a, b) = Taken(rl_allowed, a, b) + 0
        BY <3>1
      <4>2. Taken(rl_allowed, a, b) \in Nat
        BY <1>2
      <4>3. QED
        BY <4>1, <4>2
  <2>2. rl_allowed' \in [0 .. LastTime -> Nat]
    BY <1>1, <1>5
  <2>3. CASE rl_data = L!NoData \/ L!over(Window)
    <3>1. rl_data' = [count |-> 1, window_start |-> rl_now]
      BY <1>5, <2>3 DEF L!counted, L!begun
    <3>2. rl_data'.count = 1 /\ rl_data'.window_start = rl_now /\ rl_data' # L!NoData
      BY <1>1, <1>3, <3>1
    <3>3. L!limiterTypeOK' /\ rl_data' \in [count : Nat, window_start : Nat]
      BY <3>1, <1>1, <1>5, <2>2, <3>2 DEF L!limiterTypeOK, L!Times
    <3>4. ASSUME Window > 0, LimiterSums
          PROVE  LimiterSums'
      <4>1. rl_data # L!NoData => rl_data.window_start \in 0 .. rl_now /\ rl_data.window_start + Window <= rl_now
        BY <1>1, <2>3, <3>4 DEF LimiterSums, L!over
      <4>2. \A s \in 0 .. LastTime : rl_now <= s => rl_allowed[s] = 0
        BY <1>1, <3>4, <4>1 DEF LimiterSums
      <4>3. \A b \in Nat : Taken(rl_allowed, rl_now, b) = 0
        BY <1>1, <1>21, <4>2
      <4>4. ASSUME NEW t \in 0 .. rl_now, rl_now < t + Window
            PROVE  Taken(rl_allowed, t, rl_now) <= Limit
        <5>1. t \in Nat /\ rl_now \in Nat /\ Taken(rl_allowed, t, rl_now) \in Nat /\ Taken(rl_allowed, t, End) \in Nat
              /\ Taken(rl_allowed, t, rl_now) <= Taken(rl_allowed, t, End)
          <6>1. t \in Nat /\ rl_now \in Nat /\ End \in Nat
            BY <1>1
          <6>2. QED
            BY <1>2, <1>22, <6>1
        <5>2. CASE rl_data = L!NoData
          <6>1. t \in 0 .. LastTime /\ rl_now < t + Window
            BY <1>1, <4>4
          <6>2. Taken(rl_allowed, t, End) <= Limit
            BY <3>4, <5>2, <6>1 DEF LimiterSums
          <6>3. QED
            BY <1>1, <5>1, <6>2
        <5>3. CASE rl_data # L!NoData
          <6>1. PICK ws \in Nat : ws = rl_data.window_start
            BY <1>1
          <6>2. ws <= t /\ t <= End
            BY <1>1, <4>1, <4>4, <5>3, <6>1
          <6>3. Taken(rl_allowed, ws, End) = Taken(rl_allowed, ws, t) + Taken(rl_allowed, t, End) /\ Taken(rl_allowed, ws, t) \in Nat /\ Taken(rl_allowed, ws, End) \in Nat
            <7>1. ws \in Nat /\ t \in Nat /\ End \in Nat
              BY <1>1, <5>1
            <7>2. QED
              BY <1>2, <1>20, <6>2, <7>1
          <6>4. Taken(rl_allowed, ws, End) <= Limit
            BY <3>4, <5>3, <6>1 DEF LimiterSums
          <6>5. QED
            BY <1>1, <5>1, <6>3, <6>4
        <5>4. QED
          BY <5>2, <5>3
      <4>5. ASSUME NEW t \in 0 .. LastTime
            PROVE  Taken(rl_allowed', t, t + Window) <= 2 * Limit
        <5>1. t \in Nat /\ t + Window \in Nat /\ rl_now \in Nat
          BY <1>1
        <5>2. CASE t <= rl_now /\ rl_now < t + Window
          <6>1. Taken(rl_allowed, t, t + Window) = Taken(rl_allowed, t, rl_now) + Taken(rl_allowed, rl_now, t + Window)
            BY <1>20, <5>1, <5>2
          <6>2. Taken(rl_allowed, t, rl_now) <= Limit /\ Taken(rl_allowed, rl_now, t + Window) = 0 /\ Taken(rl_allowed, t, rl_now) \in Nat
            BY <1>2, <4>3, <4>4, <5>1, <5>2
          <6>3. Taken(rl_allowed', t, t + Window) = Taken(rl_allowed, t, t + Window) + 1
            BY <2>1, <5>1, <5>2
          <6>4. QED
            BY <1>1, <6>1, <6>2, <6>3
        <5>3. CASE ~(t <= rl_now /\ rl_now < t + Window)
          <6>1. Taken(rl_allowed', t, t + Window) = Taken(rl_allowed, t, t + Window) /\ Taken(rl_allowed, t, t + Window) \in Nat
            BY <1>2, <2>10, <5>1, <5>3
          <6>2. QED
            BY <3>4, <6>1 DEF LimiterSums
        <5>4. QED
          BY <5>2, <5>3
      <4>6. Taken(rl_allowed', rl_now, End) = 1
        <5>1. rl_now \in Nat /\ rl_now <= rl_now /\ rl_now < End
          BY <1>1
        <5>2. QED
          BY <1>1, <2>1, <4>3, <5>1
      <4>7. \A t \in 0 .. rl_now : rl_now < t + Window => Taken(rl_allowed', t, rl_now) <= Limit
        <5>1. \A t \in 0 .. rl_now : Taken(rl_allowed', t, rl_now) = Taken(rl_allowed, t, rl_now)
          BY <1>1, <2>10
        <5>2. QED
          BY <4>4, <5>1
      <4>8. \A s \in 0 .. LastTime : rl_now + Window <= s => rl_allowed'[s] = 0
        BY <1>1, <1>5, <3>4, <4>2
      <4>9. End' = End
        BY DEF End
      <4>10. QED
        <5>1. rl_data' # L!NoData' /\ rl_now' = rl_now /\ rl_data'.window_start = rl_now /\ rl_data'.count = 1
              /\ rl_now \in 0 .. rl_now /\ 1 <= Limit
          BY <1>1, <1>3, <1>5, <3>2
        <5>2. QED
          BY <4>5, <4>6, <4>7, <4>8, <4>9, <5>1 DEF LimiterSums
    <3>5. QED
      BY <3>3, <3>4 DEF LimiterInv
  <2>4. CASE ~(rl_data = L!NoData \/ L!over(Window))
    <3>1. PICK ws \in Nat : ws = rl_data.window_start
      BY <1>1
    <3>2. rl_data' = [rl_data EXCEPT !.count = @ + 1] /\ rl_data.count < Limit /\ ~(rl_now - ws >= Window)
      BY <1>5, <2>4, <3>1 DEF L!counted, L!allows, L!over
    <3>3. /\ rl_data' \in [count : Nat, window_start : Nat]
          /\ rl_data'.count = rl_data.count + 1 /\ rl_data'.window_start = ws
      BY <3>1, <3>2 DEF LimiterInv
    <3>4. L!limiterTypeOK'
      BY <1>1, <1>5, <2>2, <3>3 DEF L!limiterTypeOK, L!Times
    <3>5. ASSUME Window > 0, LimiterSums
          PROVE  LimiterSums'
      <4>1. /\ ws \in 0 .. rl_now /\ rl_data.count + 1 <= Limit /\ rl_now < ws + Window
            /\ Taken(rl_allowed, ws, End) = rl_data.count
            /\ \A t \in 0 .. ws : ws < t + Window => Taken(rl_allowed, t, ws) <= Limit
            /\ \A s \in 0 .. LastTime : ws + Window <= s => rl_allowed[s] = 0
        <5>1. /\ rl_data.window_start \in 0 .. rl_now
              /\ Taken(rl_allowed, rl_data.window_start, End) = rl_data.count
              /\ \A t \in 0 .. rl_data.window_start :
                   rl_data.window_start < t + Window => Taken(rl_allowed, t, rl_data.window_start) <= Limit
              /\ \A s \in 0 .. LastTime : rl_data.window_start + Window <= s => rl_allowed[s] = 0
          BY <2>4, <3>5 DEF LimiterSums
        <5>2. rl_data.count + 1 <= Limit /\ rl_now < ws + Window
          BY <1>1, <3>1, <3>2
        <5>3. QED
          BY <3>1, <5>1, <5>2
      <4>2. ASSUME NEW t \in 0 .. LastTime
            PROVE  Taken(rl_allowed', t, t + Window) <= 2 * Limit
        <5>1. t \in Nat /\ t + Window \in Nat /\ rl_now \in Nat
          BY <1>1
        <5>2. CASE t <= rl_now /\ rl_now < t + Window /\ t <= ws
          <6>1. Taken(rl_allowed, t, t + Window) = Taken(rl_allowed, t, ws) + Taken(rl_allowed, ws, t + Window)
            BY <1>20, <4>1, <5>1, <5>2
          <6>2. Taken(rl_allowed, t, ws) <= Limit /\ Taken(rl_allowed, t, ws) \in Nat
            BY <1>2, <4>1, <5>1, <5>2
          <6>3. Taken(rl_allowed, ws, t + Window) <= rl_data.count /\ Taken(rl_allowed, ws, t + Window) \in Nat
            BY <1>2, <1>22, <4>1, <5>1
          <6>4. Taken(rl_allowed', t, t + Window) = Taken(rl_allowed, t, t + Window) + 1
            BY <2>1, <5>1, <5>2
          <6>5. QED
            BY <1>1, <4>1, <6>1, <6>2, <6>3, <6>4
        <5>3. CASE t <= rl_now /\ rl_now < t + Window /\ ws < t
          <6>1. Taken(rl_allowed, t, t + Window) <= Taken(rl_allowed, t, End) /\ Taken(rl_allowed, ws, End) = Taken(rl_allowed, ws, t) + Taken(rl_allowed, t, End)
            BY <1>1, <1>20, <1>22, <4>1, <5>1, <5>3
          <6>2. Taken(rl_allowed, t, t + Window) \in Nat /\ Taken(rl_allowed, t, End) \in Nat /\ Taken(rl_allowed, ws, t) \in Nat
            BY <1>1, <1>2, <5>1
          <6>3. Taken(rl_allowed', t, t + Window) = Taken(rl_allowed, t, t + Window) + 1
            BY <2>1, <5>1, <5>3
          <6>4. Taken(rl_allowed, t, End) <= rl_data.count /\ rl_data.count + 1 <= Limit
            BY <1>1, <4>1, <6>1, <6>2
          <6>5. Taken(rl_allowed', t, t + Window) <= Limit /\ Limit \in Nat
            <7>1. rl_data.count \in Nat /\ Limit \in Nat
              BY <1>1
            <7>2. \A x, y, k, l \in Nat : x <= y /\ y <= k /\ k + 1 <= l => x + 1 <= l
              OBVIOUS
            <7>3. Taken(rl_allowed, t, t + Window) + 1 <= Limit
              BY <6>1, <6>2, <6>4, <7>1, <7>2
            <7>4. QED
              BY <6>3, <7>1, <7>3
          <6>6. QED
            BY <6>2, <6>3, <6>5
        <5>4. CASE ~(t <= rl_now /\ rl_now < t + Window)
          <6>1. Taken(rl_allowed', t, t + Window) = Taken(rl_allowed, t, t + Window) /\ Taken(rl_allowed, t, t + Window) \in Nat
            BY <1>2, <2>10, <5>1, <5>4
          <6>2. QED
            BY <3>5, <6>1 DEF LimiterSums
        <5>5. QED
          BY <5>1, <5>2, <5>3, <5>4
      <4>3. Taken(rl_allowed', ws, End) = rl_data'.count
        <5>1. ws <= rl_now /\ rl_now < End
          BY <1>1, <4>1
        <5>2. QED
          BY <1>1, <2>1, <3>3, <4>1, <5>1
      <4>4. \A t \in 0 .. ws : ws < t + Window => Taken(rl_allowed', t, ws) <= Limit
        <5>1. \A t \in 0 .. ws : Taken(rl_allowed', t, ws) = Taken(rl_allowed, t, ws)
          BY <1>1, <2>10, <4>1
        <5>2. QED
          BY <4>1, <5>1
      <4>5. \A s \in 0 .. LastTime : ws + Window <= s => rl_allowed'[s] = 0
        BY <1>1, <1>5, <4>1
      <4>6. rl_data' # L!NoData
        BY <1>1, <1>3, <3>3, <4>1
      <4>7. End' = End
        BY DEF End
      <4>8. QED
        BY <1>1, <1>3, <1>5, <3>3, <4>1, <4>2, <4>3, <4>4, <4>5, <4>6, <4>7 DEF LimiterSums
    <3>6. QED
      BY <3>3, <3>4, <3>5 DEF LimiterInv
  <2>5. QED
    BY <2>3, <2>4
<1>6. CASE L!cleanup
  <2>1. /\ rl_data # L!NoData /\ rl_data' = L!NoData /\ rl_now' = rl_now /\ rl_allowed' = rl_allowed
        /\ rl_busy' = rl_busy /\ rl_cleaned' = rl_cleaned
    BY <1>6 DEF L!cleanup, L!expired
  <2>2. rl_now - rl_data.window_start >= Window
    BY <1>1, <1>6 DEF L!cleanup, L!expired, L!over
  <2>3. L!limiterTypeOK' /\ rl_data' \in [count : Nat, window_start : Nat]
    BY <1>1, <1>3, <2>1 DEF L!limiterTypeOK, L!Times
  <2>4. End' = End
    BY DEF End
  <2>5. ASSUME Window > 0, LimiterSums
        PROVE  LimiterSums'
    <3>1. PICK ws \in Nat : ws = rl_data.window_start
      BY <1>1
    <3>2. /\ Taken(rl_allowed, ws, End) <= Limit /\ ws + Window <= rl_now
          /\ \A s \in 0 .. LastTime : ws + Window <= s => rl_allowed[s] = 0
      <4>1. /\ rl_data.window_start \in 0 .. rl_now /\ rl_data.count <= Limit
            /\ Taken(rl_allowed, rl_data.window_start, End) = rl_data.count
            /\ \A s \in 0 .. LastTime : rl_data.window_start + Window <= s => rl_allowed[s] = 0
        BY <2>1, <2>5 DEF LimiterSums
      <4>2. ws + Window <= rl_now
        <5>1. rl_now \in Nat /\ Window \in Nat /\ rl_now - ws >= Window
          BY <1>1, <2>2, <3>1
        <5>2. QED
          BY <5>1
      <4>3. QED
        BY <3>1, <4>1, <4>2
    <3>3. ASSUME NEW t \in 0 .. LastTime, rl_now < t + Window
          PROVE  Taken(rl_allowed, t, End) <= Limit
      <4>1. t \in Nat /\ ws <= t /\ t <= End
        BY <1>1, <3>2, <3>3 DEF End
      <4>2. Taken(rl_allowed, ws, End) = Taken(rl_allowed, ws, t) + Taken(rl_allowed, t, End) /\ Taken(rl_allowed, ws, t) \in Nat /\ Taken(rl_allowed, t, End) \in Nat
        <5>1. ws \in Nat /\ End \in Nat
          BY <1>1
        <5>2. QED
          BY <1>2, <1>20, <4>1, <5>1
      <4>3. QED
        BY <1>1, <3>2, <4>2
    <3>4. \A s \in 0 .. LastTime : rl_now <= s => rl_allowed[s] = 0
      BY <1>1, <3>2
    <3>5. QED
      BY <1>3, <2>1, <2>4, <2>5, <3>3, <3>4 DEF LimiterSums, End
  <2>6. QED
    BY <2>3, <2>5 DEF LimiterInv
<1>7. CASE L!tick
  <2>1. /\ rl_now' = rl_now + 1 /\ rl_now' \in 0 .. LastTime /\ rl_data' = rl_data /\ rl_allowed' = rl_allowed
        /\ rl_busy' = rl_busy /\ rl_cleaned' = rl_cleaned
    BY <1>1, <1>7 DEF L!tick
  <2>2. End' = End
    BY DEF End
  <2>3. ASSUME LimiterSums
        PROVE  LimiterSums'
    BY <1>1, <1>3, <2>1, <2>2, <2>3 DEF LimiterSums, End
  <2>4. QED
    BY <2>1, <2>3 DEF LimiterInv, L!limiterTypeOK, L!Times
<1>8. QED
  <2>1. ASSUME L!check_rate_limit \/ L!check_limit
        PROVE  LimiterInv'
    BY <1>1, <1>5, <2>1 DEF L!check_rate_limit, L!check_limit
  <2>2. ASSUME L!refuses \/ L!allowed_uncounted \/ L!locked \/ UNCHANGED rate_limiterVars
        PROVE  LimiterInv'
    BY <1>1, <1>4, <2>2 DEF L!refuses, L!allowed_uncounted, L!locked, L!limiterVars, rate_limiterVars
  <2>3. QED
    BY <1>6, <1>7, <2>1, <2>2 DEF L!limiterNext

(***************************************************************************)
(* The caches of the common crate.                                         *)
(***************************************************************************)
(* What the lists of an LRU cache hold. *)
LEMMA ListParts ==
  ASSUME NEW Elements, NEW list \in Seq(Elements)
  PROVE  /\ \A S : C!retained(list, S) \in Seq(Elements) /\ C!ToSet(C!retained(list, S)) = C!ToSet(list) \cap S
         /\ \A k \in Elements : Append(list, k) \in Seq(Elements) /\ C!ToSet(Append(list, k)) = C!ToSet(list) \cup {k}
         /\ \A n \in Nat : /\ C!newest(list, n) \in Seq(Elements) /\ C!ToSet(C!newest(list, n)) \subseteq C!ToSet(list)
                           /\ Len(list) <= n => C!newest(list, n) = list
         /\ C!Reverse(list) \in Seq(Elements) /\ C!ToSet(C!Reverse(list)) = C!ToSet(list) /\ Len(C!Reverse(list)) = Len(list)
         /\ C!ToSet(list) \subseteq Elements
<1>1. Len(list) \in Nat /\ DOMAIN list = 1 .. Len(list) /\ \A i \in DOMAIN list : list[i] \in Elements
  BY LenProperties, ElementOfSeq
<1>2. ASSUME NEW S
      PROVE  C!retained(list, S) \in Seq(Elements) /\ C!ToSet(C!retained(list, S)) = C!ToSet(list) \cap S
  <2>1. PICK r : r = retained(list, S)
    OBVIOUS
  <2>2. C!retained(list, S) = r
    BY <2>1, SameLists
  <2>3. r \in Seq(Elements)
    BY <2>1, Retained
  <2>4. PICK p \in [DOMAIN r -> DOMAIN list] :
          /\ \A n \in DOMAIN r : r[n] = list[p[n]] /\ r[n] \in S
          /\ \A i \in DOMAIN list : list[i] \in S => \E n \in DOMAIN r : p[n] = i
    BY <2>1, Retained
  <2>5. C!ToSet(r) = C!ToSet(list) \cap S
    BY <2>4 DEF C!ToSet
  <2>6. QED
    BY <2>2, <2>3, <2>5
<1>3. ASSUME NEW k \in Elements
      PROVE  Append(list, k) \in Seq(Elements) /\ C!ToSet(Append(list, k)) = C!ToSet(list) \cup {k}
  <2>1. PICK s : s = Append(list, k)
    OBVIOUS
  <2>2. s \in Seq(Elements) /\ Len(s) = Len(list) + 1 /\ s[Len(list) + 1] = k /\ \A i \in 1 .. Len(list) : s[i] = list[i]
    BY <2>1, AppendProperties
  <2>3. DOMAIN s = 1 .. Len(list) + 1
    BY <2>2, LenProperties
  <2>4. \A i \in 1 .. Len(list) + 1 : i \in 1 .. Len(list) \/ i = Len(list) + 1
    BY <1>1
  <2>5. 1 .. Len(list) \subseteq 1 .. Len(list) + 1 /\ Len(list) + 1 \in 1 .. Len(list) + 1
    BY <1>1
  <2>6. C!ToSet(s) = C!ToSet(list) \cup {k}
    BY <1>1, <2>2, <2>3, <2>4, <2>5 DEF C!ToSet
  <2>7. QED
    BY <2>1, <2>2, <2>6
<1>4. ASSUME NEW n \in Nat
      PROVE  /\ C!newest(list, n) \in Seq(Elements) /\ C!ToSet(C!newest(list, n)) \subseteq C!ToSet(list)
             /\ Len(list) <= n => C!newest(list, n) = list
  <2>1. CASE Len(list) <= n
    BY <2>1 DEF C!newest
  <2>2. CASE ~(Len(list) <= n)
    <3>1. PICK l \in Nat : l = Len(list)
      BY <1>1
    <3>2. l - n + 1 \in Nat \ {0} /\ l - n + 1 <= l + 1
      BY <2>2, <3>1
    <3>3. PICK s : s = SubSeq(list, l - n + 1, l)
      OBVIOUS
    <3>4. C!newest(list, n) = s
      BY <2>2, <3>1, <3>3 DEF C!newest
    <3>5. PICK m \in Nat : m = l - n + 1
      BY <3>2
    <3>6. \A i \in m .. l : list[i] \in Elements /\ list[i] \in C!ToSet(list)
      <4>1. \A i \in m .. l : i \in 1 .. l
        BY <3>2, <3>5
      <4>2. QED
        BY <1>1, <3>1, <4>1 DEF C!ToSet
    <3>7. s = SubSeq(list, m, l) /\ m \in Int /\ l \in Int
      BY <3>3, <3>5
    <3>8. s \in Seq(Elements)
      BY <3>6, <3>7, SubSeqProperties
    <3>9. s \in Seq(C!ToSet(list))
      BY <3>6, <3>7, SubSeqProperties
    <3>10. C!ToSet(s) \subseteq C!ToSet(list)
      BY <3>9, ElementOfSeq, LenProperties DEF C!ToSet
    <3>11. QED
      BY <2>2, <3>4, <3>8, <3>10
  <2>3. QED
    BY <2>1, <2>2
<1>5. C!Reverse(list) \in Seq(Elements) /\ C!ToSet(C!Reverse(list)) = C!ToSet(list) /\ Len(C!Reverse(list)) = Len(list)
  <2>1. PICK l \in Nat : l = Len(list)
    BY <1>1
  <2>2. PICK r : r = [i \in 1 .. l |-> list[(l - i) + 1]]
    OBVIOUS
  <2>3. C!Reverse(list) = r /\ DOMAIN r = 1 .. l
    BY <2>1, <2>2 DEF C!Reverse
  <2>4. \A i \in 1 .. l : (l - i) + 1 \in 1 .. l /\ (l - ((l - i) + 1)) + 1 = i
    OBVIOUS
  <2>5. r \in [1 .. l -> Elements]
    BY <1>1, <2>1, <2>2, <2>4
  <2>6. r \in Seq(Elements) /\ Len(r) = l
    BY <2>3, <2>5, IsASeq, LenProperties
  <2>7. \A i \in 1 .. l : r[i] = list[(l - i) + 1] /\ r[(l - i) + 1] = list[i]
    BY <2>2, <2>4
  <2>8. C!ToSet(r) = C!ToSet(list)
    BY <1>1, <2>1, <2>3, <2>4, <2>7 DEF C!ToSet
  <2>9. QED
    BY <2>1, <2>3, <2>6, <2>8
<1>6. C!ToSet(list) \subseteq Elements
  BY <1>1 DEF C!ToSet
<1>7. QED
  BY <1>2, <1>3, <1>4, <1>5, <1>6

\* Updates of an LRU cache that do not overlap follow one another: the capacity
\* that is about to be written to the configuration is the one the entries have.
OneUpdate ==
  /\ \A u, w \in Updaters : mc_update[u] # C!idle /\ mc_update[w] # C!idle => u = w
  /\ (\A u \in Updaters : mc_update[u] = C!idle) => mc_cfg \in {0, mc_cap}
  /\ \A u \in Updaters : mc_update[u].step = "write" => mc_update[u].capacity \in {0, mc_cap}

MemoryInv ==
  /\ C!memoryTypeOK
  /\ mc_update \in [Updaters -> [step : {"idle", "rebuild", "write"}, capacity : Nat]]
  /\ \A u \in Updaters : /\ mc_update[u].step = "idle" => mc_update[u] = C!idle
                         /\ mc_update[u].step = "rebuild" => mc_update[u].capacity > 0
                         /\ ~mc_lru => mc_update[u] = C!idle
  /\ mc_lru /\ ~mc_overlap => OneUpdate

LEMMA MemoryInit == C!memoryInit => MemoryInv
<1> SUFFICES ASSUME C!memoryInit
             PROVE  MemoryInv
  OBVIOUS
<1>1. DOMAIN mc_deadline = {} /\ mc_order = <<>> /\ mc_order \in Seq(CacheKeys) /\ C!ToSet(mc_order) = {}
  BY EmptySeq DEF C!memoryInit, C!ToSet
<1>2. mc_cap \in Nat \ {0} /\ mc_cfg = mc_cap
  BY CacheNumbers DEF C!memoryInit, C!new
<1>3. C!idle = [step |-> "idle", capacity |-> 0]
  BY DEF C!idle, C!None
<1>4. \A u \in Updaters : mc_update[u] = C!idle /\ mc_update[u].step = "idle" /\ mc_update[u].capacity = 0
  BY <1>3 DEF C!memoryInit
<1>5. mc_update \in [Updaters -> [step : {"idle", "rebuild", "write"}, capacity : Nat]]
  BY <1>3 DEF C!memoryInit
<1>6. C!memoryTypeOK
  <2>1. mc_lru \in BOOLEAN /\ mc_overlap \in BOOLEAN /\ mc_now = 0
    BY DEF C!memoryInit
  <2>2. C!present = {} /\ C!ToSet(mc_order) = C!present
    BY <1>1 DEF C!present
  <2>3. mc_cfg \in Nat /\ mc_now \in Nat
    BY <1>2, <2>1
  <2>4. QED
    BY <1>1, <1>2, <1>4, <2>1, <2>2, <2>3 DEF C!memoryTypeOK
<1>7. QED
  BY <1>2, <1>4, <1>5, <1>6 DEF MemoryInv, OneUpdate

LEMMA MemoryStep ==
  MemoryInv /\ [C!memoryNext]_memory_cacheVars =>
    /\ MemoryInv'
    /\ \A u \in Updaters :
         mc_update[u].step = "rebuild" /\ mc_update'[u].step = "write" /\ mc_update[u].capacity >= Len(mc_order)
           => C!present' = C!present
<1> SUFFICES ASSUME MemoryInv, [C!memoryNext]_memory_cacheVars
             PROVE  /\ MemoryInv'
                    /\ \A u \in Updaters :
                         mc_update[u].step = "rebuild" /\ mc_update'[u].step = "write"
                         /\ mc_update[u].capacity >= Len(mc_order) => C!present' = C!present
  OBVIOUS
<1>1. /\ mc_lru \in BOOLEAN /\ DOMAIN mc_deadline \subseteq CacheKeys /\ \A k \in DOMAIN mc_deadline : mc_deadline[k] \in Nat
      /\ mc_order \in Seq(CacheKeys) /\ (mc_lru => C!ToSet(mc_order) = DOMAIN mc_deadline)
      /\ mc_cap \in Nat \ {0} /\ mc_cfg \in Nat /\ mc_overlap \in BOOLEAN /\ mc_now \in Nat
      /\ mc_update \in [Updaters -> [step : {"idle", "rebuild", "write"}, capacity : Nat]]
  BY DEF MemoryInv, C!memoryTypeOK, C!present
<1>2. C!idle = [step |-> "idle", capacity |-> 0] /\ C!idle.step = "idle" /\ C!idle.capacity = 0 /\ C!idle' = C!idle
      /\ C!None = 0
  BY DEF C!idle, C!None
\* The steps on the entries leave the updates alone.
<1>3. ASSUME UNCHANGED <<mc_lru, mc_cap, mc_update, mc_overlap>>, mc_cfg' = mc_cfg \/ (~mc_lru /\ mc_cfg' \in Nat), mc_now' \in Nat,
             DOMAIN mc_deadline' \subseteq CacheKeys, \A k \in DOMAIN mc_deadline' : mc_deadline'[k] \in Nat,
             mc_order' \in Seq(CacheKeys), mc_lru => C!ToSet(mc_order') = DOMAIN mc_deadline'
      PROVE  /\ MemoryInv'
             /\ \A u \in Updaters : ~(mc_update[u].step = "rebuild" /\ mc_update'[u].step = "write")
  <2>1. C!memoryTypeOK'
    <3>1. mc_cfg' \in Nat /\ mc_cap' \in Nat \ {0} /\ mc_lru' \in BOOLEAN /\ mc_overlap' \in BOOLEAN /\ mc_now' \in Nat
      BY <1>1, <1>3
    <3>2. \A u \in Updaters : mc_update'[u].step \in {"idle", "rebuild", "write"} /\ mc_update'[u].capacity \in Nat
      BY <1>1, <1>3
    <3>3. C!present' = DOMAIN mc_deadline' /\ C!ToSet(mc_order)' = C!ToSet(mc_order')
      BY DEF C!present, C!ToSet
    <3>4. QED
      BY <1>3, <3>1, <3>2, <3>3 DEF C!memoryTypeOK
  <2>2. QED
    BY <1>2, <1>3, <2>1 DEF MemoryInv, OneUpdate
<1>4. /\ \A S : C!retained(mc_order, S) \in Seq(CacheKeys) /\ C!ToSet(C!retained(mc_order, S)) = C!ToSet(mc_order) \cap S
      /\ \A k \in CacheKeys : C!used(k) \in Seq(CacheKeys) /\ C!ToSet(C!used(k)) = C!ToSet(mc_order) \cup {k}
      /\ C!ToSet(mc_order) \subseteq CacheKeys
  <2>1. \A S : C!retained(mc_order, S) \in Seq(CacheKeys) /\ C!ToSet(C!retained(mc_order, S)) = C!ToSet(mc_order) \cap S
    BY <1>1, ListParts
  <2>2. C!ToSet(mc_order) \subseteq CacheKeys
    BY <1>1, ListParts
  <2>3. ASSUME NEW k \in CacheKeys
        PROVE  C!used(k) \in Seq(CacheKeys) /\ C!ToSet(C!used(k)) = C!ToSet(mc_order) \cup {k}
    <3>1. PICK r \in Seq(CacheKeys) : r = C!retained(mc_order, CacheKeys \ {k})
      BY <2>1
    <3>2. C!ToSet(r) = C!ToSet(mc_order) \cap (CacheKeys \ {k})
      BY <2>1, <3>1
    <3>3. Append(r, k) \in Seq(CacheKeys) /\ C!ToSet(Append(r, k)) = C!ToSet(r) \cup {k}
      <4>1. \A j \in CacheKeys : Append(r, j) \in Seq(CacheKeys) /\ C!ToSet(Append(r, j)) = C!ToSet(r) \cup {j}
        <5>1. \A Elements : \A list \in Seq(Elements) : \A j \in Elements :
                Append(list, j) \in Seq(Elements) /\ C!ToSet(Append(list, j)) = C!ToSet(list) \cup {j}
          BY ListParts
        <5>2. QED
          BY <3>1, <5>1
      <4>2. QED
        BY <4>1
    <3>4. C!used(k) = Append(r, k)
      BY <3>1 DEF C!used
    <3>5. QED
      BY <2>2, <3>2, <3>3, <3>4
  <2>4. QED
    BY <2>1, <2>2, <2>3
<1>5. ASSUME NEW ks, C!without(ks)
      PROVE  /\ DOMAIN mc_deadline' \subseteq CacheKeys /\ \A k \in DOMAIN mc_deadline' : mc_deadline'[k] \in Nat
             /\ mc_order' \in Seq(CacheKeys) /\ (mc_lru => C!ToSet(mc_order') = DOMAIN mc_deadline')
  <2>1. mc_order' = C!retained(mc_order, CacheKeys \ ks) /\ mc_deadline' = [k \in DOMAIN mc_deadline \ ks |-> mc_deadline[k]]
    BY <1>5 DEF C!without, C!present
  <2>2. QED
    BY <1>1, <1>4, <2>1
<1>6. ASSUME NEW b, C!kind(b)
      PROVE  UNCHANGED <<mc_lru, mc_cap, mc_update, mc_overlap>> /\ mc_cfg' = mc_cfg /\ mc_now' \in Nat
  BY <1>1, <1>6 DEF C!kind, C!config
<1>7. ASSUME NEW ks, NEW b, C!kind(b), C!without(ks)
      PROVE  MemoryInv' /\ \A u \in Updaters : ~(mc_update[u].step = "rebuild" /\ mc_update'[u].step = "write")
  BY <1>3, <1>5, <1>6, <1>7
<1>8. ASSUME UNCHANGED <<mc_lru, mc_cap, mc_update, mc_overlap, mc_deadline, mc_order>>,
             mc_cfg' = mc_cfg \/ (~mc_lru /\ mc_cfg' \in Nat), mc_now' \in Nat
      PROVE  MemoryInv' /\ \A u \in Updaters : ~(mc_update[u].step = "rebuild" /\ mc_update'[u].step = "write")
  BY <1>1, <1>3, <1>8
<1>9. CASE C!basic
  <2>1. ASSUME NEW k \in CacheKeys, NEW ttl \in {0, CacheTtl}, C!basic_store(k, ttl)
        PROVE  MemoryInv' /\ \A u \in Updaters : ~(mc_update[u].step = "rebuild" /\ mc_update'[u].step = "write")
    <3>1. mc_now + ttl \in Nat
      BY <1>1, CacheNumbers
    <3>2. /\ mc_deadline' = [j \in DOMAIN mc_deadline \cup {k} |-> IF j = k THEN mc_now + ttl ELSE mc_deadline[j]]
          /\ mc_order' = mc_order /\ ~mc_lru
      BY <2>1 DEF C!basic_store, C!present, C!kind
    <3>3. DOMAIN mc_deadline' \subseteq CacheKeys /\ \A j \in DOMAIN mc_deadline' : mc_deadline'[j] \in Nat
      BY <1>1, <3>1, <3>2
    <3>4. C!kind(FALSE)
      BY <2>1 DEF C!basic_store
    <3>5. QED
      BY <1>1, <1>3, <1>6, <3>2, <3>3, <3>4
  <2>2. ASSUME NEW k \in CacheKeys, C!basic_remove(k)
        PROVE  MemoryInv' /\ \A u \in Updaters : ~(mc_update[u].step = "rebuild" /\ mc_update'[u].step = "write")
    BY <1>7, <2>2 DEF C!basic_remove
  <2>3. CASE C!basic_clear \/ C!basic_cleanup
    BY <1>7, <2>3 DEF C!basic_clear, C!basic_cleanup
  <2>4. CASE C!basic_get
    BY <1>6, <1>8, <2>4 DEF C!basic_get, C!entries
  <2>5. ASSUME NEW c \in Capacities \cup {C!None}, C!basic_update_config(c)
        PROVE  MemoryInv' /\ \A u \in Updaters : ~(mc_update[u].step = "rebuild" /\ mc_update'[u].step = "write")
    <3>1. c \in Nat
      BY <1>2, CacheNumbers
    <3>2. QED
      BY <1>1, <1>8, <2>5, <3>1 DEF C!basic_update_config, C!entries
  <2>6. QED
    BY <1>9, <2>1, <2>2, <2>3, <2>4, <2>5 DEF C!basic
<1>10. CASE C!tick
  <2>1. mc_now' \in Nat
    BY <1>1, <1>10 DEF C!tick
  <2>2. QED
    BY <1>8, <1>10, <2>1 DEF C!tick, C!config, C!entries
<1>11. CASE UNCHANGED memory_cacheVars
  BY <1>1, <1>8, <1>11 DEF memory_cacheVars
<1>12. ASSUME NEW k \in CacheKeys, C!get_from_cache(k)
       PROVE  MemoryInv' /\ \A u \in Updaters : ~(mc_update[u].step = "rebuild" /\ mc_update'[u].step = "write")
  <2>1. C!kind(TRUE) /\ mc_lru
    BY <1>1, <1>12 DEF C!get_from_cache, C!kind
  <2>2. CASE UNCHANGED C!entries
    BY <1>6, <1>8, <2>1, <2>2 DEF C!entries
  <2>3. CASE C!without({k})
    BY <1>7, <2>1, <2>3
  <2>4. CASE k \in DOMAIN mc_deadline /\ mc_order' = C!used(k) /\ UNCHANGED mc_deadline
    <3>1. mc_order' \in Seq(CacheKeys) /\ C!ToSet(mc_order') = DOMAIN mc_deadline'
      BY <1>1, <1>4, <2>1, <2>4
    <3>2. QED
      BY <1>1, <1>3, <1>6, <2>1, <2>4, <3>1
  <2>5. QED
    BY <1>12, <2>2, <2>3, <2>4 DEF C!get_from_cache, C!present
<1>13. ASSUME NEW k \in CacheKeys, NEW ttl \in {0, CacheTtl}, C!store_in_cache(k, ttl)
       PROVE  MemoryInv' /\ \A u \in Updaters : ~(mc_update[u].step = "rebuild" /\ mc_update'[u].step = "write")
  <2>1. C!kind(TRUE) /\ mc_lru
    BY <1>1, <1>13 DEF C!store_in_cache, C!kind
  <2>2. PICK l \in Seq(CacheKeys) : l = C!used(k) /\ C!ToSet(l) = DOMAIN mc_deadline \cup {k}
    BY <1>1, <1>4, <2>1
  <2>3. mc_order' = C!newest(l, mc_cap)
    BY <1>13, <2>2 DEF C!store_in_cache
  <2>4. mc_order' \in Seq(CacheKeys) /\ C!ToSet(mc_order') \subseteq DOMAIN mc_deadline \cup {k}
    <3>1. \A n \in Nat : C!newest(l, n) \in Seq(CacheKeys) /\ C!ToSet(C!newest(l, n)) \subseteq C!ToSet(l)
      BY <2>2, ListParts
    <3>2. mc_cap \in Nat
      BY <1>1
    <3>3. QED
      BY <2>2, <2>3, <3>1, <3>2
  <2>5. mc_deadline' = [j \in C!ToSet(mc_order') |-> IF j = k THEN mc_now + ttl ELSE mc_deadline[j]]
    BY <1>13 DEF C!store_in_cache
  <2>6. mc_now + ttl \in Nat
    BY <1>1, CacheNumbers
  <2>7. DOMAIN mc_deadline' = C!ToSet(mc_order') /\ \A j \in DOMAIN mc_deadline' : mc_deadline'[j] \in Nat
    BY <1>1, <2>4, <2>5, <2>6
  <2>8. DOMAIN mc_deadline' \subseteq CacheKeys
    BY <1>1, <2>4, <2>7
  <2>9. QED
    BY <1>3, <1>6, <2>1, <2>4, <2>7, <2>8
<1>14. ASSUME \/ \E k \in CacheKeys : C!remove(k)
              \/ C!clear
              \/ C!cleanup_cache
       PROVE  MemoryInv' /\ \A u \in Updaters : ~(mc_update[u].step = "rebuild" /\ mc_update'[u].step = "write")
  BY <1>7, <1>14 DEF C!remove, C!clear, C!cleanup_cache
<1>15. ASSUME NEW me \in Updaters, NEW c \in Capacities \cup {C!None}, C!update_config(me, c)
       PROVE  MemoryInv' /\ \A w \in Updaters : ~(mc_update[w].step = "rebuild" /\ mc_update'[w].step = "write")
  <2>1. c \in Nat
    BY <1>2, CacheNumbers
  <2>2. PICK job \in [step : {"rebuild", "write"}, capacity : Nat] :
          /\ mc_update' = [mc_update EXCEPT ![me] = job] /\ job.capacity = c
          /\ job.step = "write" => c \in {0, mc_cfg}
          /\ job.step = "rebuild" => c # 0
    <3>1. PICK st \in {"rebuild", "write"} : st = IF c \in {C!None, mc_cfg} THEN "write" ELSE "rebuild"
      OBVIOUS
    <3>2. PICK job : job = [step |-> st, capacity |-> c]
      OBVIOUS
    <3>3. mc_update' = [mc_update EXCEPT ![me] = job]
      BY <1>15, <3>1, <3>2 DEF C!update_config
    <3>4. job \in [step : {"rebuild", "write"}, capacity : Nat] /\ job.capacity = c /\ job.step = st
      BY <2>1, <3>2
    <3>5. QED
      BY <1>2, <3>1, <3>3, <3>4
  <2>3. mc_lru /\ mc_update[me] = C!idle /\ UNCHANGED <<mc_lru, mc_now, mc_cap, mc_cfg, mc_deadline, mc_order>>
    BY <1>15 DEF C!update_config, C!entries
  <2>4. mc_update'[me] = job /\ (\A w \in Updaters \ {me} : mc_update'[w] = mc_update[w]) /\ job # C!idle
        /\ mc_update' \in [Updaters -> [step : {"idle", "rebuild", "write"}, capacity : Nat]]
    <3>1. job.step # "idle" /\ job \in [step : {"idle", "rebuild", "write"}, capacity : Nat]
      BY <2>2
    <3>2. QED
      BY <1>1, <1>2, <2>2, <3>1
  <2>5. mc_overlap' \in BOOLEAN /\ (~mc_overlap' => ~mc_overlap /\ \A w \in Updaters : mc_update[w] = C!idle)
    BY <1>1, <1>15 DEF C!update_config
  <2>6. C!memoryTypeOK'
    <3>1. \A w \in Updaters : mc_update'[w].step \in {"idle", "rebuild", "write"} /\ mc_update'[w].capacity \in Nat
      BY <2>4
    <3>2. C!present' = C!present /\ C!ToSet(mc_order)' = C!ToSet(mc_order)
      BY <2>3 DEF C!present, C!ToSet
    <3>3. QED
      BY <2>3, <2>5, <3>1, <3>2 DEF MemoryInv, C!memoryTypeOK
  <2>7. \A w \in Updaters :
          /\ mc_update'[w].step = "idle" => mc_update'[w] = C!idle
          /\ mc_update'[w].step = "rebuild" => mc_update'[w].capacity > 0
          /\ ~mc_lru' => mc_update'[w] = C!idle
    <3>1. job.step = "rebuild" => job.capacity > 0
      BY <2>1, <2>2
    <3>2. QED
      BY <2>2, <2>3, <2>4, <3>1 DEF MemoryInv
  <2>8. ASSUME ~mc_overlap'
        PROVE  /\ \A v, w \in Updaters : mc_update'[v] # C!idle /\ mc_update'[w] # C!idle => v = w
               /\ ~ \A w \in Updaters : mc_update'[w] = C!idle
               /\ \A w \in Updaters : mc_update'[w].step = "write" => mc_update'[w].capacity \in {0, mc_cap'}
    <3>1. mc_cfg \in {0, mc_cap} /\ \A w \in Updaters \ {me} : mc_update'[w] = C!idle
      BY <2>3, <2>4, <2>5, <2>8 DEF MemoryInv, OneUpdate
    <3>2. job.step = "write" => job.capacity \in {0, mc_cap'}
      BY <2>2, <2>3, <3>1
    <3>3. QED
      BY <1>2, <2>4, <3>1, <3>2
  <2>9. MemoryInv'
    <3>1. ~mc_overlap' => OneUpdate'
      BY <1>2, <2>8 DEF OneUpdate
    <3>2. mc_lru' /\ ~mc_overlap' => OneUpdate'
      BY <3>1
    <3>3. QED
      BY <1>2, <2>4, <2>6, <2>7, <3>2 DEF MemoryInv
  <2>10. QED
    BY <1>2, <2>3, <2>4, <2>9
<1>16. ASSUME NEW me \in Updaters, C!rebuild(me)
       PROVE  /\ MemoryInv'
              /\ \A w \in Updaters : mc_update[w].step = "rebuild" /\ mc_update'[w].step = "write" => w = me
              /\ mc_update[me].capacity >= Len(mc_order) => C!present' = C!present
  <2>1. PICK n \in Nat : n = mc_update[me].capacity /\ n > 0 /\ mc_update[me].step = "rebuild" /\ mc_lru
    BY <1>1, <1>2, <1>16 DEF C!rebuild, MemoryInv
  <2>2. PICK job \in [step : {"write"}, capacity : Nat] : mc_update' = [mc_update EXCEPT ![me] = job] /\ job.capacity = n
    <3>1. PICK job : job = [mc_update[me] EXCEPT !.step = "write"]
      OBVIOUS
    <3>2. mc_update[me] \in [step : {"idle", "rebuild", "write"}, capacity : Nat]
      BY <1>1
    <3>3. job \in [step : {"write"}, capacity : Nat] /\ job.capacity = n
      BY <2>1, <3>1, <3>2
    <3>4. mc_update' = [mc_update EXCEPT ![me] = job]
      BY <1>1, <1>16, <3>1 DEF C!rebuild
    <3>5. QED
      BY <3>3, <3>4
  <2>3. mc_update'[me] = job /\ (\A w \in Updaters \ {me} : mc_update'[w] = mc_update[w]) /\ job # C!idle
        /\ job.step = "write" /\ mc_update' \in [Updaters -> [step : {"idle", "rebuild", "write"}, capacity : Nat]]
    <3>1. job.step = "write" /\ job \in [step : {"idle", "rebuild", "write"}, capacity : Nat]
      BY <2>2
    <3>2. QED
      BY <1>1, <1>2, <2>2, <3>1
  <2>4. mc_cap' = n /\ UNCHANGED <<mc_lru, mc_now, mc_cfg, mc_overlap>>
    BY <1>16, <2>1 DEF C!rebuild
  <2>5. PICK r \in Seq(CacheKeys) :
          r = C!Reverse(mc_order) /\ C!ToSet(r) = DOMAIN mc_deadline /\ Len(r) = Len(mc_order)
    BY <1>1, <2>1, ListParts
  <2>6. mc_order' = C!newest(r, n)
    BY <1>16, <2>4, <2>5 DEF C!rebuild
  <2>7. mc_order' \in Seq(CacheKeys) /\ C!ToSet(mc_order') \subseteq DOMAIN mc_deadline
        /\ (Len(mc_order) <= n => C!ToSet(mc_order') = DOMAIN mc_deadline)
    <3>1. \A m \in Nat : C!newest(r, m) \in Seq(CacheKeys) /\ C!ToSet(C!newest(r, m)) \subseteq C!ToSet(r)
      BY <2>5, ListParts
    <3>2. \A m \in Nat : Len(r) <= m => C!newest(r, m) = r
      BY <2>5, ListParts
    <3>3. mc_order' \in Seq(CacheKeys) /\ C!ToSet(mc_order') \subseteq DOMAIN mc_deadline
      BY <2>5, <2>6, <3>1
    <3>4. Len(mc_order) <= n => mc_order' = r
      BY <2>5, <2>6, <3>2
    <3>5. QED
      BY <2>5, <3>3, <3>4
  <2>8. mc_deadline' = [k \in C!ToSet(mc_order') |-> mc_deadline[k]]
    BY <1>16 DEF C!rebuild
  <2>9. DOMAIN mc_deadline' = C!ToSet(mc_order') /\ DOMAIN mc_deadline' \subseteq CacheKeys
        /\ \A k \in DOMAIN mc_deadline' : mc_deadline'[k] \in Nat
    BY <1>1, <2>7, <2>8
  <2>10. C!memoryTypeOK'
    <3>1. \A w \in Updaters : mc_update'[w].step \in {"idle", "rebuild", "write"} /\ mc_update'[w].capacity \in Nat
      BY <2>3
    <3>2. C!present' = DOMAIN mc_deadline' /\ C!ToSet(mc_order)' = C!ToSet(mc_order')
      BY DEF C!present, C!ToSet
    <3>3. mc_lru' \in BOOLEAN /\ mc_overlap' \in BOOLEAN /\ mc_now' \in Nat /\ mc_cfg' \in Nat /\ mc_cap' \in Nat \ {0}
      BY <1>1, <2>1, <2>4
    <3>4. QED
      BY <2>7, <2>9, <3>1, <3>2, <3>3 DEF C!memoryTypeOK
  <2>11. \A w \in Updaters :
           /\ mc_update'[w].step = "idle" => mc_update'[w] = C!idle
           /\ mc_update'[w].step = "rebuild" => mc_update'[w].capacity > 0
           /\ ~mc_lru' => mc_update'[w] = C!idle
    BY <2>1, <2>3, <2>4 DEF MemoryInv
  <2>12. mc_lru' /\ ~mc_overlap' => OneUpdate'
    <3>1. SUFFICES ASSUME ~mc_overlap
                   PROVE  OneUpdate'
      BY <2>4
    <3>2. mc_update[me] # C!idle
      BY <1>2, <2>1
    <3>3. \A w \in Updaters \ {me} : mc_update'[w] = C!idle
      BY <2>1, <2>3, <3>1, <3>2 DEF MemoryInv, OneUpdate
    <3>4. \A v, w \in Updaters : mc_update'[v] # C!idle /\ mc_update'[w] # C!idle => v = w
      BY <3>3
    <3>5. ~ \A w \in Updaters : mc_update'[w] = C!idle
      BY <2>3
    <3>6. \A w \in Updaters : mc_update'[w].step = "write" => mc_update'[w].capacity \in {0, mc_cap'}
      BY <1>2, <2>2, <2>3, <2>4, <3>3
    <3>7. QED
      BY <1>2, <3>4, <3>5, <3>6 DEF OneUpdate
  <2>13. MemoryInv'
    BY <1>2, <2>3, <2>10, <2>11, <2>12 DEF MemoryInv
  <2>14. \A w \in Updaters : mc_update[w].step = "rebuild" /\ mc_update'[w].step = "write" => w = me
    BY <2>3
  <2>15. mc_update[me].capacity >= Len(mc_order) => C!present' = C!present
    <3>1. Len(mc_order) \in Nat
      BY <1>1, LenProperties
    <3>2. QED
      BY <2>1, <2>7, <2>9, <3>1 DEF C!present
  <2>16. QED
    BY <2>13, <2>14, <2>15
<1>17. ASSUME NEW me \in Updaters, C!write_config(me)
       PROVE  MemoryInv' /\ \A w \in Updaters : ~(mc_update[w].step = "rebuild" /\ mc_update'[w].step = "write")
  <2>1. /\ mc_update[me].step = "write" /\ mc_cfg' = mc_update[me].capacity /\ mc_cfg' \in Nat
        /\ mc_update' = [mc_update EXCEPT ![me] = C!idle]
        /\ UNCHANGED <<mc_lru, mc_now, mc_cap, mc_overlap, mc_deadline, mc_order>>
    BY <1>1, <1>17 DEF C!write_config, C!entries
  <2>2. mc_update'[me] = C!idle /\ (\A w \in Updaters \ {me} : mc_update'[w] = mc_update[w])
        /\ mc_update' \in [Updaters -> [step : {"idle", "rebuild", "write"}, capacity : Nat]]
    BY <1>1, <1>2, <2>1
  <2>3. C!memoryTypeOK'
    <3>1. \A w \in Updaters : mc_update'[w].step \in {"idle", "rebuild", "write"} /\ mc_update'[w].capacity \in Nat
      BY <2>2
    <3>2. C!present' = C!present /\ C!ToSet(mc_order)' = C!ToSet(mc_order)
      BY <2>1 DEF C!present, C!ToSet
    <3>3. QED
      BY <2>1, <3>1, <3>2 DEF MemoryInv, C!memoryTypeOK
  <2>4. \A w \in Updaters :
          /\ mc_update'[w].step = "idle" => mc_update'[w] = C!idle
          /\ mc_update'[w].step = "rebuild" => mc_update'[w].capacity > 0
          /\ ~mc_lru' => mc_update'[w] = C!idle
    BY <1>2, <2>1, <2>2 DEF MemoryInv
  <2>5. mc_lru' /\ ~mc_overlap' => OneUpdate'
    <3>1. SUFFICES ASSUME ~mc_overlap
                   PROVE  OneUpdate'
      BY <2>1
    <3>2. mc_update[me] # C!idle /\ mc_lru
      BY <1>2, <2>1 DEF MemoryInv
    <3>3. \A w \in Updaters : mc_update'[w] = C!idle
      BY <2>2, <3>1, <3>2 DEF MemoryInv, OneUpdate
    <3>4. mc_cfg' \in {0, mc_cap'}
      BY <2>1, <3>1, <3>2 DEF MemoryInv, OneUpdate
    <3>5. QED
      BY <1>2, <3>3, <3>4 DEF OneUpdate
  <2>6. MemoryInv'
    BY <1>2, <2>2, <2>3, <2>4, <2>5 DEF MemoryInv
  <2>7. QED
    BY <1>2, <2>2, <2>6
<1>18. CASE C!lru
  <2>1. \/ \E k \in CacheKeys : C!get_from_cache(k) \/ C!remove(k) \/ \E ttl \in {0, CacheTtl} : C!store_in_cache(k, ttl)
        \/ C!clear \/ C!cleanup_cache
        \/ \E u \in Updaters : (\E c \in Capacities \cup {C!None} : C!update_config(u, c)) \/ C!rebuild(u) \/ C!write_config(u)
    BY <1>18 DEF C!lru
  <2>2. QED
    BY <2>1, <1>12, <1>13, <1>14, <1>15, <1>16, <1>17
<1>19. QED
  BY <1>9, <1>10, <1>11, <1>18 DEF C!memoryNext

(* Without overlapping updates, the capacity follows the configuration. *)
LEMMA MemoryMeans == MemoryInv => C!memoryTypeOK /\ C!CapacityFollowsConfig
BY DEF MemoryInv, OneUpdate, C!CapacityFollowsConfig, C!None

(***************************************************************************)
(* The caches of two maps, and the one in Redis.                           *)
(***************************************************************************)
Jobs == [pc : {"idle", "clean", "sweep", "swept", "set", "deadline", "remove", "forget"},
         keys : SUBSET CacheNames, todo : SUBSET CacheNames, swept : SUBSET CacheNames]

\* The threads that found room and have not stored their entry.
Setters == {w \in Workers : tm_job[w].pc = "set"}

\* Whoever is between the two maps at a key is there alone, and what he has left
\* behind is as he left it.
OneHalfway ==
  /\ \A w, x \in Workers : w # x => C!halfway(w) \cap C!halfway(x) = {}
  /\ \A w \in Workers : /\ tm_job[w].pc = "deadline" => tm_job[w].keys \subseteq tm_entries
                        /\ tm_job[w].pc = "forget" => tm_job[w].keys \cap tm_entries = {}
                        /\ tm_job[w].pc = "swept" => tm_job[w].swept \cap tm_entries = {}

\* A thread stores one entry at most, so those that found room and have not used
\* it take a place each.
MapsInv ==
  /\ C!mapsTypeOK /\ tm_job \in [Workers -> Jobs]
  /\ Cardinality(tm_entries) + Cardinality(Setters) <= CacheSize + Cardinality(Workers) - 1
  /\ \A w \in Workers : tm_job[w].pc \in {"clean", "sweep", "swept", "set"} => \E k \in CacheNames : tm_job[w].keys = {k}
  /\ C!MapsAgree
  /\ ~tm_met => OneHalfway

(* Counting, as the cache does and here. *)
LEMMA CountParts ==
  /\ \A S : C!Cardinality(S) = Cardinality(S)
  /\ \A S \in SUBSET Workers : IsFiniteSet(S) /\ Cardinality(S) \in Nat /\ Cardinality(S) <= Cardinality(Workers)
  /\ \A S \in SUBSET CacheNames : IsFiniteSet(S) /\ Cardinality(S) \in Nat
<1>1. \A S : C!Cardinality(S) = Cardinality(S)
  BY DEF C!Cardinality, C!IsFiniteSet, Cardinality, IsFiniteSet
<1>2. IsFiniteSet(Workers) /\ IsFiniteSet(CacheNames)
  BY CacheNumbers
<1>3. \A S \in SUBSET Workers : IsFiniteSet(S) /\ Cardinality(S) <= Cardinality(Workers)
  BY <1>2, FS_Subset
<1>4. \A S \in SUBSET CacheNames : IsFiniteSet(S)
  BY <1>2, FS_Subset
<1>5. QED
  BY <1>1, <1>3, <1>4, FS_CardinalityType

LEMMA MapsInit == C!mapsInit => MapsInv
<1> SUFFICES ASSUME C!mapsInit
             PROVE  MapsInv
  OBVIOUS
<1>1. C!no_job \in Jobs /\ C!no_job.pc = "idle" /\ C!no_job.keys = {} /\ C!no_job.todo = {} /\ C!no_job.swept = {}
  BY DEF C!no_job, Jobs
<1>2. tm_job \in [Workers -> Jobs] /\ \A w \in Workers : tm_job[w] = C!no_job
  BY <1>1 DEF C!mapsInit
<1>3. C!mapsTypeOK
  BY <1>1, <1>2 DEF C!mapsInit, C!mapsTypeOK
<1>4. Setters = {} /\ tm_entries = {} /\ Cardinality({}) = 0
  BY <1>1, <1>2, FS_EmptySet DEF Setters, C!mapsInit
<1>5. Cardinality(Workers) \in Nat \ {0}
  BY CacheNumbers, FS_EmptySet, FS_CardinalityType
<1>6. \A w \in Workers : C!halfway(w) = {}
  BY <1>1, <1>2 DEF C!halfway
<1>7. QED
  <2>1. Cardinality(tm_entries) + Cardinality(Setters) <= CacheSize + Cardinality(Workers) - 1
    BY <1>4, <1>5, CacheNumbers
  <2>2. C!MapsAgree
    BY DEF C!MapsAgree, C!mapsInit
  <2>3. OneHalfway
    BY <1>1, <1>2, <1>6 DEF OneHalfway
  <2>4. QED
    BY <1>1, <1>2, <1>3, <2>1, <2>2, <2>3 DEF MapsInv

(* The bound, when one thread moves on. *)
LEMMA MapsBound ==
  ASSUME MapsInv, NEW w \in Workers, NEW job \in Jobs, tm_job' = [tm_job EXCEPT ![w] = job],
         \/ tm_entries' \subseteq tm_entries /\ (job.pc = "set" => Cardinality(tm_entries) < CacheSize)
         \/ tm_job[w].pc = "set" /\ job.pc # "set" /\ tm_entries' = tm_entries \cup tm_job[w].keys
  PROVE  Cardinality(tm_entries') + Cardinality(Setters') <= CacheSize + Cardinality(Workers) - 1
<1>1. /\ tm_entries \subseteq CacheNames /\ tm_job \in [Workers -> Jobs] /\ Setters \subseteq Workers
      /\ Cardinality(tm_entries) + Cardinality(Setters) <= CacheSize + Cardinality(Workers) - 1
  BY DEF MapsInv, C!mapsTypeOK, Setters
<1>2. Setters' = IF job.pc = "set" THEN Setters \cup {w} ELSE Setters \ {w}
  BY <1>1 DEF Setters
<1>3. /\ IsFiniteSet(Setters) /\ IsFiniteSet(tm_entries) /\ Cardinality(Setters) \in Nat /\ Cardinality(tm_entries) \in Nat
      /\ Cardinality(Workers) \in Nat /\ CacheSize \in Nat /\ Cardinality(Setters) <= Cardinality(Workers)
  BY <1>1, CountParts, CacheNumbers, FS_CardinalityType
<1>4. CASE tm_entries' \subseteq tm_entries
  <2>1. Cardinality(tm_entries') \in Nat /\ Cardinality(tm_entries') <= Cardinality(tm_entries)
    BY <1>3, <1>4, FS_Subset, FS_CardinalityType
  <2>2. CASE job.pc # "set"
    <3>1. Setters' \subseteq Setters
      BY <1>2, <2>2
    <3>2. Cardinality(Setters') \in Nat /\ Cardinality(Setters') <= Cardinality(Setters)
      BY <1>3, <3>1, FS_Subset, FS_CardinalityType
    <3>3. QED
      BY <1>1, <1>3, <2>1, <3>2
  <2>3. CASE job.pc = "set" /\ Cardinality(tm_entries) < CacheSize
    <3>1. Setters' \subseteq Workers
      BY <1>1, <1>2
    <3>2. Cardinality(Setters') \in Nat /\ Cardinality(Setters') <= Cardinality(Workers)
      BY <3>1, CountParts
    <3>3. QED
      BY <1>3, <2>1, <2>3, <3>2
  <2>4. CASE job.pc = "set" /\ ~(Cardinality(tm_entries) < CacheSize)
    <3>1. tm_job[w].pc = "set" /\ job.pc # "set"
      BY <2>4
    <3>2. QED
      BY <2>4, <3>1
  <2>5. QED
    BY <2>2, <2>3, <2>4
<1>5. CASE tm_job[w].pc = "set" /\ job.pc # "set" /\ tm_entries' = tm_entries \cup tm_job[w].keys
  <2>1. PICK k \in CacheNames : tm_job[w].keys = {k}
    BY <1>5 DEF MapsInv
  <2>2. Cardinality(tm_entries') \in Nat /\ Cardinality(tm_entries') <= Cardinality(tm_entries) + 1
    <3>1. tm_entries' = tm_entries \cup {k}
      BY <1>5, <2>1
    <3>2. Cardinality(tm_entries \cup {k}) = IF k \in tm_entries THEN Cardinality(tm_entries) ELSE Cardinality(tm_entries) + 1
      BY <1>3, FS_AddElement
    <3>3. QED
      BY <1>3, <3>1, <3>2
  <2>3. w \in Setters /\ Setters' = Setters \ {w}
    BY <1>2, <1>5 DEF Setters
  <2>4. Cardinality(Setters') = Cardinality(Setters) - 1
    BY <1>3, <2>3, FS_RemoveElement
  <2>5. QED
    BY <1>1, <1>3, <2>2, <2>4
<1>6. QED
  BY <1>4, <1>5

LEMMA Halfways ==
  ASSUME NEW x
  PROVE  /\ tm_job[x].pc \in {"deadline", "forget"} => C!halfway(x) = tm_job[x].keys
         /\ tm_job[x].pc = "swept" => C!halfway(x) = tm_job[x].swept
         /\ tm_job[x].pc \notin {"deadline", "forget", "swept"} => C!halfway(x) = {}
BY DEF C!halfway

LEMMA HalfwaysNext ==
  ASSUME NEW x
  PROVE  /\ tm_job'[x].pc \in {"deadline", "forget"} => C!halfway(x)' = tm_job'[x].keys
         /\ tm_job'[x].pc = "swept" => C!halfway(x)' = tm_job'[x].swept
         /\ tm_job'[x].pc \notin {"deadline", "forget", "swept"} => C!halfway(x)' = {}
BY DEF C!halfway

(* The two maps, when one thread moves on: it changes the one, the other, or *)
(* neither.                                                                  *)
LEMMA MapsAlone ==
  ASSUME MapsInv, NEW w \in Workers, NEW job \in Jobs, tm_job' = [tm_job EXCEPT ![w] = job], NEW ks \in SUBSET CacheNames,
         \/ /\ tm_job[w].pc \notin {"deadline", "forget", "swept"} /\ job.pc \notin {"deadline", "forget", "swept"}
            /\ UNCHANGED <<tm_entries, tm_live, tm_dead, tm_met>>
         \/ /\ tm_job[w].pc \notin {"deadline", "forget", "swept"} /\ C!meets(w, ks)
            /\ \/ job.pc = "deadline" /\ job.keys = ks /\ tm_entries' = tm_entries \cup ks
               \/ job.pc = "forget" /\ job.keys = ks /\ tm_entries' = tm_entries \ ks
               \/ job.pc = "swept" /\ job.swept = ks /\ tm_entries' = tm_entries \ ks
            /\ UNCHANGED <<tm_live, tm_dead>>
         \/ /\ job.pc \notin {"deadline", "forget", "swept"} /\ C!meets(w, ks) /\ UNCHANGED tm_entries
            /\ \/ tm_job[w].pc = "deadline" /\ tm_job[w].keys = ks /\ tm_live' = tm_live \cup ks /\ tm_dead' = tm_dead \ ks
               \/ tm_job[w].pc = "forget" /\ tm_job[w].keys = ks /\ tm_live' = tm_live \ ks /\ tm_dead' = tm_dead \ ks
               \/ tm_job[w].pc = "swept" /\ tm_job[w].swept = ks /\ tm_live' = tm_live \ ks /\ tm_dead' = tm_dead \ ks
  PROVE  C!MapsAgree' /\ (~tm_met' => OneHalfway')
<1>1. /\ tm_job'[w] = job /\ (\A x \in Workers \ {w} : tm_job'[x] = tm_job[x])
      /\ tm_job \in [Workers -> Jobs] /\ tm_entries \subseteq CacheNames
  BY DEF MapsInv, C!mapsTypeOK
<1>2. \A x \in Workers \ {w} : C!halfway(x)' = C!halfway(x)
  BY <1>1 DEF C!halfway
<1>3. SUFFICES ASSUME ~tm_met'
               PROVE  C!MapsAgree' /\ OneHalfway'
  BY DEF C!MapsAgree
<1>4. ~tm_met
  BY <1>3 DEF C!meets
<1>5. /\ \A x, y \in Workers : x # y => C!halfway(x) \cap C!halfway(y) = {}
      /\ \A x \in Workers : /\ tm_job[x].pc = "deadline" => tm_job[x].keys \subseteq tm_entries
                            /\ tm_job[x].pc = "forget" => tm_job[x].keys \cap tm_entries = {}
                            /\ tm_job[x].pc = "swept" => tm_job[x].swept \cap tm_entries = {}
      /\ \A k \in CacheNames :
           (\A x \in Workers : k \notin C!halfway(x)) => (k \in tm_entries <=> k \in tm_live \cup tm_dead)
  BY <1>4 DEF MapsInv, OneHalfway, C!MapsAgree
<1>6. SUFFICES /\ \A x, y \in Workers : x # y => C!halfway(x)' \cap C!halfway(y)' = {}
               /\ \A x \in Workers : /\ tm_job'[x].pc = "deadline" => tm_job'[x].keys \subseteq tm_entries'
                                     /\ tm_job'[x].pc = "forget" => tm_job'[x].keys \cap tm_entries' = {}
                                     /\ tm_job'[x].pc = "swept" => tm_job'[x].swept \cap tm_entries' = {}
               /\ \A k \in CacheNames :
                    (\A x \in Workers : k \notin C!halfway(x)') => (k \in tm_entries' <=> k \in tm_live' \cup tm_dead')
  BY DEF OneHalfway, C!MapsAgree
<1>7. CASE /\ tm_job[w].pc \notin {"deadline", "forget", "swept"} /\ job.pc \notin {"deadline", "forget", "swept"}
           /\ UNCHANGED <<tm_entries, tm_live, tm_dead, tm_met>>
  <2>1. C!halfway(w) = {} /\ C!halfway(w)' = {}
    BY <1>1, <1>7, Halfways, HalfwaysNext
  <2>2. QED
    BY <1>1, <1>2, <1>5, <1>7, <2>1
<1>8. CASE /\ tm_job[w].pc \notin {"deadline", "forget", "swept"} /\ C!meets(w, ks)
           /\ \/ job.pc = "deadline" /\ job.keys = ks /\ tm_entries' = tm_entries \cup ks
              \/ job.pc = "forget" /\ job.keys = ks /\ tm_entries' = tm_entries \ ks
              \/ job.pc = "swept" /\ job.swept = ks /\ tm_entries' = tm_entries \ ks
           /\ UNCHANGED <<tm_live, tm_dead>>
  <2>1. C!halfway(w) = {} /\ C!halfway(w)' = ks
    BY <1>1, <1>8, Halfways, HalfwaysNext
  <2>2. \A x \in Workers \ {w} : ks \cap C!halfway(x) = {}
    BY <1>3, <1>8 DEF C!meets
  <2>3. \A x, y \in Workers : x # y => C!halfway(x)' \cap C!halfway(y)' = {}
    BY <1>2, <1>5, <2>1, <2>2
  <2>4. ASSUME NEW x \in Workers \ {w}
        PROVE  /\ tm_job'[x].pc = "deadline" => tm_job'[x].keys \subseteq tm_entries'
               /\ tm_job'[x].pc = "forget" => tm_job'[x].keys \cap tm_entries' = {}
               /\ tm_job'[x].pc = "swept" => tm_job'[x].swept \cap tm_entries' = {}
    <3>1. /\ tm_job[x].pc \in {"deadline", "forget"} => tm_job[x].keys \cap ks = {}
          /\ tm_job[x].pc = "swept" => tm_job[x].swept \cap ks = {}
      BY <2>2, Halfways
    <3>2. QED
      BY <1>1, <1>5, <1>8, <3>1
  <2>5. /\ tm_job'[w].pc = "deadline" => tm_job'[w].keys \subseteq tm_entries'
        /\ tm_job'[w].pc = "forget" => tm_job'[w].keys \cap tm_entries' = {}
        /\ tm_job'[w].pc = "swept" => tm_job'[w].swept \cap tm_entries' = {}
    BY <1>1, <1>8
  <2>6. ASSUME NEW k \in CacheNames, \A x \in Workers : k \notin C!halfway(x)'
        PROVE  k \in tm_entries' <=> k \in tm_live' \cup tm_dead'
    <3>1. k \notin ks /\ \A x \in Workers : k \notin C!halfway(x)
      BY <1>2, <2>1, <2>6
    <3>2. k \in tm_entries' <=> k \in tm_entries
      BY <1>8, <3>1
    <3>3. QED
      BY <1>5, <1>8, <3>1, <3>2
  <2>7. QED
    BY <2>3, <2>4, <2>5, <2>6
<1>9. CASE /\ job.pc \notin {"deadline", "forget", "swept"} /\ C!meets(w, ks) /\ UNCHANGED tm_entries
           /\ \/ tm_job[w].pc = "deadline" /\ tm_job[w].keys = ks /\ tm_live' = tm_live \cup ks /\ tm_dead' = tm_dead \ ks
              \/ tm_job[w].pc = "forget" /\ tm_job[w].keys = ks /\ tm_live' = tm_live \ ks /\ tm_dead' = tm_dead \ ks
              \/ tm_job[w].pc = "swept" /\ tm_job[w].swept = ks /\ tm_live' = tm_live \ ks /\ tm_dead' = tm_dead \ ks
  <2>1. C!halfway(w) = ks /\ C!halfway(w)' = {}
    BY <1>1, <1>9, Halfways, HalfwaysNext
  <2>2. \A x, y \in Workers : x # y => C!halfway(x)' \cap C!halfway(y)' = {}
    BY <1>2, <1>5, <2>1
  <2>3. ASSUME NEW x \in Workers
        PROVE  /\ tm_job'[x].pc = "deadline" => tm_job'[x].keys \subseteq tm_entries'
               /\ tm_job'[x].pc = "forget" => tm_job'[x].keys \cap tm_entries' = {}
               /\ tm_job'[x].pc = "swept" => tm_job'[x].swept \cap tm_entries' = {}
    BY <1>1, <1>5, <1>9
  <2>4. ASSUME NEW k \in CacheNames, \A x \in Workers : k \notin C!halfway(x)'
        PROVE  k \in tm_entries' <=> k \in tm_live' \cup tm_dead'
    <3>1. CASE k \notin ks
      <4>1. \A x \in Workers : k \notin C!halfway(x)
        BY <1>2, <2>1, <2>4, <3>1
      <4>2. k \in tm_live' \cup tm_dead' <=> k \in tm_live \cup tm_dead
        BY <1>9, <3>1
      <4>3. QED
        BY <1>5, <1>9, <4>1, <4>2
    <3>2. CASE k \in ks
      BY <1>5, <1>9, <3>2
    <3>3. QED
      BY <3>1, <3>2
  <2>5. QED
    BY <2>2, <2>3, <2>4
<1>10. QED
  BY <1>7, <1>8, <1>9

LEMMA MapsMoves ==
  ASSUME MapsInv, NEW w \in Workers, NEW job \in Jobs, tm_job' = [tm_job EXCEPT ![w] = job], NEW ks \in SUBSET CacheNames,
         job.pc \in {"clean", "sweep", "swept", "set"} => \E k \in CacheNames : job.keys = {k},
         \/ tm_entries' \subseteq tm_entries /\ (job.pc = "set" => Cardinality(tm_entries) < CacheSize)
         \/ tm_job[w].pc = "set" /\ job.pc # "set" /\ tm_entries' = tm_entries \cup tm_job[w].keys,
         \/ /\ tm_job[w].pc \notin {"deadline", "forget", "swept"} /\ job.pc \notin {"deadline", "forget", "swept"}
            /\ UNCHANGED <<tm_entries, tm_live, tm_dead, tm_met>>
         \/ /\ tm_job[w].pc \notin {"deadline", "forget", "swept"} /\ C!meets(w, ks)
            /\ \/ job.pc = "deadline" /\ job.keys = ks /\ tm_entries' = tm_entries \cup ks
               \/ job.pc = "forget" /\ job.keys = ks /\ tm_entries' = tm_entries \ ks
               \/ job.pc = "swept" /\ job.swept = ks /\ tm_entries' = tm_entries \ ks
            /\ UNCHANGED <<tm_live, tm_dead>>
         \/ /\ job.pc \notin {"deadline", "forget", "swept"} /\ C!meets(w, ks) /\ UNCHANGED tm_entries
            /\ \/ tm_job[w].pc = "deadline" /\ tm_job[w].keys = ks /\ tm_live' = tm_live \cup ks /\ tm_dead' = tm_dead \ ks
               \/ tm_job[w].pc = "forget" /\ tm_job[w].keys = ks /\ tm_live' = tm_live \ ks /\ tm_dead' = tm_dead \ ks
               \/ tm_job[w].pc = "swept" /\ tm_job[w].swept = ks /\ tm_live' = tm_live \ ks /\ tm_dead' = tm_dead \ ks
  PROVE  MapsInv'
<1>1. C!MapsAgree' /\ (~tm_met' => OneHalfway')
  BY MapsAlone
<1>2. Cardinality(tm_entries') + Cardinality(Setters') <= CacheSize + Cardinality(Workers) - 1
  BY MapsBound
<1>3. tm_job \in [Workers -> Jobs] /\ tm_entries \subseteq CacheNames /\ tm_live \subseteq CacheNames /\ tm_dead \subseteq CacheNames
      /\ tm_met \in BOOLEAN
  BY DEF MapsInv, C!mapsTypeOK
<1>4. tm_job' \in [Workers -> Jobs] /\ tm_job'[w] = job /\ \A x \in Workers \ {w} : tm_job'[x] = tm_job[x]
  BY <1>3
<1>5. tm_entries' \subseteq CacheNames /\ tm_live' \subseteq CacheNames /\ tm_dead' \subseteq CacheNames
  BY <1>3
<1>6. tm_met' \in BOOLEAN
  BY <1>3 DEF C!meets
<1>7. C!mapsTypeOK'
  BY <1>4, <1>5, <1>6 DEF C!mapsTypeOK, Jobs
<1>8. \A x \in Workers : tm_job'[x].pc \in {"clean", "sweep", "swept", "set"} => \E k \in CacheNames : tm_job'[x].keys = {k}
  BY <1>4 DEF MapsInv
<1>9. QED
  BY <1>1, <1>2, <1>4, <1>7, <1>8 DEF MapsInv

(* Every step of a thread or of the clock keeps the invariant. *)
LEMMA MapsStep == MapsInv /\ [C!mapsNext]_two_map_cacheVars => MapsInv'
<1> SUFFICES ASSUME MapsInv, [C!mapsNext]_two_map_cacheVars
             PROVE  MapsInv'
  OBVIOUS
<1>1. tm_job \in [Workers -> Jobs] /\ tm_entries \subseteq CacheNames /\ tm_live \subseteq CacheNames /\ tm_dead \subseteq CacheNames
      /\ tm_met \in BOOLEAN
  BY DEF MapsInv, C!mapsTypeOK
<1>2. CASE UNCHANGED <<tm_entries, tm_job, tm_met>> /\ tm_live' \cup tm_dead' = tm_live \cup tm_dead
  <2>1. \A x : C!halfway(x)' = C!halfway(x)
    BY <1>2 DEF C!halfway
  <2>2. C!mapsTypeOK'
    BY <1>1, <1>2 DEF MapsInv, C!mapsTypeOK
  <2>3. Setters' = Setters
    BY <1>2 DEF Setters
  <2>4. C!MapsAgree' /\ (~tm_met' => OneHalfway')
    BY <1>2, <2>1 DEF MapsInv, C!MapsAgree, OneHalfway
  <2>5. QED
    BY <1>2, <2>2, <2>3, <2>4 DEF MapsInv
<1>3. ASSUME NEW k \in CacheNames, C!expires(k)
      PROVE  MapsInv'
  BY <1>1, <1>2, <1>3 DEF C!expires
<1>4. \A S : C!Cardinality(S) = Cardinality(S)
  BY CountParts
<1>5. ASSUME NEW w \in Workers, NEW ks \in SUBSET CacheNames, NEW pc \in {"remove", "set", "clean"}, C!starts(w, ks, pc),
             pc # "remove" => \E k \in CacheNames : ks = {k}, pc = "set" => Cardinality(tm_entries) < CacheSize
      PROVE  MapsInv'
  <2>1. PICK job : job = [pc |-> pc, keys |-> ks, todo |-> {}, swept |-> {}]
    OBVIOUS
  <2>2. tm_job' = [tm_job EXCEPT ![w] = job] /\ tm_job[w].pc = "idle" /\ UNCHANGED <<tm_entries, tm_live, tm_dead, tm_met>>
    <3>1. tm_job[w].pc = "idle"
      BY <1>5 DEF C!starts, C!no_job
    <3>2. QED
      BY <1>5, <2>1, <3>1 DEF C!starts, C!maps
  <2>3. job \in Jobs /\ job.pc = pc /\ job.keys = ks
    BY <2>1 DEF Jobs
  <2>4. QED
    BY <1>1, <1>5, <2>2, <2>3, MapsMoves
<1>6. ASSUME NEW w \in Workers, NEW k \in CacheNames, C!get(w, k) \/ C!set(w, k) \/ C!remove_key(w, k)
      PROVE  MapsInv'
  <2>1. {k} \in SUBSET CacheNames
    OBVIOUS
  <2>2. CASE C!starts(w, {k}, "remove")
    BY <1>5, <2>1, <2>2
  <2>3. CASE C!set(w, k)
    <3>1. CASE C!is_full
      BY <1>5, <2>1, <2>3, <3>1 DEF C!set
    <3>2. CASE ~C!is_full
      <4>1. Cardinality(tm_entries) < CacheSize
        <5>1. ~(Cardinality(tm_entries) >= CacheSize)
          BY <1>4, <3>2 DEF C!is_full
        <5>2. Cardinality(tm_entries) \in Nat /\ CacheSize \in Nat
          BY <1>1, CountParts, CacheNumbers
        <5>3. QED
          BY <5>1, <5>2
      <4>2. C!starts(w, {k}, "set")
        BY <2>3, <3>2 DEF C!set
      <4>3. QED
        BY <1>5, <2>1, <4>1, <4>2
    <3>3. QED
      BY <3>1, <3>2
  <2>4. QED
    BY <1>6, <2>2, <2>3 DEF C!get, C!remove_key
<1>7. ASSUME NEW w \in Workers, C!clear_keys(w)
      PROVE  MapsInv'
  BY <1>5, <1>7 DEF C!clear_keys
<1>8. ASSUME NEW w \in Workers
      PROVE  /\ tm_job[w] = [pc |-> tm_job[w].pc, keys |-> tm_job[w].keys, todo |-> tm_job[w].todo, swept |-> tm_job[w].swept]
             /\ tm_job[w].keys \in SUBSET CacheNames /\ tm_job[w].todo \in SUBSET CacheNames
             /\ tm_job[w].swept \in SUBSET CacheNames /\ tm_job[w].pc \in {"idle", "clean", "sweep", "swept", "set", "deadline", "remove", "forget"}
             /\ tm_job[w].pc \in {"clean", "sweep", "swept", "set"} => \E k \in CacheNames : tm_job[w].keys = {k}
             /\ C!no_job \in Jobs /\ C!no_job.pc = "idle"
  <2>1. tm_job[w] \in Jobs
    BY <1>1
  <2>2. C!no_job \in Jobs /\ C!no_job.pc = "idle"
    BY DEF Jobs, C!no_job
  <2>3. QED
    BY <2>1, <2>2 DEF Jobs, MapsInv
<1>9. ASSUME NEW w \in Workers, C!cleanup(w)
      PROVE  MapsInv'
  <2>1. PICK job : job = [pc |-> "sweep", keys |-> tm_job[w].keys, todo |-> tm_dead, swept |-> tm_job[w].swept]
    OBVIOUS
  <2>2. job \in Jobs /\ job.pc = "sweep" /\ job.keys = tm_job[w].keys
    BY <1>1, <1>8, <2>1 DEF Jobs
  <2>3. tm_job' = [tm_job EXCEPT ![w] = job]
    BY <1>1, <1>9, <2>1 DEF C!cleanup, C!carries
  <2>4. tm_job[w].pc = "clean" /\ UNCHANGED <<tm_entries, tm_live, tm_dead, tm_met>>
    BY <1>9 DEF C!cleanup, C!maps
  <2>5. {} \in SUBSET CacheNames /\ tm_entries' \subseteq tm_entries /\ \E k \in CacheNames : job.keys = {k}
    BY <1>8, <2>2, <2>4
  <2>6. QED
    BY <2>2, <2>3, <2>4, <2>5, MapsMoves
<1>10. ASSUME NEW w \in Workers, NEW k \in CacheNames, C!cleanup_entry(w, k)
       PROVE  MapsInv'
  <2>1. PICK job : job = [pc |-> "swept", keys |-> tm_job[w].keys, todo |-> tm_job[w].todo, swept |-> {k}]
    OBVIOUS
  <2>2. job \in Jobs /\ job.pc = "swept" /\ job.keys = tm_job[w].keys /\ job.swept = {k}
    BY <1>1, <1>8, <2>1 DEF Jobs
  <2>3. tm_job' = [tm_job EXCEPT ![w] = job]
    BY <1>1, <1>10, <2>1 DEF C!cleanup_entry, C!carries
  <2>4. tm_job[w].pc = "sweep" /\ tm_entries' = tm_entries \ {k} /\ C!meets(w, {k}) /\ UNCHANGED <<tm_live, tm_dead>>
    BY <1>10 DEF C!cleanup_entry
  <2>5. {k} \in SUBSET CacheNames /\ tm_entries' \subseteq tm_entries /\ \E j \in CacheNames : job.keys = {j}
    BY <1>8, <2>2, <2>4
  <2>6. QED
    BY <2>2, <2>3, <2>4, <2>5, MapsMoves
<1>11. ASSUME NEW w \in Workers, C!cleanup_deadline(w)
       PROVE  MapsInv'
  <2>1. PICK job : job = [pc |-> "sweep", keys |-> tm_job[w].keys, todo |-> tm_job[w].todo \ tm_job[w].swept, swept |-> {}]
    OBVIOUS
  <2>2. job \in Jobs /\ job.pc = "sweep" /\ job.keys = tm_job[w].keys
    BY <1>1, <1>8, <2>1 DEF Jobs
  <2>3. tm_job' = [tm_job EXCEPT ![w] = job]
    BY <1>1, <1>11, <2>1 DEF C!cleanup_deadline, C!carries
  <2>4. PICK ks \in SUBSET CacheNames : ks = tm_job[w].swept
    BY <1>8
  <2>5. tm_job[w].pc = "swept" /\ tm_live' = tm_live \ ks /\ tm_dead' = tm_dead \ ks /\ C!meets(w, ks) /\ UNCHANGED tm_entries
    BY <1>11, <2>4 DEF C!cleanup_deadline
  <2>6. tm_entries' \subseteq tm_entries /\ \E j \in CacheNames : job.keys = {j}
    BY <1>8, <2>2, <2>5
  <2>7. QED
    BY <2>2, <2>3, <2>4, <2>5, <2>6, MapsMoves
<1>12. ASSUME NEW w \in Workers, C!checked_again(w)
       PROVE  MapsInv'
  <2>1. PICK job : job = IF C!is_full THEN C!no_job
                         ELSE [pc |-> "set", keys |-> tm_job[w].keys, todo |-> tm_job[w].todo, swept |-> tm_job[w].swept]
    OBVIOUS
  <2>2. job \in Jobs /\ ((job.pc = "set" /\ job.keys = tm_job[w].keys /\ ~C!is_full) \/ job.pc = "idle")
    BY <1>1, <1>8, <2>1 DEF Jobs
  <2>3. tm_job' = [tm_job EXCEPT ![w] = job]
    BY <1>1, <1>8, <1>12, <2>1 DEF C!checked_again, C!ends, C!goes, C!carries
  <2>4. tm_job[w].pc = "sweep" /\ UNCHANGED <<tm_entries, tm_live, tm_dead, tm_met>>
    BY <1>12 DEF C!checked_again, C!maps
  <2>5. {} \in SUBSET CacheNames /\ tm_entries' \subseteq tm_entries
        /\ (job.pc \in {"clean", "sweep", "swept", "set"} => \E j \in CacheNames : job.keys = {j})
    BY <1>8, <2>2, <2>4
  <2>6. job.pc = "set" => Cardinality(tm_entries) < CacheSize
    <3>1. ~C!is_full => ~(Cardinality(tm_entries) >= CacheSize)
      BY <1>4 DEF C!is_full
    <3>2. Cardinality(tm_entries) \in Nat /\ CacheSize \in Nat
      BY <1>1, CountParts, CacheNumbers
    <3>3. QED
      BY <2>2, <3>1, <3>2
  <2>7. QED
    BY <2>2, <2>3, <2>4, <2>5, <2>6, MapsMoves
<1>13. ASSUME NEW w \in Workers, C!set_entry(w) \/ C!remove_entry(w)
       PROVE  MapsInv'
  <2>1. PICK ks \in SUBSET CacheNames : ks = tm_job[w].keys
    BY <1>8
  <2>2. PICK pc \in {"deadline", "forget"} : pc = IF C!set_entry(w) THEN "deadline" ELSE "forget"
    OBVIOUS
  <2>3. PICK job : job = [pc |-> pc, keys |-> ks, todo |-> tm_job[w].todo, swept |-> tm_job[w].swept]
    OBVIOUS
  <2>4. job \in Jobs /\ job.pc = pc /\ job.keys = ks
    BY <1>1, <1>8, <2>3 DEF Jobs
  <2>6. tm_job' = [tm_job EXCEPT ![w] = job]
    BY <1>13, <2>1, <2>2, <2>3 DEF C!set_entry, C!remove_entry, C!goes, C!carries
  <2>7. C!meets(w, ks) /\ UNCHANGED <<tm_live, tm_dead>>
        /\ \/ pc = "deadline" /\ tm_job[w].pc = "set" /\ tm_entries' = tm_entries \cup ks
           \/ pc = "forget" /\ tm_job[w].pc = "remove" /\ tm_entries' = tm_entries \ ks
    BY <1>13, <2>1, <2>2 DEF C!set_entry, C!remove_entry
  <2>8. QED
    BY <2>1, <2>4, <2>6, <2>7, MapsMoves
<1>14. ASSUME NEW w \in Workers, C!set_deadline(w) \/ C!remove_deadline(w)
       PROVE  MapsInv'
  <2>1. PICK ks \in SUBSET CacheNames : ks = tm_job[w].keys
    BY <1>8
  <2>2. C!no_job \in Jobs /\ C!no_job.pc = "idle" /\ tm_job' = [tm_job EXCEPT ![w] = C!no_job]
    BY <1>8, <1>14 DEF C!set_deadline, C!remove_deadline, C!ends
  <2>3. C!meets(w, ks) /\ UNCHANGED tm_entries
        /\ \/ tm_job[w].pc = "deadline" /\ tm_live' = tm_live \cup ks /\ tm_dead' = tm_dead \ ks
           \/ tm_job[w].pc = "forget" /\ tm_live' = tm_live \ ks /\ tm_dead' = tm_dead \ ks
    BY <1>14, <2>1 DEF C!set_deadline, C!remove_deadline
  <2>4. QED
    BY <2>1, <2>2, <2>3, MapsMoves
<1>15. CASE UNCHANGED two_map_cacheVars
  BY <1>2, <1>15 DEF two_map_cacheVars
<1>16. QED
  BY <1>3, <1>6, <1>7, <1>9, <1>10, <1>11, <1>12, <1>13, <1>14, <1>15 DEF C!mapsNext

(* No more entries than the cache holds and one for every other thread. *)
LEMMA MapsMean == MapsInv => C!mapsTypeOK /\ C!SizeBounded /\ C!MapsAgree
<1> SUFFICES ASSUME MapsInv
             PROVE  C!SizeBounded
  BY DEF MapsInv
<1>1. C!Cardinality(tm_entries) = Cardinality(tm_entries) /\ C!Cardinality(Workers) = Cardinality(Workers)
  BY CountParts
<1>2. Cardinality(tm_entries) \in Nat /\ Cardinality(Setters) \in Nat /\ Cardinality(Workers) \in Nat /\ CacheSize \in Nat
  <2>1. tm_entries \in SUBSET CacheNames /\ Setters \in SUBSET Workers /\ Workers \in SUBSET Workers
    BY DEF MapsInv, C!mapsTypeOK, Setters
  <2>2. QED
    BY <2>1, CountParts, CacheNumbers
<1>3. QED
  BY <1>1, <1>2 DEF MapsInv, C!SizeBounded

(***************************************************************************)
(* The cache in Redis and the pool of its connections.                     *)
(***************************************************************************)
RedisInv == C!redisTypeOK /\ C!KeysExpire /\ C!PoolBounded

LEMMA RedisInit == C!redisInit => RedisInv
<1> SUFFICES ASSUME C!redisInit
             PROVE  RedisInv
  OBVIOUS
<1>1. rd_pc \in [Clients -> {"idle", "set", "expire", "del"}]
  BY DEF C!redisInit
<1>2. rd_pool <= PoolSize /\ rd_pool = 0 /\ rd_out = 0 /\ rd_listeners = 0
  BY CacheNumbers DEF C!redisInit
<1>3. rd_entry = "none" /\ rd_ttl \in BOOLEAN /\ rd_unset \in BOOLEAN
  BY DEF C!redisInit
<1>4. QED
  BY <1>1, <1>2, <1>3 DEF RedisInv, C!redisTypeOK, C!KeysExpire, C!PoolBounded

LEMMA RedisStep == RedisInv /\ [C!redisNext]_redis_cacheVars => RedisInv'
<1> SUFFICES ASSUME RedisInv, [C!redisNext]_redis_cacheVars
             PROVE  RedisInv'
  OBVIOUS
<1> USE CacheNumbers DEF RedisInv, C!redisTypeOK, C!KeysExpire, C!PoolBounded, C!client_goes, C!becomes, C!key, C!pool
<1>1. CASE UNCHANGED redis_cacheVars
  BY <1>1 DEF redis_cacheVars
<1>2. ASSUME NEW c \in Clients, C!redis_store(c)
      PROVE  RedisInv'
  BY <1>2 DEF C!redis_store
<1>3. ASSUME NEW c \in Clients, NEW e \in {"fresh", "old"}, C!store_set(c, e)
      PROVE  RedisInv'
  BY <1>3 DEF C!store_set
<1>4. ASSUME NEW c \in Clients, NEW ok \in BOOLEAN, C!store_expire(c, ok)
      PROVE  RedisInv'
  BY <1>4 DEF C!store_expire
<1>5. ASSUME NEW c \in Clients, C!redis_get(c)
      PROVE  RedisInv'
  BY <1>5 DEF C!redis_get
<1>6. ASSUME NEW c \in Clients, C!get_del(c)
      PROVE  RedisInv'
  BY <1>6 DEF C!get_del
<1>7. ASSUME NEW c \in Clients, C!fails(c)
      PROVE  RedisInv'
  BY <1>7 DEF C!fails
<1>8. ASSUME NEW c \in Clients, C!redis_remove(c) \/ C!invalidate(c)
      PROVE  RedisInv'
  <2>1. rd_listeners' \in Nat
    BY <1>8 DEF C!redis_remove, C!invalidate
  <2>2. QED
    BY <1>8, <2>1 DEF C!redis_remove, C!invalidate, C!removed
<1>9. CASE C!listener_fails
  BY <1>9 DEF C!listener_fails
<1>10. CASE C!get_conn
  BY <1>10 DEF C!get_conn
<1>11. CASE C!return_conn
  BY <1>11 DEF C!return_conn
<1>12. CASE C!drop_conn
  BY <1>12 DEF C!drop_conn
<1>13. CASE C!entry_ages
  BY <1>13 DEF C!entry_ages
<1>14. CASE C!server_drops
  BY <1>14 DEF C!server_drops
<1>15. QED
  BY <1>1, <1>2, <1>3, <1>4, <1>5, <1>6, <1>7, <1>8, <1>9, <1>10, <1>11, <1>12, <1>13, <1>14 DEF C!redisNext
(***************************************************************************)
(* The Redis service: the pool of connections, the lock and the counter.   *)
(***************************************************************************)
ServiceSteps == {"idle", "asking", "chosen", "has", "returning", "counting"}
ServiceCalls == {"none", "lock", "unlock", "incr"}

\* A caller has a connection exactly from when the pool gave it one to when it
\* gave it back, and no connection has a number that was not given out.
ConnsInv ==
  /\ rd_idle \in Seq(1 .. MaxOpened) /\ Len(rd_idle) <= PoolSize /\ rd_opened \in 0 .. MaxOpened
  /\ rd_inside \in Owners \cup {Nobody} /\ rd_step \in [Owners -> ServiceSteps] /\ rd_conn \in [Owners -> 0 .. MaxOpened]
  /\ \A o \in Owners : rd_conn[o] # 0 <=> rd_step[o] \in {"has", "returning"}
  /\ \A o \in Owners : rd_conn[o] <= rd_opened
  /\ \A i \in 1 .. Len(rd_idle) : rd_idle[i] <= rd_opened
  /\ \A i, j \in 1 .. Len(rd_idle) : rd_idle[i] = rd_idle[j] => i = j
  /\ \A o \in Owners : rd_conn[o] # 0 => \A i \in 1 .. Len(rd_idle) : rd_idle[i] # rd_conn[o]
  /\ \A o, p \in Owners : rd_conn[o] # 0 /\ rd_conn[o] = rd_conn[p] => o = p

\* While the time a caller was given runs, the key holds its token, until then.
LeaseInv ==
  /\ rd_key \in Owners \cup {Nobody} /\ rd_now \in 0 .. LockTime
  /\ rd_until \in 0 .. LockTime + LockTtl /\ rd_lease \in [Owners -> 0 .. LockTime + LockTtl]
  /\ \A o \in Owners : rd_lease[o] > rd_now => rd_key = o /\ rd_lease[o] = rd_until

Counting == {o \in Owners : rd_call[o] = "incr"}

\* Every call that counts is one of the calls made, and one that counts alone
\* has read the counter as it is.
CountInv ==
  /\ rd_step \in [Owners -> ServiceSteps] /\ rd_call \in [Owners -> ServiceCalls] /\ rd_overlap \in BOOLEAN
  /\ rd_counter \in Nat /\ rd_added \in Nat /\ rd_read \in [Owners -> Nat] /\ rd_calls \in 0 .. MaxCalls
  /\ \A o \in Owners : rd_call[o] = "incr" <=> rd_step[o] = "counting"
  /\ rd_added + Cardinality(Counting) <= rd_calls
  /\ rd_counter <= rd_added /\ \A o \in Owners : rd_read[o] <= rd_added
  /\ ~rd_overlap => /\ rd_counter = rd_added
                    /\ \A o \in Counting : rd_read[o] = rd_counter /\ \A p \in Counting : p = o

LEMMA SequenceParts ==
  ASSUME NEW S, NEW s \in Seq(S)
  PROVE  /\ Len(s) \in Nat /\ \A i \in 1 .. Len(s) : s[i] \in S
         /\ \A x \in S : /\ Append(s, x) \in Seq(S) /\ Len(Append(s, x)) = Len(s) + 1
                         /\ \A i \in 1 .. Len(s) : Append(s, x)[i] = s[i]
                         /\ Append(s, x)[Len(s) + 1] = x
         /\ s # <<>> => /\ Len(s) >= 1 /\ Q!Last(s) \in S /\ Q!Last(s) = s[Len(s)]
                        /\ Q!Front(s) \in Seq(S) /\ Len(Q!Front(s)) = Len(s) - 1
                        /\ \A i \in 1 .. Len(s) - 1 : Q!Front(s)[i] = s[i]
<1>1. Len(s) \in Nat /\ \A i \in 1 .. Len(s) : s[i] \in S
  BY LenProperties, ElementOfSeq
<1>2. ASSUME NEW x \in S
      PROVE  /\ Append(s, x) \in Seq(S) /\ Len(Append(s, x)) = Len(s) + 1
             /\ \A i \in 1 .. Len(s) : Append(s, x)[i] = s[i]
             /\ Append(s, x)[Len(s) + 1] = x
  BY <1>1, AppendProperties
<1>3. ASSUME s # <<>>
      PROVE  /\ Len(s) >= 1 /\ Q!Last(s) \in S /\ Q!Last(s) = s[Len(s)]
             /\ Q!Front(s) \in Seq(S) /\ Len(Q!Front(s)) = Len(s) - 1
             /\ \A i \in 1 .. Len(s) - 1 : Q!Front(s)[i] = s[i]
  <2>1. Len(s) # 0
    BY <1>3, EmptySeq
  <2>2. Len(s) \in 1 .. Len(s) /\ Len(s) - 1 \in Nat
    BY <1>1, <2>1
  <2>3. Q!Last(s) = s[Len(s)] /\ Q!Last(s) \in S
    BY <1>1, <2>2 DEF Q!Last
  <2>4. Q!Front(s) = SubSeq(s, 1, Len(s) - 1)
    BY DEF Q!Front
  <2>5. /\ SubSeq(s, 1, Len(s) - 1) \in Seq(S) /\ Len(SubSeq(s, 1, Len(s) - 1)) = Len(s) - 1
        /\ \A i \in 1 .. Len(s) - 1 : SubSeq(s, 1, Len(s) - 1)[i] = s[i]
    <3>1. PICK n \in Int : n = Len(s) - 1
      BY <2>2
    <3>2. n \in Nat /\ \A i \in 1 .. n : s[i] \in S
      BY <1>1, <2>2, <3>1
    <3>3. /\ SubSeq(s, 1, n) \in Seq(S) /\ Len(SubSeq(s, 1, n)) = (IF 1 <= n THEN n - 1 + 1 ELSE 0)
          /\ \A i \in 1 .. n - 1 + 1 : SubSeq(s, 1, n)[i] = s[1 + i - 1]
      BY <3>2, SubSeqProperties
    <3>4. QED
      BY <3>1, <3>2, <3>3
  <2>6. QED
    BY <2>2, <2>3, <2>4, <2>5
<1>4. QED
  BY <1>1, <1>2, <1>3

LEMMA ConnsInit == Q!serviceInit => ConnsInv
<1> SUFFICES ASSUME Q!serviceInit
             PROVE  ConnsInv
  OBVIOUS
<1>1. rd_idle \in Seq(1 .. MaxOpened) /\ Len(rd_idle) = 0
  BY EmptySeq DEF Q!serviceInit
<1>2. \A n \in {0} : n \in 0 .. MaxOpened /\ n <= PoolSize
  BY ServiceNumbers, CacheNumbers
<1>3. QED
  BY <1>1, <1>2 DEF Q!serviceInit, ConnsInv, ServiceSteps

\* Nobody's connection changes, and none goes to another caller or into the pool.
LEMMA ConnsStay ==
  ASSUME ConnsInv, UNCHANGED <<rd_idle, rd_opened, rd_conn>>, rd_inside' \in Owners \cup {Nobody},
         rd_step' \in [Owners -> ServiceSteps],
         \A o \in Owners : rd_step[o] \in {"has", "returning"} <=> rd_step'[o] \in {"has", "returning"}
  PROVE  ConnsInv'
BY DEF ConnsInv

LEMMA ConnsStep == ConnsInv /\ [Q!serviceNext]_redis_serviceVars => ConnsInv'
<1> SUFFICES ASSUME ConnsInv, [Q!serviceNext]_redis_serviceVars
             PROVE  ConnsInv'
  OBVIOUS
<1>1. /\ rd_idle \in Seq(1 .. MaxOpened) /\ Len(rd_idle) <= PoolSize /\ rd_opened \in 0 .. MaxOpened
      /\ rd_inside \in Owners \cup {Nobody} /\ rd_step \in [Owners -> ServiceSteps] /\ rd_conn \in [Owners -> 0 .. MaxOpened]
  BY DEF ConnsInv
<1>2. MaxOpened \in Nat /\ PoolSize \in Nat /\ Nobody \notin Owners
  BY ServiceNumbers, CacheNumbers
<1>3. Len(rd_idle) \in Nat /\ \A i \in 1 .. Len(rd_idle) : rd_idle[i] \in 1 .. MaxOpened
  BY <1>1, SequenceParts
<1>4. CASE UNCHANGED redis_serviceVars
  BY <1>1, <1>4, ConnsStay DEF redis_serviceVars
<1>5. CASE Q!second_passes \/ Q!create_subscriber
  BY <1>1, <1>5, ConnsStay DEF Q!second_passes, Q!create_subscriber, Q!pool, Q!serviceVars
<1>6. ASSUME NEW o \in Owners, NEW call \in {"lock", "unlock", "incr"}, Q!begin(o, call)
      PROVE  ConnsInv'
  BY <1>1, <1>6, ConnsStay DEF Q!begin, Q!pool, ServiceSteps
<1>7. ASSUME NEW o \in Owners, Q!enter(o)
      PROVE  ConnsInv'
  BY <1>1, <1>7, ConnsStay DEF Q!enter
<1>8. ASSUME NEW o \in Owners, Q!connect_fails(o) \/ Q!incr(o) \/ Q!create_lock(o) \/ Q!lock_taken(o) \/ Q!release_lock(o)
      PROVE  ConnsInv'
  BY <1>1, <1>8, ConnsStay
     DEF Q!connect_fails, Q!incr, Q!create_lock, Q!lock_taken, Q!release_lock, Q!replied, Q!goes, Q!pool, ServiceSteps
<1>9. ASSUME NEW o \in Owners, Q!ping_ok(o)
      PROVE  ConnsInv'
  <2>1. /\ Len(rd_idle) >= 1 /\ rd_conn'[o] = rd_idle[Len(rd_idle)]
        /\ rd_idle' \in Seq(1 .. MaxOpened) /\ Len(rd_idle') = Len(rd_idle) - 1
        /\ \A i \in 1 .. Len(rd_idle) - 1 : rd_idle'[i] = rd_idle[i]
    BY <1>1, <1>9, SequenceParts DEF Q!ping_ok
  <2>2. /\ rd_conn' \in [Owners -> 0 .. MaxOpened] /\ rd_conn'[o] \in 1 .. rd_opened
        /\ \A p \in Owners \ {o} : rd_conn'[p] = rd_conn[p] /\ rd_step'[p] = rd_step[p]
        /\ rd_step' \in [Owners -> ServiceSteps] /\ rd_step'[o] = "has" /\ rd_step[o] = "asking"
    <3>1. Len(rd_idle) \in 1 .. Len(rd_idle)
      BY <1>3, <2>1
    <3>2. rd_idle[Len(rd_idle)] \in 1 .. MaxOpened /\ rd_idle[Len(rd_idle)] <= rd_opened
      BY <1>3, <3>1 DEF ConnsInv
    <3>3. rd_conn' = [rd_conn EXCEPT ![o] = rd_idle[Len(rd_idle)]]
      BY <1>9 DEF Q!ping_ok, Q!Last
    <3>4. QED
      BY <1>1, <1>9, <3>2, <3>3 DEF Q!ping_ok, Q!goes, ServiceSteps
  <2>3. rd_opened' = rd_opened /\ rd_inside' = Nobody
    BY <1>9 DEF Q!ping_ok
  <2>4. \A p \in Owners : rd_conn'[p] # 0 <=> rd_step'[p] \in {"has", "returning"}
    BY <1>1, <2>2 DEF ConnsInv
  <2>5. \A p \in Owners : rd_conn'[p] <= rd_opened'
    BY <1>1, <2>2, <2>3 DEF ConnsInv
  <2>6. \A i \in 1 .. Len(rd_idle') : i \in 1 .. Len(rd_idle) - 1 /\ i \in 1 .. Len(rd_idle) /\ i # Len(rd_idle)
    BY <1>3, <2>1
  <2>7. \A i \in 1 .. Len(rd_idle') : rd_idle'[i] = rd_idle[i]
    BY <2>1, <2>6
  <2>8. \A i \in 1 .. Len(rd_idle') : rd_idle'[i] <= rd_opened'
    BY <2>3, <2>6, <2>7 DEF ConnsInv
  <2>9. \A i, j \in 1 .. Len(rd_idle') : rd_idle'[i] = rd_idle'[j] => i = j
    BY <2>6, <2>7 DEF ConnsInv
  <2>10. Len(rd_idle) \in 1 .. Len(rd_idle)
    BY <1>3, <2>1
  <2>11. \A i \in 1 .. Len(rd_idle') : rd_idle'[i] # rd_conn'[o]
    BY <2>1, <2>6, <2>7, <2>10 DEF ConnsInv
  <2>12. \A p \in Owners \ {o} : rd_conn'[p] # 0 => rd_conn'[p] # rd_conn'[o]
    BY <2>1, <2>2, <2>10 DEF ConnsInv
  <2>13. \A p \in Owners \ {o} : rd_conn'[p] # 0 => \A i \in 1 .. Len(rd_idle') : rd_idle'[i] # rd_conn'[p]
    BY <2>2, <2>6, <2>7 DEF ConnsInv
  <2>14. \A p, q \in Owners : rd_conn'[p] # 0 /\ rd_conn'[p] = rd_conn'[q] => p = q
    <3> SUFFICES ASSUME NEW p \in Owners, NEW q \in Owners, rd_conn'[p] # 0, rd_conn'[p] = rd_conn'[q]
                 PROVE  p = q
      OBVIOUS
    <3>1. CASE p = o \/ q = o
      BY <2>12, <3>1
    <3>2. CASE p # o /\ q # o
      BY <2>2, <3>2 DEF ConnsInv
    <3>3. QED
      BY <3>1, <3>2
  <2>15. Len(rd_idle') <= PoolSize
    BY <1>1, <1>2, <1>3, <2>1
  <2>16. \A p \in Owners : rd_conn'[p] # 0 => \A i \in 1 .. Len(rd_idle') : rd_idle'[i] # rd_conn'[p]
    BY <2>11, <2>13
  <2>17. QED
    BY <1>1, <2>1, <2>2, <2>3, <2>4, <2>5, <2>8, <2>9, <2>14, <2>15, <2>16 DEF ConnsInv
<1>10. ASSUME NEW o \in Owners, Q!ping_fails(o)
       PROVE  ConnsInv'
  <2>1. /\ rd_idle' \in Seq(1 .. MaxOpened) /\ Len(rd_idle') <= Len(rd_idle) /\ Len(rd_idle') \in Nat
        /\ \A i \in 1 .. Len(rd_idle') : i \in 1 .. Len(rd_idle) /\ rd_idle'[i] = rd_idle[i]
    <3>1. CASE rd_idle = <<>>
      BY <1>1, <1>3, <1>10, <3>1 DEF Q!ping_fails
    <3>2. CASE rd_idle # <<>>
      <4>1. /\ Len(rd_idle) >= 1 /\ rd_idle' \in Seq(1 .. MaxOpened) /\ Len(rd_idle') = Len(rd_idle) - 1
            /\ \A i \in 1 .. Len(rd_idle) - 1 : rd_idle'[i] = rd_idle[i]
        BY <1>1, <1>10, <3>2, SequenceParts DEF Q!ping_fails
      <4>2. QED
        BY <1>3, <4>1
    <3>3. QED
      BY <3>1, <3>2
  <2>2. UNCHANGED <<rd_opened, rd_conn, rd_inside>> /\ rd_step' = [rd_step EXCEPT ![o] = "chosen"] /\ rd_step[o] = "asking"
    BY <1>10 DEF Q!ping_fails, Q!goes
  <2>3. rd_step' \in [Owners -> ServiceSteps] /\ \A p \in Owners : rd_conn'[p] # 0 <=> rd_step'[p] \in {"has", "returning"}
    BY <1>1, <2>2 DEF ConnsInv, ServiceSteps
  <2>4. Len(rd_idle') <= PoolSize
    BY <1>1, <1>2, <1>3, <2>1
  <2>5. /\ \A i \in 1 .. Len(rd_idle') : rd_idle'[i] <= rd_opened'
        /\ \A i, j \in 1 .. Len(rd_idle') : rd_idle'[i] = rd_idle'[j] => i = j
        /\ \A p \in Owners : rd_conn'[p] # 0 => \A i \in 1 .. Len(rd_idle') : rd_idle'[i] # rd_conn'[p]
    BY <2>1, <2>2 DEF ConnsInv
  <2>6. QED
    BY <2>1, <2>2, <2>3, <2>4, <2>5 DEF ConnsInv
<1>11. ASSUME NEW o \in Owners, Q!connect(o)
       PROVE  ConnsInv'
  <2>1. /\ rd_opened' = rd_opened + 1 /\ rd_opened' \in 1 .. MaxOpened /\ rd_inside' = Nobody /\ rd_idle' = rd_idle
        /\ rd_conn' \in [Owners -> 0 .. MaxOpened] /\ rd_conn'[o] = rd_opened + 1
        /\ \A p \in Owners \ {o} : rd_conn'[p] = rd_conn[p] /\ rd_step'[p] = rd_step[p]
        /\ rd_step' \in [Owners -> ServiceSteps] /\ rd_step'[o] = "has"
    BY <1>1, <1>2, <1>11 DEF Q!connect, Q!goes, ServiceSteps
  <2>2. /\ \A p \in Owners : rd_conn[p] < rd_opened'
        /\ \A i \in 1 .. Len(rd_idle) : rd_idle[i] < rd_opened'
    BY <1>1, <1>3, <2>1 DEF ConnsInv
  <2>3. \A p \in Owners : rd_conn'[p] # 0 <=> rd_step'[p] \in {"has", "returning"}
    BY <1>1, <2>1 DEF ConnsInv
  <2>4. \A p \in Owners : rd_conn'[p] <= rd_opened'
    BY <1>1, <2>1, <2>2
  <2>5. \A i \in 1 .. Len(rd_idle') : rd_idle'[i] <= rd_opened'
    BY <1>1, <1>3, <2>1, <2>2
  <2>6. \A i, j \in 1 .. Len(rd_idle') : rd_idle'[i] = rd_idle'[j] => i = j
    BY <2>1 DEF ConnsInv
  <2>7. \A p \in Owners : rd_conn'[p] # 0 => \A i \in 1 .. Len(rd_idle') : rd_idle'[i] # rd_conn'[p]
    BY <1>1, <1>3, <2>1, <2>2 DEF ConnsInv
  <2>8. \A p \in Owners \ {o} : rd_conn'[p] # rd_conn'[o]
    BY <1>1, <2>1, <2>2
  <2>9. \A p, q \in Owners : rd_conn'[p] # 0 /\ rd_conn'[p] = rd_conn'[q] => p = q
    BY <2>1, <2>8 DEF ConnsInv
  <2>10. QED
    BY <1>1, <2>1, <2>3, <2>4, <2>5, <2>6, <2>7, <2>9 DEF ConnsInv
<1>12. ASSUME NEW o \in Owners, Q!return_conn(o)
       PROVE  ConnsInv'
  <2>1. PICK n : n = rd_conn[o]
    OBVIOUS
  <2>2. n \in 1 .. MaxOpened /\ n <= rd_opened /\ rd_step[o] = "returning"
    BY <1>1, <1>12, <2>1 DEF ConnsInv, Q!return_conn, Q!goes
  <2>3. /\ rd_opened' = rd_opened /\ rd_inside' = Nobody
        /\ rd_conn' \in [Owners -> 0 .. MaxOpened] /\ rd_conn'[o] = 0
        /\ \A p \in Owners \ {o} : rd_conn'[p] = rd_conn[p] /\ rd_step'[p] = rd_step[p]
        /\ rd_step' \in [Owners -> ServiceSteps] /\ rd_step'[o] = "idle"
    BY <1>1, <1>2, <1>12 DEF Q!return_conn, Q!goes, ServiceSteps
  <2>4. /\ \A p \in Owners : rd_conn'[p] # 0 <=> rd_step'[p] \in {"has", "returning"}
        /\ \A p \in Owners : rd_conn'[p] <= rd_opened'
    BY <1>1, <2>3 DEF ConnsInv
  <2>5. \A p, q \in Owners : rd_conn'[p] # 0 /\ rd_conn'[p] = rd_conn'[q] => p = q
    BY <2>3 DEF ConnsInv
  <2>6. \A p \in Owners : rd_conn'[p] # 0 => p # o /\ rd_conn'[p] = rd_conn[p] /\ rd_conn[p] # n
    BY <1>1, <2>1, <2>2, <2>3 DEF ConnsInv
  <2>7. CASE Len(rd_idle) < PoolSize
    <3>1. /\ rd_idle' \in Seq(1 .. MaxOpened) /\ Len(rd_idle') = Len(rd_idle) + 1
          /\ \A i \in 1 .. Len(rd_idle) : rd_idle'[i] = rd_idle[i]
          /\ rd_idle'[Len(rd_idle) + 1] = n
      <4>1. rd_idle' = Append(rd_idle, n)
        BY <1>12, <2>1, <2>7 DEF Q!return_conn
      <4>2. QED
        BY <1>1, <2>2, <4>1, SequenceParts
    <3>2. \A i \in 1 .. Len(rd_idle') : i \in 1 .. Len(rd_idle) \/ i = Len(rd_idle) + 1
      BY <1>3, <3>1
    <3>3. \A i \in 1 .. Len(rd_idle) : rd_idle[i] # n /\ rd_idle[i] <= rd_opened
      BY <2>1, <2>2 DEF ConnsInv
    <3>4. Len(rd_idle') <= PoolSize
      BY <1>2, <1>3, <2>7, <3>1
    <3>5. \A i \in 1 .. Len(rd_idle') : rd_idle'[i] <= rd_opened'
      BY <2>2, <2>3, <3>1, <3>2, <3>3
    <3>6. \A i, j \in 1 .. Len(rd_idle') : rd_idle'[i] = rd_idle'[j] => i = j
      BY <3>1, <3>2, <3>3 DEF ConnsInv
    <3>7. \A p \in Owners : rd_conn'[p] # 0 => \A i \in 1 .. Len(rd_idle') : rd_idle'[i] # rd_conn'[p]
      BY <2>6, <3>1, <3>2 DEF ConnsInv
    <3>8. QED
      BY <1>1, <2>3, <2>4, <2>5, <3>1, <3>4, <3>5, <3>6, <3>7 DEF ConnsInv
  <2>8. CASE ~(Len(rd_idle) < PoolSize)
    <3>1. rd_idle' = rd_idle
      BY <1>12, <2>8 DEF Q!return_conn
    <3>2. \A p \in Owners : rd_conn'[p] # 0 => \A i \in 1 .. Len(rd_idle') : rd_idle'[i] # rd_conn'[p]
      BY <2>6, <3>1 DEF ConnsInv
    <3>3. QED
      BY <1>1, <2>3, <2>4, <2>5, <3>1, <3>2 DEF ConnsInv
  <2>9. QED
    BY <2>7, <2>8
<1>13. QED
  BY <1>4, <1>5, <1>6, <1>7, <1>8, <1>9, <1>10, <1>11, <1>12 DEF Q!serviceNext, Q!get_conn, Q!operation

LEMMA LeaseInit == Q!serviceInit => LeaseInv
BY ServiceNumbers DEF Q!serviceInit, LeaseInv

LEMMA LeaseStep == LeaseInv /\ [Q!serviceNext]_redis_serviceVars => LeaseInv'
<1> SUFFICES ASSUME LeaseInv, [Q!serviceNext]_redis_serviceVars
             PROVE  LeaseInv'
  OBVIOUS
<1> USE ServiceNumbers DEF LeaseInv
<1>1. CASE UNCHANGED <<rd_key, rd_until, rd_lease, rd_now>>
  BY <1>1
<1>2. CASE Q!second_passes
  BY <1>2 DEF Q!second_passes, Q!expired
<1>3. ASSUME NEW o \in Owners, Q!create_lock(o)
      PROVE  LeaseInv'
  <2>1. \A p \in Owners : ~(rd_lease[p] > rd_now)
    BY <1>3 DEF Q!create_lock
  <2>2. rd_now' = rd_now /\ rd_key' = o /\ rd_until' = rd_now + LockTtl /\ rd_lease' = [rd_lease EXCEPT ![o] = rd_now + LockTtl]
    BY <1>3 DEF Q!create_lock, Q!replied
  <2>3. QED
    BY <2>1, <2>2
<1>4. ASSUME NEW o \in Owners, Q!release_lock(o)
      PROVE  LeaseInv'
  BY <1>4 DEF Q!release_lock, Q!replied
<1>5. ASSUME NEW o \in Owners, Q!lock_taken(o)
      PROVE  LeaseInv'
  BY <1>1, <1>5 DEF Q!lock_taken, Q!replied
<1>6. ASSUME NEW o \in Owners, Q!enter(o) \/ Q!get_conn(o) \/ Q!return_conn(o) \/ Q!incr(o)
      PROVE  LeaseInv'
  BY <1>1, <1>6 DEF Q!enter, Q!get_conn, Q!ping_ok, Q!ping_fails, Q!connect, Q!connect_fails, Q!return_conn, Q!incr, Q!locks
<1>7. ASSUME NEW o \in Owners, NEW call \in {"lock", "unlock", "incr"}, Q!begin(o, call)
      PROVE  LeaseInv'
  BY <1>1, <1>7 DEF Q!begin, Q!locks
<1>8. CASE UNCHANGED redis_serviceVars \/ Q!create_subscriber
  BY <1>1, <1>8 DEF redis_serviceVars, Q!create_subscriber, Q!serviceVars
<1>9. QED
  BY <1>2, <1>3, <1>4, <1>5, <1>6, <1>7, <1>8 DEF Q!serviceNext, Q!operation

LEMMA CountInit == Q!serviceInit => CountInv
<1> SUFFICES ASSUME Q!serviceInit
             PROVE  CountInv
  OBVIOUS
<1>1. Counting = {}
  BY DEF Q!serviceInit, Counting
<1>2. Cardinality(Counting) = 0
  BY <1>1, FS_EmptySet
<1>3. 0 \in 0 .. MaxCalls
  BY EndpointNumbers
<1>4. rd_overlap \in BOOLEAN
  BY DEF Q!serviceInit
<1>5. QED
  BY <1>1, <1>2, <1>3, <1>4 DEF Q!serviceInit, CountInv, ServiceSteps, ServiceCalls

LEMMA CountStep == CountInv /\ [Q!serviceNext]_redis_serviceVars => CountInv'
<1> SUFFICES ASSUME CountInv, [Q!serviceNext]_redis_serviceVars
             PROVE  CountInv'
  OBVIOUS
<1>1. /\ rd_step \in [Owners -> ServiceSteps] /\ rd_call \in [Owners -> ServiceCalls]
      /\ rd_counter \in Nat /\ rd_added \in Nat /\ rd_read \in [Owners -> Nat] /\ rd_calls \in Nat /\ rd_calls <= MaxCalls
      /\ MaxCalls \in Nat
  BY EndpointNumbers DEF CountInv
<1>2. rd_overlap \in BOOLEAN
  BY DEF CountInv
<1>3. IsFiniteSet(Counting) /\ Cardinality(Counting) \in Nat
  BY ServiceNumbers, FS_Subset, FS_CardinalityType DEF Counting
<1>4. CASE /\ UNCHANGED <<rd_counter, rd_added, rd_read, rd_overlap>> /\ rd_calls' \in 0 .. MaxCalls /\ rd_calls <= rd_calls'
           /\ rd_step' \in [Owners -> ServiceSteps] /\ rd_call' \in [Owners -> ServiceCalls]
           /\ \A o \in Owners : /\ rd_call'[o] = "incr" <=> rd_call[o] = "incr"
                                /\ rd_step'[o] = "counting" <=> rd_step[o] = "counting"
  <2>1. Counting' = Counting
    BY <1>4 DEF Counting
  <2>2. rd_added' + Cardinality(Counting') <= rd_calls'
    BY <1>1, <1>3, <1>4, <2>1 DEF CountInv
  <2>3. rd_overlap' \in BOOLEAN
    BY <1>2, <1>4
  <2>4. QED
    BY <1>4, <2>1, <2>2, <2>3 DEF CountInv
<1>5. rd_calls \in 0 .. MaxCalls
  BY <1>1
<1>6. CASE UNCHANGED redis_serviceVars \/ Q!create_subscriber \/ Q!second_passes
  BY <1>1, <1>4, <1>5, <1>6
     DEF redis_serviceVars, Q!create_subscriber, Q!second_passes, Q!serviceVars, Q!counters
<1>7. ASSUME NEW o \in Owners, Q!enter(o) \/ Q!ping_ok(o) \/ Q!ping_fails(o) \/ Q!connect(o)
      PROVE  CountInv'
  BY <1>1, <1>4, <1>5, <1>7 DEF Q!enter, Q!ping_ok, Q!ping_fails, Q!connect, Q!goes, Q!counters, ServiceSteps
<1>8. ASSUME NEW o \in Owners, Q!connect_fails(o) \/ Q!return_conn(o)
      PROVE  CountInv'
  <2>1. rd_call[o] # "incr"
    BY <1>8 DEF CountInv, Q!connect_fails, Q!return_conn, Q!goes
  <2>2. PICK from \in {"chosen", "returning"} : rd_step[o] = from
    BY <1>8 DEF Q!connect_fails, Q!return_conn, Q!goes
  <2>3. rd_step' = [rd_step EXCEPT ![o] = "idle"] /\ rd_call' = [rd_call EXCEPT ![o] = "none"]
    BY <1>8 DEF Q!connect_fails, Q!return_conn, Q!goes
  <2>4. UNCHANGED <<rd_counter, rd_added, rd_read, rd_overlap, rd_calls>>
    BY <1>8 DEF Q!connect_fails, Q!return_conn, Q!counters
  <2>5. QED
    BY <1>1, <1>4, <1>5, <2>1, <2>2, <2>3, <2>4 DEF ServiceSteps, ServiceCalls
<1>9. ASSUME NEW o \in Owners, Q!create_lock(o) \/ Q!lock_taken(o) \/ Q!release_lock(o)
      PROVE  CountInv'
  BY <1>1, <1>4, <1>5, <1>9
     DEF Q!create_lock, Q!lock_taken, Q!release_lock, Q!replied, Q!goes, Q!counters, ServiceSteps
<1>10. ASSUME NEW o \in Owners, NEW call \in {"lock", "unlock"}, Q!begin(o, call)
       PROVE  CountInv'
  <2>1. rd_overlap' = rd_overlap
    BY <1>2, <1>10 DEF Q!begin
  <2>2. rd_calls' \in 0 .. MaxCalls /\ rd_calls <= rd_calls'
    BY <1>1, <1>10 DEF Q!begin
  <2>3. rd_call[o] = "none" /\ rd_call' = [rd_call EXCEPT ![o] = call]
    BY <1>10 DEF Q!begin
  <2>4. rd_step[o] = "idle" /\ rd_step' = [rd_step EXCEPT ![o] = "asking"] /\ UNCHANGED <<rd_counter, rd_added, rd_read>>
    BY <1>10 DEF Q!begin
  <2>5. QED
    BY <1>1, <1>4, <2>1, <2>2, <2>3, <2>4 DEF ServiceSteps, ServiceCalls
<1>11. ASSUME NEW o \in Owners, Q!begin(o, "incr")
       PROVE  CountInv'
  <2>1. /\ rd_calls' = rd_calls + 1 /\ rd_calls' \in 0 .. MaxCalls /\ rd_call[o] = "none" /\ rd_step[o] = "idle"
        /\ rd_call' = [rd_call EXCEPT ![o] = "incr"] /\ rd_step' = [rd_step EXCEPT ![o] = "counting"]
        /\ rd_read' = [rd_read EXCEPT ![o] = rd_counter] /\ UNCHANGED <<rd_counter, rd_added>>
    BY <1>1, <1>11 DEF Q!begin
  <2>2. rd_overlap' = (rd_overlap \/ \E p \in Owners : rd_call[p] = "incr")
    BY <1>11 DEF Q!begin
  <2>3. Counting' = Counting \cup {o} /\ o \notin Counting
    BY <1>1, <2>1 DEF Counting
  <2>4. rd_added' + Cardinality(Counting') <= rd_calls'
    <3>1. Cardinality(Counting') = Cardinality(Counting) + 1
      BY <1>3, <2>3, FS_AddElement
    <3>2. QED
      BY <1>1, <1>3, <2>1, <3>1 DEF CountInv
  <2>5. rd_overlap' \in BOOLEAN
    BY <2>2
  <2>6. ~rd_overlap' => /\ rd_counter' = rd_added'
                        /\ \A p \in Counting' : rd_read'[p] = rd_counter' /\ \A q \in Counting' : q = p
    <3>1. ~rd_overlap' => ~rd_overlap /\ Counting = {}
      BY <2>2 DEF Counting
    <3>2. QED
      BY <1>1, <2>1, <2>3, <3>1 DEF CountInv
  <2>7. /\ rd_step' \in [Owners -> ServiceSteps] /\ rd_call' \in [Owners -> ServiceCalls] /\ rd_read' \in [Owners -> Nat]
        /\ \A p \in Owners : rd_call'[p] = "incr" <=> rd_step'[p] = "counting"
        /\ \A p \in Owners : rd_read'[p] <= rd_added'
    BY <1>1, <2>1 DEF CountInv, ServiceSteps, ServiceCalls
  <2>8. QED
    BY <1>1, <2>1, <2>4, <2>5, <2>6, <2>7 DEF CountInv
<1>12. ASSUME NEW o \in Owners, Q!incr(o)
       PROVE  CountInv'
  <2>1. /\ rd_step[o] = "counting" /\ rd_step' = [rd_step EXCEPT ![o] = "idle"] /\ rd_counter' = rd_read[o] + 1
        /\ rd_added' = rd_added + 1 /\ rd_call' = [rd_call EXCEPT ![o] = "none"]
        /\ rd_read' = [rd_read EXCEPT ![o] = 0] /\ UNCHANGED <<rd_overlap, rd_calls>>
    BY <1>12 DEF Q!incr, Q!goes
  <2>2. o \in Counting /\ Counting' = Counting \ {o}
    BY <1>1, <2>1 DEF CountInv, Counting
  <2>3. rd_added' + Cardinality(Counting') <= rd_calls'
    <3>1. Cardinality(Counting') = Cardinality(Counting) - 1
      BY <1>3, <2>2, FS_RemoveElement
    <3>2. QED
      BY <1>1, <1>3, <2>1, <3>1 DEF CountInv
  <2>4. rd_overlap' \in BOOLEAN
    BY <1>2, <2>1
  <2>5. ~rd_overlap' => /\ rd_counter' = rd_added'
                        /\ \A p \in Counting' : rd_read'[p] = rd_counter' /\ \A q \in Counting' : q = p
    <3>1. ~rd_overlap' => ~rd_overlap
      BY <2>1
    <3>2. ~rd_overlap => Counting' = {} /\ rd_read[o] = rd_counter /\ rd_counter = rd_added
      BY <2>2 DEF CountInv
    <3>3. QED
      BY <2>1, <3>1, <3>2
  <2>6. /\ rd_step' \in [Owners -> ServiceSteps] /\ rd_call' \in [Owners -> ServiceCalls] /\ rd_read' \in [Owners -> Nat]
        /\ \A p \in Owners : rd_call'[p] = "incr" <=> rd_step'[p] = "counting"
        /\ \A p \in Owners : rd_read'[p] <= rd_added'
        /\ rd_counter' <= rd_added' /\ rd_counter' \in Nat /\ rd_added' \in Nat
    BY <1>1, <2>1 DEF CountInv, ServiceSteps, ServiceCalls
  <2>7. QED
    BY <1>5, <2>1, <2>3, <2>4, <2>5, <2>6 DEF CountInv
<1>13. QED
  BY <1>6, <1>7, <1>8, <1>9, <1>10, <1>11, <1>12 DEF Q!serviceNext, Q!get_conn, Q!operation

ServiceInv == ConnsInv /\ LeaseInv /\ CountInv

LEMMA ServiceInit == Q!serviceInit => ServiceInv
BY ConnsInit, LeaseInit, CountInit DEF ServiceInv

LEMMA ServiceStep == ServiceInv /\ [Q!serviceNext]_redis_serviceVars => ServiceInv'
BY ConnsStep, LeaseStep, CountStep DEF ServiceInv

(* What the invariant says of connections, of the lock and of the counter. *)
LEMMA ServiceMeans == ServiceInv => Q!serviceTypeOK /\ Q!ConnectionsApart /\ Q!LockExclusive /\ Q!CountsAlone
<1> SUFFICES ASSUME ServiceInv
             PROVE  Q!serviceTypeOK /\ Q!ConnectionsApart /\ Q!LockExclusive /\ Q!CountsAlone
  OBVIOUS
<1>1. Q!Steps = ServiceSteps
  BY DEF Q!Steps, ServiceSteps
<1>2. Cardinality(Counting) \in Nat
  BY ServiceNumbers, FS_Subset, FS_CardinalityType DEF Counting
<1>3. rd_counter \in 0 .. MaxCalls /\ rd_read \in [Owners -> 0 .. MaxCalls] /\ rd_added \in 0 .. MaxCalls
  <2>1. rd_added \in Nat /\ rd_counter \in Nat /\ rd_calls \in Nat /\ rd_calls <= MaxCalls /\ MaxCalls \in Nat
    BY EndpointNumbers DEF ServiceInv, CountInv
  <2>2. rd_added + Cardinality(Counting) <= rd_calls
    BY DEF ServiceInv, CountInv
  <2>3. rd_added <= MaxCalls
    BY <1>2, <2>1, <2>2
  <2>4. rd_counter <= rd_added /\ rd_read \in [Owners -> Nat] /\ \A o \in Owners : rd_read[o] <= rd_added
    BY DEF ServiceInv, CountInv
  <2>5. \A o \in Owners : rd_read[o] \in 0 .. MaxCalls
    BY <2>1, <2>3, <2>4
  <2>6. QED
    BY <2>1, <2>3, <2>4, <2>5
<1>4. rd_overlap \in BOOLEAN
  BY DEF ServiceInv, CountInv
<1>5. Q!serviceTypeOK
  BY <1>1, <1>3, <1>4 DEF Q!serviceTypeOK, ServiceInv, ConnsInv, LeaseInv, CountInv, ServiceCalls
<1>6. Q!ConnectionsApart
  <2>1. DOMAIN rd_idle = 1 .. Len(rd_idle)
    BY LenProperties DEF ServiceInv, ConnsInv
  <2>2. Q!IsInjective(rd_idle)
    BY <2>1 DEF Q!IsInjective, ServiceInv, ConnsInv
  <2>3. \A o \in Owners : rd_conn[o] # 0 => rd_conn[o] \notin Q!ToSet(rd_idle)
    BY <2>1 DEF Q!ToSet, ServiceInv, ConnsInv
  <2>4. \A o, p \in Owners : rd_conn[o] # 0 /\ rd_conn[o] = rd_conn[p] => o = p
    BY DEF ServiceInv, ConnsInv
  <2>5. QED
    BY <2>2, <2>3, <2>4 DEF Q!ConnectionsApart
<1>7. Q!LockExclusive
  BY DEF Q!LockExclusive, ServiceInv, LeaseInv
<1>8. Q!CountsAlone
  BY DEF Q!CountsAlone, ServiceInv, CountInv
<1>9. QED
  BY <1>5, <1>6, <1>7, <1>8

(***************************************************************************)
(* The queues of messages.                                                 *)
(***************************************************************************)
QueueTypes == Q!queueTypeOK /\ \A m \in Calls \cap Messages : mq_level[m] = 200

\* A consumer that is not idle has a message, which no other has and which waits
\* in no queue; it is in the second set exactly while it is held, and
\* acknowledged exactly while its reply is due.  What is acknowledged has no
\* body and is in neither set, and what was not sent yet is nowhere.
HandsInv ==
  /\ \A c \in Consumers : mq_step[c] = "idle" <=> mq_hand[c] = Nobody
  /\ \A c, d \in Consumers : mq_hand[c] # Nobody /\ mq_hand[c] = mq_hand[d] => c = d
  /\ \A c \in Consumers : mq_step[c] # "idle" =>
       /\ mq_score[mq_hand[c]] = Q!out /\ mq_sent[mq_hand[c]] \notin {"new", "stored"}
       /\ mq_hand[c] \in mq_processing <=> mq_step[c] = "holding"
       /\ mq_hand[c] \in mq_acked <=> mq_step[c] = "replying"
  /\ \A m \in mq_processing : mq_score[m] = Q!out /\ mq_sent[m] \notin {"new", "stored"}
  /\ \A m \in mq_acked : /\ mq_score[m] = Q!out /\ mq_body[m] = 0
                         /\ m \notin mq_processing /\ mq_sent[m] \notin {"new", "stored"}
  /\ \A m \in Messages : mq_score[m] # Q!out => mq_sent[m] \notin {"new", "stored"}

\* A body lasts for less than priorities are apart, so the score of a message
\* that can be read is within its priority.
ScoresInv ==
  /\ \A m \in Messages : mq_body[m] <= mq_now + 90
  /\ \A m \in Messages : mq_score[m] # Q!out => mq_score[m] + 100 >= mq_level[m] + mq_body[m]
  /\ \A m \in Messages : mq_score[m] # Q!out /\ mq_level[m] = 100 => mq_score[m] <= 100 + mq_now

QueueInv == QueueTypes /\ HandsInv /\ ScoresInv /\ Q!StillFound /\ \A m \in Messages : mq_sent[m] = "answered" => m \in mq_acked

LEMMA QueueInit == Q!queueInit => QueueInv
<1> SUFFICES ASSUME Q!queueInit
             PROVE  QueueInv
  OBVIOUS
<1>1. Nobody \notin Messages /\ 0 \in 0 .. QueueTime /\ 0 \in 0 .. MaxFaults /\ Q!out = -1
  BY QueueNumbers DEF Q!out
<1>2. Q!queueTypeOK
  BY <1>1 DEF Q!queueInit, Q!queueTypeOK
<1>3. HandsInv
  BY <1>1 DEF Q!queueInit, HandsInv
<1>4. ScoresInv
  BY <1>1 DEF Q!queueInit, ScoresInv
<1>5. Q!StillFound
  BY DEF Q!queueInit, Q!StillFound
<1>6. QED
  BY <1>2, <1>3, <1>4, <1>5 DEF Q!queueInit, QueueInv, QueueTypes

(* What a consumer that works has is a message. *)
LEMMA HandIsMessage ==
  ASSUME QueueTypes, HandsInv, NEW c \in Consumers, mq_step[c] # "idle"
  PROVE  mq_hand[c] \in Messages
BY DEF QueueTypes, HandsInv, Q!queueTypeOK

(* The steps of the clock and of the producers. *)
LEMMA ProducersStep ==
  ASSUME QueueInv, Q!tick \/ \E m \in Messages : Q!store_body(m) \/ Q!send(m) \/ Q!subscribe(m) \/ Q!times_out(m)
  PROVE  QueueInv'
<1>1. QueueTypes /\ HandsInv /\ ScoresInv /\ Q!StillFound /\ \A m \in Messages : mq_sent[m] = "answered" => m \in mq_acked
  BY DEF QueueInv
<1>2. /\ mq_now \in Nat /\ mq_level \in [Messages -> {100, 200}] /\ mq_body \in [Messages -> Nat]
      /\ mq_score \in [Messages -> Nat \cup {Q!out}] /\ Q!out = -1 /\ QueueTime \in Nat
      /\ mq_sent \in [Messages -> {"new", "stored", "sent", "waiting", "answered", "over"}]
  BY <1>1, QueueNumbers DEF QueueTypes, Q!queueTypeOK, Q!out
<1>3. CASE Q!tick
  <2>1. mq_now' = mq_now + 1 /\ mq_now' \in 0 .. QueueTime
        /\ UNCHANGED <<mq_sent, mq_level, mq_score, mq_processing, mq_body, mq_step, mq_hand, mq_acked, mq_rejected, mq_lost, mq_failures>>
    BY <1>2, <1>3 DEF Q!tick, Q!store, Q!consumers
  <2>2. QueueTypes'
    BY <1>1, <2>1 DEF QueueTypes, Q!queueTypeOK
  <2>3. HandsInv'
    BY <1>1, <2>1 DEF HandsInv
  <2>4. ScoresInv'
    BY <1>1, <1>2, <2>1 DEF ScoresInv
  <2>5. Q!StillFound'
    BY <1>1, <2>1 DEF Q!StillFound, Q!queued
  <2>6. QED
    BY <1>1, <2>1, <2>2, <2>3, <2>4, <2>5 DEF QueueInv
<1>4. ASSUME NEW m \in Messages, Q!store_body(m)
      PROVE  QueueInv'
  <2>1. PICK ttl \in 0 .. 90 : ttl = IF m \in Calls THEN CallTtl ELSE Ttl
    BY QueueNumbers
  <2>2. mq_sent[m] = "new" /\ mq_sent' = [mq_sent EXCEPT ![m] = "stored"] /\ mq_body' = [mq_body EXCEPT ![m] = mq_now + ttl]
        /\ UNCHANGED <<mq_now, mq_level, mq_score, mq_processing, mq_step, mq_hand, mq_acked, mq_rejected, mq_lost, mq_failures>>
    BY <1>4, <2>1 DEF Q!store_body, Q!consumers
  <2>3. mq_score[m] = Q!out /\ m \notin mq_processing /\ m \notin mq_acked
    BY <1>1, <2>2 DEF HandsInv
  <2>4. QueueTypes'
    BY <1>1, <1>2, <2>1, <2>2 DEF QueueTypes, Q!queueTypeOK
  <2>5. HandsInv'
    BY <1>1, <1>2, <2>2, <2>3, HandIsMessage DEF HandsInv
  <2>6. ScoresInv'
    BY <1>1, <1>2, <2>1, <2>2, <2>3 DEF ScoresInv
  <2>7. Q!StillFound'
    BY <1>1, <1>2, <2>2 DEF Q!StillFound, Q!queued
  <2>8. QED
    BY <1>1, <1>2, <2>2, <2>4, <2>5, <2>6, <2>7 DEF QueueInv
<1>5. ASSUME NEW m \in Messages, Q!send(m)
      PROVE  QueueInv'
  <2>1. PICK s : s = Q!score(m)
    OBVIOUS
  <2>2. s \in Nat /\ s >= mq_level[m] + mq_now /\ (mq_level[m] = 100 => s = 100 + mq_now)
    BY <1>1, <1>2, <2>1 DEF Q!score, QueueTypes
  <2>3. mq_sent[m] = "stored" /\ mq_sent' = [mq_sent EXCEPT ![m] = "sent"] /\ mq_score' = [mq_score EXCEPT ![m] = s]
        /\ UNCHANGED <<mq_now, mq_level, mq_processing, mq_body, mq_step, mq_hand, mq_acked, mq_rejected, mq_lost, mq_failures>>
    BY <1>5, <2>1 DEF Q!send, Q!consumers
  <2>4. m \notin mq_processing /\ m \notin mq_acked /\ \A c \in Consumers : mq_step[c] # "idle" => mq_hand[c] # m
    BY <1>1, <2>3 DEF HandsInv
  <2>5. QueueTypes'
    BY <1>1, <1>2, <2>2, <2>3 DEF QueueTypes, Q!queueTypeOK
  <2>6. HandsInv'
    BY <1>1, <1>2, <2>3, <2>4, HandIsMessage DEF HandsInv
  <2>7. ScoresInv'
    BY <1>1, <1>2, <2>2, <2>3 DEF ScoresInv
  <2>8. Q!StillFound'
    BY <1>1, <1>2, <2>2, <2>3 DEF Q!StillFound, Q!queued
  <2>9. QED
    BY <1>1, <1>2, <2>3, <2>5, <2>6, <2>7, <2>8 DEF QueueInv
<1>6. ASSUME NEW m \in Messages, Q!subscribe(m) \/ Q!times_out(m)
      PROVE  QueueInv'
  <2>1. PICK to \in {"waiting", "over"} : mq_sent' = [mq_sent EXCEPT ![m] = to]
    BY <1>6 DEF Q!subscribe, Q!times_out
  <2>2. mq_sent[m] \in {"sent", "waiting"}
        /\ UNCHANGED <<mq_now, mq_level, mq_score, mq_processing, mq_body, mq_step, mq_hand, mq_acked, mq_rejected, mq_lost, mq_failures>>
    BY <1>6 DEF Q!subscribe, Q!times_out, Q!store, Q!consumers
  <2>3. QueueTypes'
    BY <1>1, <1>2, <2>1, <2>2 DEF QueueTypes, Q!queueTypeOK
  <2>4. HandsInv'
    BY <1>1, <1>2, <2>1, <2>2, HandIsMessage DEF HandsInv
  <2>5. ScoresInv'
    BY <1>1, <2>2 DEF ScoresInv
  <2>6. Q!StillFound'
    BY <1>1, <1>2, <2>1, <2>2 DEF Q!StillFound, Q!queued
  <2>7. QED
    BY <1>1, <1>2, <2>1, <2>2, <2>3, <2>4, <2>5, <2>6 DEF QueueInv
<1>7. QED
  BY <1>3, <1>4, <1>5, <1>6

(* What a consumer is told of the queue: it has the message with the highest *)
(* score, and no message that can be read and has a higher priority waits.  *)
LEMMA ReceiveStep ==
  ASSUME QueueInv, NEW c \in Consumers, Q!receive(c)
  PROVE  QueueInv' /\ \A n \in Q!queued : Q!live(n) => mq_level[n] <= mq_level[mq_hand'[c]]
<1>1. QueueTypes /\ HandsInv /\ ScoresInv /\ Q!StillFound /\ \A m \in Messages : mq_sent[m] = "answered" => m \in mq_acked
  BY DEF QueueInv
<1>2. /\ mq_now \in Nat /\ mq_level \in [Messages -> {100, 200}] /\ mq_body \in [Messages -> Nat]
      /\ mq_score \in [Messages -> Nat \cup {Q!out}] /\ Q!out = -1
      /\ mq_step \in [Consumers -> {"idle", "popped", "read", "holding", "deleting", "replying", "requeueing"}]
      /\ mq_hand \in [Consumers -> Messages \cup {Nobody}] /\ Nobody \notin Messages
  BY <1>1, QueueNumbers DEF QueueTypes, Q!queueTypeOK, Q!out
<1>3. PICK m \in Messages :
        /\ mq_score[m] # Q!out /\ \A n \in Q!queued : mq_score[n] <= mq_score[m]
        /\ mq_step[c] = "idle" /\ mq_step' = [mq_step EXCEPT ![c] = "popped"] /\ mq_hand' = [mq_hand EXCEPT ![c] = m]
        /\ mq_score' = [mq_score EXCEPT ![m] = Q!out]
        /\ UNCHANGED <<mq_now, mq_sent, mq_level, mq_processing, mq_body, mq_acked, mq_rejected, mq_lost, mq_failures>>
  BY DEF Q!receive, Q!queued, Q!consumer_goes
<1>4. /\ m \notin mq_processing /\ m \notin mq_acked /\ mq_sent[m] \notin {"new", "stored"}
      /\ \A d \in Consumers : mq_hand[d] # m
  BY <1>1, <1>2, <1>3 DEF HandsInv
<1>5. QueueTypes'
  BY <1>1, <1>2, <1>3 DEF QueueTypes, Q!queueTypeOK
<1>6. HandsInv'
  BY <1>1, <1>2, <1>3, <1>4 DEF HandsInv
<1>7. ScoresInv'
  BY <1>1, <1>2, <1>3 DEF ScoresInv
<1>8. Q!StillFound'
  <2> SUFFICES ASSUME NEW n \in Messages, mq_sent'[n] \notin {"new", "stored"}
               PROVE  \/ n \in (Q!queued \cup mq_processing \cup mq_acked \cup mq_rejected \cup mq_lost)'
                      \/ \E d \in Consumers : mq_hand'[d] = n
    BY DEF Q!StillFound
  <2>1. CASE n = m
    BY <1>2, <1>3, <2>1
  <2>2. CASE n # m /\ \E d \in Consumers : mq_hand[d] = n
    BY <1>1, <1>2, <1>3, <2>2 DEF HandsInv
  <2>3. CASE n # m /\ n \in Q!queued \cup mq_processing \cup mq_acked \cup mq_rejected \cup mq_lost
    BY <1>2, <1>3, <2>3 DEF Q!queued
  <2>4. QED
    BY <1>1, <1>3, <2>1, <2>2, <2>3 DEF Q!StillFound
<1>9. ASSUME NEW n \in Q!queued, Q!live(n)
      PROVE  mq_level[n] <= mq_level[m]
  <2>1. n \in Messages /\ mq_score[n] # Q!out /\ mq_body[n] > mq_now
    BY <1>9 DEF Q!queued, Q!live
  <2>2. mq_score[n] + 100 >= mq_level[n] + mq_body[n] /\ (mq_level[m] = 100 => mq_score[m] <= 100 + mq_now)
    BY <1>1, <1>3, <2>1 DEF ScoresInv
  <2>3. mq_score[n] \in Nat /\ mq_score[m] \in Nat /\ mq_score[n] <= mq_score[m]
    BY <1>2, <1>3, <1>9, <2>1
  <2>4. mq_level[n] \in {100, 200} /\ mq_level[m] \in {100, 200} /\ mq_body[n] \in Nat
    BY <1>2, <2>1
  <2>5. QED
    BY <1>2, <2>1, <2>2, <2>3, <2>4
<1>10. mq_hand'[c] = m
  BY <1>2, <1>3
<1>11. QED
  BY <1>1, <1>3, <1>5, <1>6, <1>7, <1>8, <1>9, <1>10 DEF QueueInv

(* A consumer that works goes on with its message, or ends.  What it does to  *)
(* the sets only concerns that message.                                       *)
LEMMA ConsumerMoves ==
  ASSUME QueueInv, NEW c \in Consumers, mq_step[c] # "idle", NEW m \in Messages, m = mq_hand[c],
         NEW to \in {"idle", "read", "holding", "deleting", "replying", "requeueing"},
         mq_step' = [mq_step EXCEPT ![c] = to],
         mq_hand' = IF to = "idle" THEN [mq_hand EXCEPT ![c] = Nobody] ELSE mq_hand,
         UNCHANGED <<mq_now, mq_level>>, mq_failures' \in 0 .. MaxFaults,
         \/ mq_sent' = mq_sent
         \/ mq_step[c] = "replying" /\ mq_sent' = [mq_sent EXCEPT ![m] = IF mq_sent[m] = "waiting" THEN "answered" ELSE mq_sent[m]],
         \/ mq_score' = mq_score
         \/ mq_step[c] = "requeueing" /\ to = "idle" /\ mq_score' = [mq_score EXCEPT ![m] = mq_level[m] - 10 + mq_now],
         mq_processing' \in SUBSET Messages, \A n \in Messages \ {m} : n \in mq_processing' <=> n \in mq_processing,
         to # "idle" => (m \in mq_processing' <=> to = "holding"), m \in mq_processing' => mq_step[c] \in {"read", "holding"},
         \/ mq_body' = mq_body /\ mq_acked' = mq_acked /\ (to = "replying" <=> mq_step[c] = "replying" /\ to # "idle")
         \/ /\ mq_step[c] = "deleting" /\ to = "replying" /\ mq_body' = [mq_body EXCEPT ![m] = 0]
            /\ mq_acked' = mq_acked \cup {m},
         mq_rejected \subseteq mq_rejected', mq_rejected' \subseteq Messages, mq_lost \subseteq mq_lost', mq_lost' \subseteq Messages,
         to = "idle" => m \in mq_processing' \cup mq_acked' \cup mq_rejected' \cup mq_lost' \/ mq_score'[m] # Q!out
  PROVE  QueueInv'
<1>1. QueueTypes /\ HandsInv /\ ScoresInv /\ Q!StillFound /\ \A n \in Messages : mq_sent[n] = "answered" => n \in mq_acked
  BY DEF QueueInv
<1>2. /\ mq_now \in Nat /\ mq_level \in [Messages -> {100, 200}] /\ mq_body \in [Messages -> Nat]
      /\ mq_score \in [Messages -> Nat \cup {Q!out}] /\ Q!out = -1
      /\ mq_sent \in [Messages -> {"new", "stored", "sent", "waiting", "answered", "over"}]
      /\ mq_step \in [Consumers -> {"idle", "popped", "read", "holding", "deleting", "replying", "requeueing"}]
      /\ mq_hand \in [Consumers -> Messages \cup {Nobody}] /\ Nobody \notin Messages
      /\ mq_processing \subseteq Messages /\ mq_acked \subseteq Messages
  BY <1>1, QueueNumbers DEF QueueTypes, Q!queueTypeOK, Q!out
<1>3. /\ mq_score[m] = Q!out /\ mq_sent[m] \notin {"new", "stored"}
      /\ m \in mq_acked <=> mq_step[c] = "replying"
      /\ \A d \in Consumers : mq_hand[d] = m => d = c
  BY <1>1, <1>2 DEF HandsInv
<1>4. /\ mq_sent' \in [Messages -> {"new", "stored", "sent", "waiting", "answered", "over"}]
      /\ \A n \in Messages : mq_sent'[n] \in {"new", "stored"} <=> mq_sent[n] \in {"new", "stored"}
      /\ \A n \in Messages : mq_sent'[n] = "answered" => mq_sent[n] = "answered" \/ (n = m /\ mq_step[c] = "replying")
  <2>1. CASE mq_sent' = mq_sent
    BY <1>2, <2>1
  <2>2. CASE mq_step[c] = "replying" /\ mq_sent' = [mq_sent EXCEPT ![m] = IF mq_sent[m] = "waiting" THEN "answered" ELSE mq_sent[m]]
    <3>1. PICK s \in {"sent", "waiting", "answered", "over"} : s = IF mq_sent[m] = "waiting" THEN "answered" ELSE mq_sent[m]
      BY <1>2, <1>3
    <3>2. mq_sent' = [mq_sent EXCEPT ![m] = s]
      BY <2>2, <3>1
    <3>3. QED
      BY <1>2, <1>3, <2>2, <3>2
  <2>3. QED
    BY <2>1, <2>2
<1>5. mq_score' \in [Messages -> Nat \cup {Q!out}] /\ \A n \in Messages \ {m} : mq_score'[n] = mq_score[n]
  BY <1>2
<1>6. mq_score'[m] = Q!out \/ /\ mq_step[c] = "requeueing" /\ to = "idle" /\ mq_score'[m] = mq_level[m] - 10 + mq_now
                              /\ mq_score'[m] # Q!out
  BY <1>2, <1>3
<1>7. /\ mq_body' \in [Messages -> Nat] /\ \A n \in Messages \ {m} : mq_body'[n] = mq_body[n]
      /\ mq_body'[m] = mq_body[m] \/ mq_body'[m] = 0
      /\ mq_acked \subseteq mq_acked' /\ mq_acked' \subseteq Messages
      /\ \A n \in mq_acked' : n \in mq_acked \/ n = m
  BY <1>2
<1>8. /\ m \in mq_acked' => mq_body'[m] = 0 /\ m \notin mq_processing' /\ mq_score'[m] = Q!out
      /\ to # "idle" => (m \in mq_acked' <=> to = "replying")
  <2>1. m \in mq_acked => mq_body[m] = 0
    BY <1>1 DEF HandsInv
  <2>2. QED
    BY <1>2, <1>3, <1>6, <2>1
<1>9. QueueTypes'
  <2>1. mq_step' \in [Consumers -> {"idle", "popped", "read", "holding", "deleting", "replying", "requeueing"}]
    BY <1>2
  <2>2. mq_hand' \in [Consumers -> Messages \cup {Nobody}]
    BY <1>2
  <2>3. QED
    BY <1>1, <1>4, <1>5, <1>7, <2>1, <2>2 DEF QueueTypes, Q!queueTypeOK
<1>10. /\ mq_step'[c] = to /\ mq_hand'[c] = (IF to = "idle" THEN Nobody ELSE m)
       /\ \A d \in Consumers \ {c} : mq_step'[d] = mq_step[d] /\ mq_hand'[d] = mq_hand[d] /\ mq_hand[d] # m
  BY <1>2, <1>3
<1>11. HandsInv'
  <2>1. \A d \in Consumers : mq_step'[d] = "idle" <=> mq_hand'[d] = Nobody
    BY <1>1, <1>2, <1>10 DEF HandsInv
  <2>2. \A d, e \in Consumers : mq_hand'[d] # Nobody /\ mq_hand'[d] = mq_hand'[e] => d = e
    BY <1>1, <1>2, <1>10 DEF HandsInv
  <2>3. ASSUME NEW d \in Consumers, mq_step'[d] # "idle"
        PROVE  /\ mq_score'[mq_hand'[d]] = Q!out /\ mq_sent'[mq_hand'[d]] \notin {"new", "stored"}
               /\ mq_hand'[d] \in mq_processing' <=> mq_step'[d] = "holding"
               /\ mq_hand'[d] \in mq_acked' <=> mq_step'[d] = "replying"
    <3>1. CASE d = c
      BY <1>3, <1>4, <1>6, <1>8, <1>10, <2>3, <3>1
    <3>2. CASE d # c
      <4>1. PICK n \in Messages \ {m} : n = mq_hand[d]
        BY <1>1, <1>2, <1>10, <2>3, <3>2, HandIsMessage
      <4>2. /\ mq_score[n] = Q!out /\ mq_sent[n] \notin {"new", "stored"}
            /\ n \in mq_processing <=> mq_step[d] = "holding"
            /\ n \in mq_acked <=> mq_step[d] = "replying"
        BY <1>1, <1>10, <2>3, <3>2, <4>1 DEF HandsInv
      <4>3. QED
        BY <1>4, <1>5, <1>7, <1>10, <3>2, <4>1, <4>2
    <3>3. QED
      BY <3>1, <3>2
  <2>4. \A n \in mq_processing' : mq_score'[n] = Q!out /\ mq_sent'[n] \notin {"new", "stored"}
    BY <1>1, <1>3, <1>4, <1>5, <1>6 DEF HandsInv
  <2>5. \A n \in mq_acked' : /\ mq_score'[n] = Q!out /\ mq_body'[n] = 0
                             /\ n \notin mq_processing' /\ mq_sent'[n] \notin {"new", "stored"}
    BY <1>1, <1>3, <1>4, <1>5, <1>7, <1>8 DEF HandsInv
  <2>6. \A n \in Messages : mq_score'[n] # Q!out => mq_sent'[n] \notin {"new", "stored"}
    BY <1>1, <1>3, <1>4, <1>5 DEF HandsInv
  <2>7. QED
    BY <2>1, <2>2, <2>3, <2>4, <2>5, <2>6 DEF HandsInv, Q!out
<1>12. ScoresInv'
  <2>1. mq_now' = mq_now /\ mq_level' = mq_level
    OBVIOUS
  <2>2. mq_body[m] \in Nat /\ mq_body[m] <= mq_now + 90 /\ mq_level[m] \in {100, 200}
    BY <1>1, <1>2 DEF ScoresInv
  <2>3. mq_body'[m] \in Nat /\ mq_body'[m] <= mq_now + 90
    BY <1>2, <1>7, <2>2
  <2>4. mq_score'[m] # Q!out => mq_score'[m] + 100 >= mq_level[m] + mq_body'[m] /\ (mq_level[m] = 100 => mq_score'[m] <= 100 + mq_now)
    BY <1>2, <1>6, <2>2, <2>3
  <2>5. \A n \in Messages : mq_body'[n] <= mq_now' + 90
    BY <1>1, <1>7, <2>1, <2>3 DEF ScoresInv
  <2>6. \A n \in Messages : mq_score'[n] # Q!out => mq_score'[n] + 100 >= mq_level'[n] + mq_body'[n]
    BY <1>1, <1>5, <1>7, <2>1, <2>4 DEF ScoresInv
  <2>7. \A n \in Messages : mq_score'[n] # Q!out /\ mq_level'[n] = 100 => mq_score'[n] <= 100 + mq_now'
    BY <1>1, <1>5, <2>1, <2>4 DEF ScoresInv
  <2>8. QED
    BY <2>5, <2>6, <2>7 DEF ScoresInv, Q!out
<1>13. Q!StillFound'
  <2> SUFFICES ASSUME NEW n \in Messages, mq_sent'[n] \notin {"new", "stored"}
               PROVE  \/ mq_score'[n] # Q!out \/ n \in mq_processing' \cup mq_acked' \cup mq_rejected' \cup mq_lost'
                      \/ \E d \in Consumers : mq_hand'[d] = n
    BY DEF Q!StillFound, Q!queued, Q!out
  <2>1. CASE n = m
    BY <1>10, <2>1
  <2>2. CASE n # m
    <3>1. mq_sent[n] \notin {"new", "stored"}
      BY <1>4
    <3>2. CASE \E d \in Consumers : mq_hand[d] = n
      BY <1>10, <2>2, <3>2
    <3>3. CASE mq_score[n] # Q!out \/ n \in mq_processing \cup mq_acked \cup mq_rejected \cup mq_lost
      BY <1>5, <1>7, <2>2, <3>3
    <3>4. QED
      BY <1>1, <3>1, <3>2, <3>3 DEF Q!StillFound, Q!queued
  <2>3. QED
    BY <2>1, <2>2
<1>14. \A n \in Messages : mq_sent'[n] = "answered" => n \in mq_acked'
  BY <1>1, <1>3, <1>4, <1>7
<1>15. QED
  BY <1>9, <1>11, <1>12, <1>13, <1>14 DEF QueueInv

LEMMA ConsumersStep ==
  ASSUME QueueInv, NEW c \in Consumers, Q!takes(c) \/ Q!settles(c) \/ Q!fails(c)
  PROVE  QueueInv'
<1>1. QueueTypes /\ HandsInv
  BY DEF QueueInv
<1>2. /\ mq_step \in [Consumers -> {"idle", "popped", "read", "holding", "deleting", "replying", "requeueing"}]
      /\ mq_hand \in [Consumers -> Messages \cup {Nobody}] /\ mq_failures \in 0 .. MaxFaults /\ MaxFaults \in Nat
      /\ mq_processing \subseteq Messages /\ mq_acked \subseteq Messages /\ mq_rejected \subseteq Messages /\ mq_lost \subseteq Messages
  BY <1>1, QueueNumbers DEF QueueTypes, Q!queueTypeOK
<1>3. CASE Q!receive(c)
  BY <1>3, ReceiveStep
<1>4. CASE Q!receive_nothing(c)
  <2>1. UNCHANGED message_queueVars
    BY <1>4 DEF Q!receive_nothing, Q!queueVars, message_queueVars
  <2>2. QED
    BY <2>1 DEF message_queueVars, QueueInv, QueueTypes, HandsInv, ScoresInv, Q!queueTypeOK, Q!StillFound, Q!queued, Q!out
<1>5. CASE mq_step[c] # "idle" /\ ~Q!receive(c) /\ ~Q!receive_nothing(c)
  <2>1. PICK m \in Messages : m = mq_hand[c]
    BY <1>1, <1>5, HandIsMessage
  <2>2. m \in mq_processing <=> mq_step[c] = "holding"
    BY <1>1, <1>5, <2>1 DEF HandsInv
  <2>3. m \in mq_acked <=> mq_step[c] = "replying"
    BY <1>1, <1>5, <2>1 DEF HandsInv
  <2>4. CASE Q!read_body(c)
    <3>1. /\ mq_step[c] = "popped" /\ mq_step' = [mq_step EXCEPT ![c] = "read"]
          /\ UNCHANGED <<mq_hand, mq_acked, mq_rejected, mq_lost, mq_failures, mq_now, mq_level, mq_sent, mq_score, mq_processing, mq_body>>
      BY <2>4 DEF Q!read_body, Q!consumer_goes, Q!keeps, Q!store
    <3>2. QED
      BY <1>2, <2>1, <2>2, <2>3, <3>1, ConsumerMoves
  <2>5. CASE Q!no_body(c)
    <3>1. /\ mq_step[c] = "popped" /\ mq_step' = [mq_step EXCEPT ![c] = "idle"] /\ mq_hand' = [mq_hand EXCEPT ![c] = Nobody]
          /\ mq_lost' = mq_lost \cup {m}
          /\ UNCHANGED <<mq_acked, mq_rejected, mq_failures, mq_now, mq_level, mq_sent, mq_score, mq_processing, mq_body>>
      BY <2>1, <2>5 DEF Q!no_body, Q!ends, Q!consumer_goes, Q!store
    <3>2. QED
      BY <1>2, <2>1, <2>2, <2>3, <3>1, ConsumerMoves
  <2>6. CASE Q!start_processing(c)
    <3>1. /\ mq_step[c] = "read" /\ mq_step' = [mq_step EXCEPT ![c] = "holding"] /\ mq_processing' = mq_processing \cup {m}
          /\ UNCHANGED <<mq_hand, mq_acked, mq_rejected, mq_lost, mq_failures, mq_now, mq_level, mq_sent, mq_score, mq_body>>
      BY <2>1, <2>6 DEF Q!start_processing, Q!consumer_goes, Q!keeps
    <3>2. QED
      BY <1>2, <2>1, <2>2, <2>3, <3>1, ConsumerMoves
  <2>7. ASSUME NEW to \in {"deleting", "requeueing"}, Q!acknowledge(c) \/ Q!reject_requeue(c), mq_step' = [mq_step EXCEPT ![c] = to]
        PROVE  QueueInv'
    <3>1. /\ mq_step[c] = "holding" /\ mq_processing' = mq_processing \ {m}
          /\ UNCHANGED <<mq_hand, mq_acked, mq_rejected, mq_lost, mq_failures, mq_now, mq_level, mq_sent, mq_score, mq_body>>
      BY <2>1, <2>7 DEF Q!acknowledge, Q!reject_requeue, Q!consumer_goes, Q!keeps
    <3>2. QED
      BY <1>2, <2>1, <2>2, <2>3, <2>7, <3>1, ConsumerMoves
  <2>8. CASE Q!acknowledge(c) \/ Q!reject_requeue(c)
    BY <2>7, <2>8 DEF Q!acknowledge, Q!reject_requeue, Q!consumer_goes
  <2>9. CASE Q!delete_body(c)
    <3>1. /\ mq_step[c] = "deleting" /\ mq_step' = [mq_step EXCEPT ![c] = "replying"]
          /\ mq_body' = [mq_body EXCEPT ![m] = 0] /\ mq_acked' = mq_acked \cup {m}
          /\ UNCHANGED <<mq_hand, mq_rejected, mq_lost, mq_failures, mq_now, mq_level, mq_sent, mq_score, mq_processing>>
      BY <2>1, <2>9 DEF Q!delete_body, Q!consumer_goes
    <3>2. QED
      BY <1>2, <2>1, <2>2, <2>3, <3>1, ConsumerMoves
  <2>10. CASE Q!publish(c)
    <3>1. /\ mq_step[c] = "replying" /\ mq_step' = [mq_step EXCEPT ![c] = "idle"] /\ mq_hand' = [mq_hand EXCEPT ![c] = Nobody]
          /\ mq_sent' = [mq_sent EXCEPT ![m] = IF mq_sent[m] = "waiting" THEN "answered" ELSE mq_sent[m]]
          /\ UNCHANGED <<mq_acked, mq_rejected, mq_lost, mq_failures, mq_now, mq_level, mq_score, mq_processing, mq_body>>
      BY <2>1, <2>10 DEF Q!publish, Q!published, Q!ends, Q!consumer_goes, Q!store
    <3>2. QED
      BY <1>2, <2>1, <2>2, <2>3, <3>1, ConsumerMoves
  <2>11. CASE Q!reject(c)
    <3>1. /\ mq_step[c] = "holding" /\ mq_step' = [mq_step EXCEPT ![c] = "idle"] /\ mq_hand' = [mq_hand EXCEPT ![c] = Nobody]
          /\ mq_processing' = mq_processing \ {m} /\ mq_rejected' = mq_rejected \cup {m}
          /\ UNCHANGED <<mq_acked, mq_lost, mq_failures, mq_now, mq_level, mq_sent, mq_score, mq_body>>
      BY <2>1, <2>11 DEF Q!reject, Q!ends, Q!consumer_goes
    <3>2. QED
      BY <1>2, <2>1, <2>2, <2>3, <3>1, ConsumerMoves
  <2>12. CASE Q!requeue(c)
    <3>1. /\ mq_step[c] = "requeueing" /\ mq_step' = [mq_step EXCEPT ![c] = "idle"] /\ mq_hand' = [mq_hand EXCEPT ![c] = Nobody]
          /\ mq_score' = [mq_score EXCEPT ![m] = mq_level[m] - 10 + mq_now]
          /\ UNCHANGED <<mq_acked, mq_rejected, mq_lost, mq_failures, mq_now, mq_level, mq_sent, mq_processing, mq_body>>
      BY <2>1, <2>12 DEF Q!requeue, Q!ends, Q!consumer_goes
    <3>2. mq_score'[m] # Q!out
      BY <1>1, <3>1 DEF QueueTypes, Q!queueTypeOK, Q!out
    <3>3. QED
      BY <1>2, <2>1, <2>2, <2>3, <3>1, <3>2, ConsumerMoves
  <2>13. CASE Q!fails(c)
    <3>1. /\ mq_failures' \in 0 .. MaxFaults /\ mq_step' = [mq_step EXCEPT ![c] = "idle"] /\ mq_hand' = [mq_hand EXCEPT ![c] = Nobody]
          /\ UNCHANGED <<mq_acked, mq_rejected, mq_now, mq_level, mq_sent, mq_score, mq_processing, mq_body>>
      BY <1>2, <2>13 DEF Q!fails, Q!store
    <3>2. mq_lost' = IF mq_step[c] \in {"popped", "read", "deleting", "requeueing"} THEN mq_lost \cup {m} ELSE mq_lost
      BY <2>1, <2>13 DEF Q!fails
    <3>3. /\ mq_lost \subseteq mq_lost' /\ mq_lost' \subseteq Messages
          /\ m \in mq_processing' \cup mq_acked' \cup mq_rejected' \cup mq_lost'
      BY <1>2, <1>5, <2>2, <2>3, <3>1, <3>2
    <3>4. QED
      BY <1>2, <1>5, <2>1, <2>2, <2>3, <3>1, <3>3, ConsumerMoves
  <2>14. QED
    BY <1>5, <2>4, <2>5, <2>6, <2>8, <2>9, <2>10, <2>11, <2>12, <2>13 DEF Q!takes, Q!settles
<1>6. QED
  BY <1>3, <1>4, <1>5
     DEF Q!takes, Q!settles, Q!fails, Q!read_body, Q!no_body, Q!start_processing, Q!acknowledge, Q!delete_body, Q!publish,
         Q!reject, Q!reject_requeue, Q!requeue, Q!ends, Q!consumer_goes

(* The invariant is kept, and a consumer that is given a message is given one *)
(* of the highest priority.                                                   *)
LEMMA QueueStep ==
  QueueInv /\ [Q!queueNext]_message_queueVars =>
    /\ QueueInv'
    /\ \A c \in Consumers : mq_step[c] = "idle" /\ mq_step'[c] = "popped" =>
         \A n \in Q!queued : Q!live(n) => mq_level[n] <= mq_level[mq_hand'[c]]
<1> SUFFICES ASSUME QueueInv, [Q!queueNext]_message_queueVars
             PROVE  /\ QueueInv'
                    /\ \A c \in Consumers : mq_step[c] = "idle" /\ mq_step'[c] = "popped" =>
                         \A n \in Q!queued : Q!live(n) => mq_level[n] <= mq_level[mq_hand'[c]]
  OBVIOUS
<1>1. CASE UNCHANGED message_queueVars
  BY <1>1 DEF message_queueVars, QueueInv, QueueTypes, HandsInv, ScoresInv, Q!queueTypeOK, Q!StillFound, Q!queued, Q!out
<1>2. CASE Q!tick \/ \E m \in Messages : Q!store_body(m) \/ Q!send(m) \/ Q!subscribe(m) \/ Q!times_out(m)
  <2>1. mq_step' = mq_step
    BY <1>2 DEF Q!tick, Q!store_body, Q!send, Q!subscribe, Q!times_out, Q!consumers
  <2>2. QED
    BY <1>2, <2>1, ProducersStep
<1>3. ASSUME NEW c \in Consumers, Q!takes(c) \/ Q!settles(c) \/ Q!fails(c)
      PROVE  /\ QueueInv'
             /\ \A d \in Consumers : mq_step[d] = "idle" /\ mq_step'[d] = "popped" =>
                  \A n \in Q!queued : Q!live(n) => mq_level[n] <= mq_level[mq_hand'[d]]
  <2>1. QueueInv'
    BY <1>3, ConsumersStep
  <2>2. mq_step \in [Consumers -> {"idle", "popped", "read", "holding", "deleting", "replying", "requeueing"}]
    BY DEF QueueInv, QueueTypes, Q!queueTypeOK
  <2>3. \A d \in Consumers : mq_step[d] = "idle" /\ mq_step'[d] = "popped" => d = c /\ Q!receive(c)
    BY <1>3, <2>2
       DEF Q!takes, Q!settles, Q!fails, Q!receive, Q!receive_nothing, Q!queueVars, Q!read_body, Q!no_body, Q!start_processing,
           Q!acknowledge, Q!delete_body, Q!publish, Q!reject, Q!reject_requeue, Q!requeue, Q!ends, Q!consumer_goes
  <2>4. Q!receive(c) => \A n \in Q!queued : Q!live(n) => mq_level[n] <= mq_level[mq_hand'[c]]
    BY ReceiveStep
  <2>5. QED
    BY <2>1, <2>3, <2>4
<1>4. QED
  BY <1>1, <1>2, <1>3 DEF Q!queueNext

LEMMA QueueMeans == QueueInv => Q!queueTypeOK /\ Q!OneHolder /\ Q!AckedStaysOut /\ Q!StillFound /\ Q!AnsweredIsSettled
<1> SUFFICES ASSUME QueueInv
             PROVE  Q!queueTypeOK /\ Q!OneHolder /\ Q!AckedStaysOut /\ Q!StillFound /\ Q!AnsweredIsSettled
  OBVIOUS
<1>1. QueueTypes /\ HandsInv
  BY DEF QueueInv
<1>2. Nobody \notin Messages
  BY QueueNumbers
<1>3. Q!OneHolder
  BY <1>1, <1>2 DEF Q!OneHolder, HandsInv, Q!queued
<1>4. Q!AckedStaysOut
  BY <1>1 DEF Q!AckedStaysOut, HandsInv, Q!queued
<1>5. \A m \in mq_acked : ~Q!live(m) /\ m \notin mq_processing
  <2>1. mq_now \in Nat
    BY <1>1 DEF QueueTypes, Q!queueTypeOK
  <2>2. QED
    BY <1>1, <2>1 DEF HandsInv, Q!live
<1>6. QED
  BY <1>1, <1>3, <1>4, <1>5 DEF QueueInv, QueueTypes, Q!AnsweredIsSettled

(***************************************************************************)
(* The whole platform.                                                     *)
(***************************************************************************)
PlatformInv ==
  /\ GasInv /\ WalletsInv /\ PoolInv /\ RegistryInv /\ ChainsInv /\ ModulesInv /\ ErrorsInv
  /\ MemoryInv /\ MapsInv /\ RedisInv /\ LimiterInv /\ AccountsInv /\ DaysInv /\ ManagerInv
  /\ StatsInv /\ QueueInv /\ ServiceInv /\ BlacklistInv /\ StoreInv /\ BreakerInv /\ PolicyInv

(* A step of the platform is a step of a part, or leaves it alone. *)
LEMMA PartSteps ==
  ASSUME [Next]_vars
  PROVE  /\ [O!Next]_gasVars /\ [W!Next]_walletsVars /\ [P!Next]_poolVars /\ [A!adaptersNext]_registryVars
         /\ [A!chainsNext]_chainsVars /\ [M!Next]_modulesVars /\ [E!classesNext]_errorsVars
         /\ [C!memoryNext]_memory_cacheVars /\ [C!mapsNext]_two_map_cacheVars /\ [C!redisNext]_redis_cacheVars
         /\ [L!limiterNext]_rate_limiterVars /\ [U!accountsNext]_user_accountsVars /\ [U!daysNext]_subscriptionsVars
         /\ [N!managerNext]_endpoint_managerVars /\ [N!statsNext]_endpoint_statsVars
         /\ [Q!queueNext]_message_queueVars /\ [Q!serviceNext]_redis_serviceVars
         /\ [L!blacklistNext]_token_blacklistVars /\ [E!storeNext]_error_storeVars
         /\ [K!breakerNext]_circuit_breakerVars /\ [K!policyNext]_common_retryVars
<1>1. [O!Next]_gasVars /\ [W!Next]_walletsVars
  BY DEF Next, vars
<1>2. [P!Next]_poolVars /\ [A!adaptersNext]_registryVars
  BY DEF Next, vars
<1>3. [A!chainsNext]_chainsVars /\ [M!Next]_modulesVars
  BY DEF Next, vars
<1>4. [E!classesNext]_errorsVars /\ [C!memoryNext]_memory_cacheVars
  BY DEF Next, vars
<1>5. [C!mapsNext]_two_map_cacheVars /\ [C!redisNext]_redis_cacheVars
  BY DEF Next, vars
<1>6. [L!limiterNext]_rate_limiterVars /\ [U!accountsNext]_user_accountsVars
  BY DEF Next, vars
<1>7. [U!daysNext]_subscriptionsVars /\ [N!managerNext]_endpoint_managerVars
  BY DEF Next, vars
<1>8. [N!statsNext]_endpoint_statsVars /\ [Q!queueNext]_message_queueVars
  BY DEF Next, vars
<1>9. [Q!serviceNext]_redis_serviceVars /\ [L!blacklistNext]_token_blacklistVars
  BY DEF Next, vars
<1>10. [E!storeNext]_error_storeVars /\ [K!breakerNext]_circuit_breakerVars /\ [K!policyNext]_common_retryVars
  BY DEF Next, vars
<1>11. QED
  BY <1>1, <1>2, <1>3, <1>4, <1>5, <1>6, <1>7, <1>8, <1>9, <1>10

LEMMA PlatformInvariant == Spec => []PlatformInv
<1>1. Init => PlatformInv
  <2> SUFFICES ASSUME Init
               PROVE  PlatformInv
    OBVIOUS
  <2>1. GasInv /\ WalletsInv /\ PoolInv /\ RegistryInv /\ ChainsInv /\ ModulesInv /\ ErrorsInv
    BY GasInit, WalletsInit, PoolInit, RegistryInit, ChainsInit, ModulesInit, ErrorsInit DEF Init
  <2>2. MemoryInv /\ MapsInv /\ RedisInv /\ LimiterInv /\ AccountsInv /\ DaysInv /\ ManagerInv
    BY MemoryInit, MapsInit, RedisInit, LimiterInit, AccountsInit, DaysInit, ManagerInit DEF Init
  <2>3. StatsInv /\ QueueInv /\ ServiceInv /\ BlacklistInv /\ StoreInv /\ BreakerInv /\ PolicyInv
    BY StatsInit, QueueInit, ServiceInit, BlacklistInit, StoreInit, BreakerInit, PolicyInit DEF Init
  <2>4. QED
    BY <2>1, <2>2, <2>3 DEF PlatformInv
<1>2. PlatformInv /\ [Next]_vars => PlatformInv'
  <2> SUFFICES ASSUME PlatformInv, [Next]_vars
               PROVE  PlatformInv'
    OBVIOUS
  <2>1. GasInv' /\ WalletsInv' /\ PoolInv' /\ RegistryInv'
    BY PartSteps, GasStep, WalletsStep, PoolStep, RegistryStep DEF PlatformInv
  <2>2. ChainsInv' /\ ModulesInv' /\ ErrorsInv' /\ MemoryInv'
    BY PartSteps, ChainsStep, ModulesStep, ErrorsStep, MemoryStep DEF PlatformInv
  <2>3. MapsInv' /\ RedisInv' /\ LimiterInv' /\ AccountsInv'
    BY PartSteps, MapsStep, RedisStep, LimiterStep, AccountsStep DEF PlatformInv
  <2>4. DaysInv' /\ ManagerInv' /\ StatsInv' /\ QueueInv'
    BY PartSteps, DaysStep, ManagerStep, StatsStep, QueueStep DEF PlatformInv
  <2>5. ServiceInv' /\ BlacklistInv' /\ StoreInv' /\ BreakerInv' /\ PolicyInv'
    BY PartSteps, ServiceStep, BlacklistStep, StoreStep, BreakerStep, PolicyStep DEF PlatformInv
  <2>6. QED
    BY <2>1, <2>2, <2>3, <2>4, <2>5 DEF PlatformInv
<1>3. QED
  BY <1>1, <1>2, PTL DEF Spec

(* The state of every part stays within its types, in whatever order       *)
(* threads, callers, clocks and failures come.                             *)
THEOREM PlatformTypeCorrect == Spec => []TypeOK
<1>1. PlatformInv => TypeOK
  BY MemoryMeans, MapsMean, ManagerTypes, QueueMeans, ServiceMeans
     DEF PlatformInv, GasInv, WalletsInv, PoolInv, RegistryInv, ChainsInv, ModulesInv, ErrorsInv, RedisInv, LimiterInv,
         AccountsInv, DaysInv, StatsInv, BlacklistInv, StoreInv, BreakerInv, PolicyInv, TypeOK
<1>2. QED
  BY <1>1, PlatformInvariant, PTL

(* The caches keep to the configured capacity, their two maps agree, and   *)
(* no entry stays without an expiry, but where calls that overlap or a     *)
(* store that fails explain it.                                            *)
THEOREM PlatformCachesConsistent == Spec => []CachesConsistent
<1>1. PlatformInv => CachesConsistent
  BY MemoryMeans, MapsMean DEF PlatformInv, RedisInv, CachesConsistent
<1>2. QED
  BY <1>1, PlatformInvariant, PTL

(* Gas prices are as fresh as the cache allows and retries climb to their  *)
(* limit; retries of other calls are granted within theirs, the breaker    *)
(* has its timer and delays are bounded.                                   *)
THEOREM PlatformGasAndRetries == Spec => []GasAndRetries
<1>1. PlatformInv => GasAndRetries
  BY GasMeans DEF PlatformInv, ErrorsInv, BreakerInv, PolicyInv, GasAndRetries
<1>2. QED
  BY <1>1, PlatformInvariant, PTL

(* Adapters and wrappers, chains and their accounts, modules and their     *)
(* keys, endpoints and their statistics stay in step.                      *)
THEOREM PlatformRegistriesInStep == Spec => []RegistriesInStep
<1>1. PlatformInv => RegistriesInStep
  BY ManagerMeans DEF PlatformInv, PoolInv, RegistryInv, ChainsInv, ModulesInv, StatsInv, RegistriesInStep
<1>2. QED
  BY <1>1, PlatformInvariant, PTL

(* Wallets, users, days, requests, logouts and errors are accounted for    *)
(* exactly, over restarts, crashes and overlapping calls.                  *)
THEOREM PlatformAccountsExact == Spec => []AccountsExact
<1>1. AccountsInv => U!SettledFileIsMemory
  <2>1. \A w : {w} # {}
    OBVIOUS
  <2>2. QED
    BY <2>1 DEF AccountsInv, U!SettledFileIsMemory
<1>2. PlatformInv => AccountsExact
  BY <1>1, DaysMean, LimiterMeans DEF PlatformInv, WalletsInv, DaysInv, BlacklistInv, StoreInv, AccountsExact
<1>3. QED
  BY <1>2, PlatformInvariant, PTL

(* A message is with one consumer, in one set, or settled; a connection is *)
(* with one caller; the lock with one owner; and the counter counts calls  *)
(* that do not overlap.                                                    *)
THEOREM PlatformMessagesSafe == Spec => []MessagesSafe
<1>1. PlatformInv => MessagesSafe
  BY QueueMeans, ServiceMeans DEF PlatformInv, MessagesSafe
<1>2. QED
  BY <1>1, PlatformInvariant, PTL

(* An endpoint comes back after an error alone, a change of capacity keeps *)
(* what fits, the highest priority is served first, and a cleanup that     *)
(* ends leaves no old error.                                               *)
THEOREM PlatformStepsKeepOrder == Spec => StepsKeepOrder
<1> DEFINE DownStep == \A u \in Urls : cp_info[u].status = "Down" /\ cp_info'[u].status # "Down" => cp_info'[u].error > cp_info[u].error
           ResizeStep == \A u \in Updaters :
             mc_update[u].step = "rebuild" /\ mc_update'[u].step = "write" /\ mc_update[u].capacity >= Len(mc_order)
               => C!present' = C!present
           PriorityStep == \A c \in Consumers : mq_step[c] = "idle" /\ mq_step'[c] = "popped" =>
             \A n \in Q!queued : Q!live(n) => mq_level[n] <= mq_level[mq_hand'[c]]
           CleanupStep == eh_cleaning # E!idle /\ eh_cleaning' = E!idle => eh_old \cap E!present \subseteq eh_revived
<1>1. PlatformInv /\ [Next]_vars => DownStep /\ ResizeStep
  BY PartSteps, PoolStep, MemoryStep DEF PlatformInv
<1>2. PlatformInv /\ [Next]_vars => PriorityStep /\ CleanupStep
  BY PartSteps, QueueStep, StoreStep DEF PlatformInv
<1> HIDE DEF DownStep, ResizeStep, PriorityStep, CleanupStep
<1>3. Spec => [][DownStep]_P!vars /\ [][ResizeStep]_C!memoryVars
  BY <1>1, PlatformInvariant, PTL DEF Spec
<1>4. Spec => [][PriorityStep]_Q!queueVars /\ [][CleanupStep]_E!storeVars
  BY <1>2, PlatformInvariant, PTL DEF Spec
<1>5. QED
  BY <1>3, <1>4, PTL
     DEF StepsKeepOrder, P!DownEndsWithAnError, C!ResizeKeepsAll, Q!PriorityFirst, E!OldErrorsGone, DownStep, ResizeStep,
         PriorityStep, CleanupStep

=============================================================================
