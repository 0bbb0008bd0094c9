-------------------------- MODULE MarketData_proofs --------------------------
(***************************************************************************)
(* What a tick passes before on_tick, for every number of candles and      *)
(* trades, every queue, every set of prices and bands, every length of the *)
(* windows.                                                                *)
(*                                                                         *)
(* The properties of the band monitor are not inductive.  A signal is a    *)
(* crossing because the zone of the last price is always that of the       *)
(* current band, or unknown.  The band goes back only by an old answer     *)
(* because until then the newest candle is at least as new as the band.    *)
(*                                                                         *)
(* Nor is that of the order flow.  Its sums are right because each deque   *)
(* is a slice of the trades counted, cut at two times, so that what leaves *)
(* it is a slice too and the sum of a slice is a difference of sums; its   *)
(* extremes are right because every trade of the window is bettered, or    *)
(* equalled, by a later or equal one in the deque.                         *)
(***************************************************************************)
EXTENDS BandMonitor, CvdTracker, TLAPS, SequenceTheorems, FiniteSetTheorems, FunctionTheorems

-----------------------------------------------------------------------------
(* The band monitor.                                                       *)

MonitorZones == {"UNKNOWN", "ABOVE", "BELOW", "INSIDE"}

\* What the two invariants need of the types.
Prices == previous # NO_BAND => previous \in [price : TickPrices, zone : MonitorZones]

Lists ==
  /\ now \in Nat
  /\ candles \in Seq(Int)
  /\ rest # NO_BAND => rest \in Seq(Int)
  /\ band # NO_BAND => band.at \in Int
  /\ set_back \in BOOLEAN

ZoneIsCurrent ==
  previous # NO_BAND /\ band # NO_BAND =>
    previous.zone \in {"UNKNOWN", Zone(previous.price, band)}

NewestCandleKept ==
  band # NO_BAND /\ ~set_back => candles # <<>> /\ band.at <= Newest

SignalInv == Prices /\ ZoneIsCurrent
CandleInv == Lists /\ NewestCandleKept

-----------------------------------------------------------------------------
(* Signals.                                                                 *)

\* A zone is one of the four.
LEMMA ZoneType == ASSUME NEW price, NEW b PROVE Zone(price, b) \in MonitorZones
  BY DEF Zone, MonitorZones

\* No price yet, so no zone of one.
LEMMA SignalInit == MonitorInit => SignalInv
  BY DEF MonitorInit, SignalInv, Prices, ZoneIsCurrent

\* Judge leaves the last price with its zone in the band as it is.
LEMMA JudgeKeeps ==
  ASSUME NEW price \in TickPrices, NEW taken, Judge(price, taken), band' = band
  PROVE  SignalInv'
  <1>1. previous' \in [price : TickPrices, zone : MonitorZones]
    <2>1. "UNKNOWN" \in MonitorZones /\ Zone(price, band) \in MonitorZones
      BY ZoneType DEF MonitorZones
    <2> QED
      BY <2>1 DEF Judge
  <1>2. previous'.price = price /\ previous'.zone \in {"UNKNOWN", Zone(price, band)}
    BY DEF Judge
  <1>3. Zone(price, band) = Zone(previous'.price, band')
    BY <1>2
  <1> QED
    BY <1>1, <1>2, <1>3 DEF SignalInv, Prices, ZoneIsCurrent

\* A price that waits is one of the prices.
WaitingPrice == waiting # NO_BAND => waiting.price \in TickPrices

\* No tick waits at the start.
LEMMA WaitingPriceInit == MonitorInit => WaitingPrice
  BY DEF MonitorInit, WaitingPrice

\* Only a trade waits.
LEMMA WaitingPriceStep == WaitingPrice /\ [MonitorNext]_monitor_vars => WaitingPrice'
  <1> SUFFICES ASSUME WaitingPrice, [MonitorNext]_monitor_vars PROVE WaitingPrice'
    OBVIOUS
  <1>1. CASE ProcessTick
    <2> PICK price \in TickPrices, late \in {0, 1} :
          \/ UNCHANGED waiting
          \/ waiting' = [price |-> price, band |-> band]
      BY <1>1 DEF ProcessTick
    <2> QED BY DEF WaitingPrice
  <1>2. CASE TickQueued
    BY <1>2 DEF TickQueued, WaitingPrice
  <1>3. CASE UNCHANGED waiting
    BY <1>3 DEF WaitingPrice
  <1> QED
    BY <1>1, <1>2, <1>3 DEF MonitorNext, monitor_vars, NewCandle, CandleArrives, RestAnswered,
       RestArrives, RestFails, Recalculate, TickConsumed, FreezeEnds

\* A new band judges the last price again.
LEMMA RecalculateKeepsZone == SignalInv /\ Recalculate => SignalInv'
  <1> SUFFICES ASSUME SignalInv, Recalculate PROVE SignalInv'
    OBVIOUS
  <1> PICK b : band' = b /\ previous' = Reclassified(b)
    BY DEF Recalculate
  <1>1. CASE previous = NO_BAND
    BY <1>1 DEF Reclassified, SignalInv, Prices, ZoneIsCurrent
  <1>2. CASE previous # NO_BAND
    <2>1. previous \in [price : TickPrices, zone : MonitorZones]
      BY <1>2 DEF SignalInv, Prices
    <2>2. previous' = [previous EXCEPT !.zone = Zone(previous.price, b)]
      BY <1>2 DEF Reclassified
    <2>3. /\ previous' \in [price : TickPrices, zone : MonitorZones]
          /\ previous'.price = previous.price
          /\ previous'.zone = Zone(previous.price, b)
      BY <2>1, <2>2, ZoneType
    <2>4. previous'.zone = Zone(previous'.price, band')
      BY <2>3
    <2> QED
      BY <2>3, <2>4 DEF SignalInv, Prices, ZoneIsCurrent
  <1> QED
    BY <1>1, <1>2

\* The zone of the last price stays that of the current band, or unknown.
LEMMA SignalStep ==
  SignalInv /\ WaitingPrice /\ [MonitorNext]_monitor_vars => SignalInv'
  <1> SUFFICES ASSUME SignalInv, WaitingPrice, [MonitorNext]_monitor_vars PROVE SignalInv'
    OBVIOUS
  <1>1. CASE ProcessTick
    <2> PICK price \in TickPrices, late \in {0, 1} :
          Judge(price, band) \/ UNCHANGED previous
      BY <1>1 DEF ProcessTick
    <2>1. band' = band
      BY <1>1 DEF ProcessTick
    <2>2. CASE Judge(price, band)
      BY <2>1, <2>2, JudgeKeeps
    <2>3. CASE UNCHANGED previous
      BY <2>1, <2>3 DEF SignalInv, Prices, ZoneIsCurrent
    <2> QED
      BY <2>2, <2>3
  <1>2. CASE TickQueued
    BY <1>2, JudgeKeeps DEF TickQueued, WaitingPrice
  <1>3. CASE Recalculate
    BY <1>3, RecalculateKeepsZone
  <1>4. CASE UNCHANGED <<previous, band>>
    BY <1>4 DEF SignalInv, Prices, ZoneIsCurrent
  <1> QED
    BY <1>1, <1>2, <1>3, <1>4 DEF MonitorNext, monitor_vars, NewCandle, CandleArrives,
       RestAnswered, RestArrives, RestFails, TickConsumed, FreezeEnds

\* A tick that is judged signals only a crossing of the band as it is.
LEMMA JudgeSignalsCrossing ==
  ASSUME NEW price, NEW taken, SignalInv, Judge(price, taken), ~frozen, frozen'
  PROVE  /\ Zone(previous.price, band) = "INSIDE"
         /\ Zone(previous'.price, band) \in {"ABOVE", "BELOW"}
  <1>1. /\ taken # NO_BAND
        /\ previous # NO_BAND /\ previous.zone = "INSIDE"
        /\ Zone(price, band) \in {"ABOVE", "BELOW"}
        /\ previous'.price = price
    BY DEF Judge
  <1>2. band # NO_BAND
    BY <1>1 DEF Zone
  <1>3. Zone(previous.price, band) = "INSIDE"
    BY <1>1, <1>2 DEF SignalInv, ZoneIsCurrent
  <1> QED
    BY <1>1, <1>3

\* SignalCrossedBand: a signal is a crossing of the current band, whatever is recalculated
\* between two trades or while one waits for room in the queue (_process_tick).
THEOREM SignalCorrect == MonitorSpec => SignalCrossedBand
  <1>1. SignalInv /\ WaitingPrice /\ [MonitorNext]_monitor_vars
          => [~frozen /\ frozen' =>
               /\ Zone(previous.price, band) = "INSIDE"
               /\ Zone(previous'.price, band) \in {"ABOVE", "BELOW"}]_monitor_vars
    <2> SUFFICES ASSUME SignalInv, MonitorNext, ~frozen, frozen'
                 PROVE  /\ Zone(previous.price, band) = "INSIDE"
                        /\ Zone(previous'.price, band) \in {"ABOVE", "BELOW"}
      OBVIOUS
    <2>1. CASE ProcessTick
      BY <2>1, JudgeSignalsCrossing DEF ProcessTick
    <2>2. CASE TickQueued
      BY <2>2, JudgeSignalsCrossing DEF TickQueued
    <2> QED
      BY <2>1, <2>2 DEF MonitorNext, NewCandle, CandleArrives, RestAnswered, RestArrives,
         RestFails, Recalculate, TickConsumed, FreezeEnds
  <1> QED
    BY <1>1, SignalInit, SignalStep, WaitingPriceInit, WaitingPriceStep, PTL
       DEF MonitorSpec, SignalCrossedBand

-----------------------------------------------------------------------------
(* Candles.                                                                 *)

\* The last candle_limit candles of a list end where the list ends.
LEMMA LastOfEnd ==
  ASSUME NEW s \in Seq(Int), s # <<>>
  PROVE  /\ LastOf(s) \in Seq(Int) /\ LastOf(s) # <<>>
         /\ LastOf(s)[Len(LastOf(s))] = s[Len(s)]
  <1>1. CandleLimit \in Nat /\ CandleLimit >= 1
    BY MonitorAssumption
  <1>2. Len(s) \in Nat /\ Len(s) >= 1
    BY EmptySeq
  <1>3. CASE Len(s) <= CandleLimit
    BY <1>3 DEF LastOf
  <1>4. CASE ~(Len(s) <= CandleLimit)
    <2> DEFINE m == Len(s) - CandleLimit + 1
    <2>1. m \in 1..Len(s) /\ Len(s) - m + 1 = CandleLimit
      BY <1>1, <1>2, <1>4
    <2>2. LastOf(s) = SubSeq(s, m, Len(s))
      BY <1>4 DEF LastOf
    <2>3. /\ SubSeq(s, m, Len(s)) \in Seq(Int)
          /\ Len(SubSeq(s, m, Len(s))) = CandleLimit
          /\ SubSeq(s, m, Len(s))[CandleLimit] = s[Len(s)]
      BY <1>1, <1>2, <2>1
    <2> HIDE DEF m
    <2> QED
      BY <1>1, <2>2, <2>3
  <1> QED
    BY <1>3, <1>4

\* A candle that arrives leaves the newest one at least as new.
LEMMA UpsertNewest ==
  ASSUME NEW at \in Int, candles \in Seq(Int)
  PROVE  /\ Upsert(at) \in Seq(Int) /\ Upsert(at) # <<>>
         /\ candles # <<>> => Newest <= Upsert(at)[Len(Upsert(at))]
  <1>1. CASE candles # <<>> /\ at <= Newest
    <2>1. Newest \in Int
      BY <1>1, EmptySeq DEF Newest
    <2> QED
      BY <1>1, <2>1 DEF Upsert, Newest
  <1>2. CASE ~(candles # <<>> /\ at <= Newest)
    <2> DEFINE longer == Append(candles, at)
    <2>1. longer \in Seq(Int) /\ longer # <<>> /\ longer[Len(longer)] = at
      OBVIOUS
    <2>2. Upsert(at) = LastOf(longer)
      BY <1>2 DEF Upsert
    <2>3. Upsert(at) \in Seq(Int) /\ Upsert(at) # <<>> /\ Upsert(at)[Len(Upsert(at))] = at
      BY <2>1, <2>2, LastOfEnd
    <2>4. candles # <<>> => Newest \in Int
      BY EmptySeq DEF Newest
    <2> QED
      BY <1>2, <2>3, <2>4
  <1> QED
    BY <1>1, <1>2

\* No band at the start.
LEMMA CandleInit == MonitorInit => CandleInv
  <1>1. <<>> \in Seq(Int) /\ 0 \in Nat
    OBVIOUS
  <1> QED
    BY <1>1, Zenon DEF MonitorInit, CandleInv, Lists, NewestCandleKept

\* A trade or a candle of the stream, however late, keeps the newest candle.
LEMMA UpsertKeeps ==
  ASSUME CandleInv, NEW at \in Int, candles' = Upsert(at),
         UNCHANGED <<now, rest, band, set_back>>
  PROVE  CandleInv'
  <1>1. /\ candles' \in Seq(Int) /\ candles' # <<>>
        /\ candles # <<>> => Newest <= candles'[Len(candles')]
    BY UpsertNewest DEF CandleInv, Lists
  <1>2. candles # <<>> => Newest \in Int
    BY EmptySeq DEF CandleInv, Lists, Newest
  <1>3. candles'[Len(candles')] \in Int
    BY <1>1, EmptySeq
  <1>4. Lists'
    BY <1>1 DEF CandleInv, Lists
  <1>5. ASSUME band # NO_BAND, ~set_back
        PROVE  band.at <= candles'[Len(candles')]
    BY <1>1, <1>2, <1>3, <1>5 DEF CandleInv, Lists, NewestCandleKept
  <1> QED
    BY <1>1, <1>4, <1>5 DEF CandleInv, NewestCandleKept, Newest

\* An answer that takes the newest candle away is noted.
LEMMA RestArrivesKeeps == CandleInv /\ RestArrives => CandleInv'
  <1> SUFFICES ASSUME CandleInv, RestArrives PROVE CandleInv'
    OBVIOUS
  <1>1. CASE Len(rest) < BollWindow
    BY <1>1 DEF RestArrives, CandleInv, Lists, NewestCandleKept, Newest
  <1>2. CASE ~(Len(rest) < BollWindow)
    <2>1. /\ candles' = rest /\ rest \in Seq(Int)
          /\ set_back' = (set_back \/ (candles # <<>> /\ rest[Len(rest)] < Newest))
          /\ rest' = NO_BAND /\ band' = band /\ now' = now
      BY <1>2 DEF RestArrives, CandleInv, Lists
    <2>2. rest # <<>> /\ rest[Len(rest)] \in Int
      BY <1>2, <2>1, MonitorAssumption, EmptySeq
    <2>3. candles # <<>> => Newest \in Int
      BY EmptySeq DEF CandleInv, Lists, Newest
    <2>4. Lists'
      BY <2>1 DEF CandleInv, Lists
    <2>5. ASSUME band # NO_BAND, ~set_back' PROVE band.at <= rest[Len(rest)]
      <3>1. ~set_back /\ ~(candles # <<>> /\ rest[Len(rest)] < Newest)
        BY <2>1, <2>5
      <3>2. candles # <<>> /\ band.at <= Newest
        BY <2>5, <3>1 DEF CandleInv, NewestCandleKept
      <3>3. band.at \in Int
        BY <2>5 DEF CandleInv, Lists
      <3> QED
        BY <2>2, <2>3, <3>1, <3>2, <3>3
    <2> QED
      BY <2>1, <2>2, <2>4, <2>5 DEF CandleInv, NewestCandleKept, Newest
  <1> QED
    BY <1>1, <1>2

\* A new band is of the newest candle.
LEMMA RecalculateKeepsNewest == CandleInv /\ Recalculate => CandleInv'
  <1> SUFFICES ASSUME CandleInv, Recalculate PROVE CandleInv'
    OBVIOUS
  <1>1. candles \in Seq(Int) /\ candles # <<>>
    BY MonitorAssumption, EmptySeq DEF CandleInv, Lists, Recalculate
  <1>2. Newest \in Int
    BY <1>1, EmptySeq DEF Newest
  <1>3. band'.at = Newest /\ UNCHANGED <<now, candles, rest>> /\ set_back' = FALSE
    BY DEF Recalculate
  <1>4. Lists'
    BY <1>2, <1>3 DEF CandleInv, Lists
  <1>5. candles' # <<>> /\ candles'[Len(candles')] = Newest
    BY <1>1, <1>3 DEF Newest
  <1>6. band'.at <= candles'[Len(candles')]
    BY <1>2, <1>3, <1>5
  <1> QED
    BY <1>4, <1>5, <1>6 DEF CandleInv, NewestCandleKept, Newest

\* The exchange answers with a list of candles.
LEMMA RestAnsweredKeeps == CandleInv /\ RestAnswered => CandleInv'
  <1> SUFFICES ASSUME CandleInv, RestAnswered PROVE CandleInv'
    OBVIOUS
  <1> DEFINE all == [i \in 1..now + 1 |-> i - 1]
  <1>1. now \in Nat
    BY DEF CandleInv, Lists
  <1>2. all \in Seq(Int) /\ Len(all) = now + 1
    BY <1>1
  <1>3. all # <<>>
    BY <1>1, <1>2
  <1> HIDE DEF all
  <1>4. LastOf(all) \in Seq(Int)
    BY <1>2, <1>3, LastOfEnd
  <1> QED
    BY <1>4 DEF RestAnswered, CandleInv, Lists, NewestCandleKept, Newest, all

\* The newest candle is at least as new as the band, unless an answer was noted.
LEMMA CandleStep == CandleInv /\ [MonitorNext]_monitor_vars => CandleInv'
  <1> SUFFICES ASSUME CandleInv, [MonitorNext]_monitor_vars PROVE CandleInv'
    OBVIOUS
  <1>1. CASE CandleArrives \/ ProcessTick
    <2> PICK late \in {0, 1} : candles' = Upsert(now - late)
      BY <1>1 DEF CandleArrives, ProcessTick
    <2>1. now - late \in Int
      BY DEF CandleInv, Lists
    <2>2. UNCHANGED <<now, rest, band, set_back>>
      BY <1>1 DEF CandleArrives, ProcessTick
    <2> QED
      BY <2>1, <2>2, UpsertKeeps
  <1>2. CASE RestAnswered
    BY <1>2, RestAnsweredKeeps
  <1>3. CASE RestArrives
    BY <1>3, RestArrivesKeeps
  <1>4. CASE Recalculate
    BY <1>4, RecalculateKeepsNewest
  <1>5. CASE NewCandle
    BY <1>5 DEF NewCandle, CandleInv, Lists, NewestCandleKept, Newest
  <1>6. CASE RestFails
    BY <1>6 DEF RestFails, CandleInv, Lists, NewestCandleKept, Newest
  <1>7. CASE UNCHANGED <<now, candles, rest, band, set_back>>
    BY <1>7 DEF CandleInv, Lists, NewestCandleKept, Newest
  <1> QED
    BY <1>1, <1>2, <1>3, <1>4, <1>5, <1>6, <1>7
       DEF MonitorNext, monitor_vars, TickQueued, TickConsumed, FreezeEnds

\* BandGoesBackOnlyByRest: no late trade or candle takes a band back, only an old answer
\* to _sync_candles_from_rest.
THEOREM BandCorrect == MonitorSpec => BandGoesBackOnlyByRest
  <1>1. CandleInv /\ [MonitorNext]_monitor_vars
          => [band # NO_BAND /\ band' # NO_BAND /\ band'.at < band.at => set_back]_monitor_vars
    <2> SUFFICES ASSUME CandleInv, MonitorNext,
                        band # NO_BAND, band' # NO_BAND, band'.at < band.at
                 PROVE  set_back
      OBVIOUS
    <2>1. band.at \in Int
      BY DEF CandleInv, Lists
    <2>2. CASE Recalculate
      <3>1. candles \in Seq(Int) /\ candles # <<>>
        BY <2>2, MonitorAssumption, EmptySeq DEF CandleInv, Lists, Recalculate
      <3>2. band'.at = Newest /\ Newest \in Int
        BY <2>2, <3>1, EmptySeq DEF Recalculate, Newest
      <3> QED
        BY <2>1, <3>2 DEF CandleInv, NewestCandleKept
    <2>3. CASE band' = band
      BY <2>1, <2>3
    <2> QED
      BY <2>2, <2>3 DEF MonitorNext, NewCandle, CandleArrives, RestAnswered, RestArrives,
         RestFails, ProcessTick, TickQueued, TickConsumed, FreezeEnds
  <1> QED
    BY <1>1, CandleInit, CandleStep, PTL DEF MonitorSpec, BandGoesBackOnlyByRest

-----------------------------------------------------------------------------
(* Induction.  A set of naturals that is closed under the successor but    *)
(* bounded would be mapped into itself, one to one, by the successor; a    *)
(* finite set so mapped is mapped onto itself, but nothing is before 0.    *)

\* A set of numbers that has 0, and with a number below n the next one, has n.
LEMMA UpTo ==
  ASSUME NEW S, NEW n \in Nat, 0 \in S,
         \A k \in 0..n : k < n /\ k \in S => k + 1 \in S
  PROVE  n \in S
<1> SUFFICES ASSUME n \notin S PROVE FALSE
  OBVIOUS
<1> DEFINE U == {k \in 0..n : k \in S}
           next == [k \in U |-> k + 1]
<1>1. IsFiniteSet(U)
  <2>1. U \in SUBSET Nat /\ \A k \in U : k <= n
    OBVIOUS
  <2> QED BY <2>1, FS_BoundedSetOfNaturals
<1>2. next \in Injection(U, U)
  <2>1. next \in [U -> U]
    <3> SUFFICES ASSUME NEW k \in U PROVE k + 1 \in U
      OBVIOUS
    <3> QED OBVIOUS
  <2>2. \A x, y \in U : next[x] = next[y] => x = y
    OBVIOUS
  <2> QED BY <2>1, <2>2, Fun_IsInj
<1>3. next \in Surjection(U, U)
  BY <1>1, <1>2, FS_Injection
<1>4. \E k \in U : next[k] = 0
  <2>1. 0 \in U
    OBVIOUS
  <2> QED BY <1>3, <2>1 DEF Surjection
<1> QED BY <1>4

-----------------------------------------------------------------------------
(* Sums.                                                                   *)

\* f holds the sums of the first so many of s.
Sums(f, s) ==
  /\ f \in [0..Len(s) -> Int]
  /\ f[0] = 0
  /\ \A n \in 1..Len(s) : f[n] = f[n - 1] + s[n]

\* Every sequence of numbers has its sums.
LEMMA SumsExist == ASSUME NEW s \in Seq(Int) PROVE \E f : Sums(f, s)
<1> DEFINE N == Len(s)
           Partial(f, n) == /\ f \in [0..n -> Int] /\ f[0] = 0
                            /\ \A k \in 1..n : f[k] = f[k - 1] + s[k]
           S == {n \in 0..N : \E f \in [0..n -> Int] : Partial(f, n)}
<1>1. N \in Nat /\ \A k \in 1..N : s[k] \in Int
  BY LenProperties, ElementOfSeq
<1>2. 0 \in S
  <2>1. [k \in 0..0 |-> 0] \in [0..0 -> Int] /\ Partial([k \in 0..0 |-> 0], 0)
    OBVIOUS
  <2>2. \E f \in [0..0 -> Int] : Partial(f, 0)
    BY <2>1
  <2> HIDE DEF Partial, N
  <2> QED BY <1>1, <2>2
<1>3. ASSUME NEW k \in 0..N, k < N, k \in S PROVE k + 1 \in S
  <2>1. PICK f \in [0..k -> Int] : Partial(f, k)
    BY <1>3
  <2> DEFINE g == [j \in 0..k+1 |-> IF j = k + 1 THEN f[k] + s[k + 1] ELSE f[j]]
  <2>2. g \in [0..k+1 -> Int]
    BY <1>1, <1>3, <2>1
  <2>3. g[0] = 0 /\ \A j \in 1..k+1 : g[j] = g[j - 1] + s[j]
    BY <1>1, <1>3, <2>1
  <2>4. Partial(g, k + 1)
    BY <2>2, <2>3
  <2>5. k + 1 \in 0..N
    BY <1>1, <1>3
  <2> HIDE DEF g, Partial
  <2> QED BY <2>2, <2>4, <2>5
<1>4. N \in S
  <2> HIDE DEF S, N
  <2> QED BY <1>1, <1>2, <1>3, UpTo
<1>5. PICK f \in [0..N -> Int] : Partial(f, N)
  BY <1>4
<1> QED BY <1>5 DEF Sums

\* The sum is the last of them, whatever function holds them.
LEMMA SumIs ==
  ASSUME NEW s \in Seq(Int), NEW f, Sums(f, s)
  PROVE  SumOf(s) = f[Len(s)] /\ SumOf(s) \in Int
<1> DEFINE N == Len(s)
           Recurs(h) == h = [n \in 0..N |-> IF n = 0 THEN 0 ELSE h[n - 1] + s[n]]
           sum == CHOOSE h : Recurs(h)
<1>1. N \in Nat /\ \A k \in 1..N : s[k] \in Int
  BY LenProperties, ElementOfSeq
<1>2. Recurs(f)
  BY <1>1 DEF Sums
<1>3. Recurs(sum)
  <2> HIDE DEF Recurs
  <2> QED BY <1>2
<1>4. sum[N] = f[N]
  <2> HIDE DEF sum
  <2> DEFINE S == {n \in 0..N : sum[n] = f[n]}
  <2>1. 0 \in S
    BY <1>1, <1>3 DEF Sums
  <2>2. ASSUME NEW k \in 0..N, k < N, k \in S PROVE k + 1 \in S
    <3>1. sum[k + 1] = sum[k] + s[k + 1]
      BY <1>1, <1>3, <2>2
    <3>2. f[k + 1] = f[k] + s[k + 1]
      BY <1>1, <2>2 DEF Sums
    <3> QED BY <1>1, <2>2, <3>1, <3>2
  <2>3. N \in S
    <3> HIDE DEF S, N
    <3> QED BY <1>1, <2>1, <2>2, UpTo
  <2> QED BY <2>3
<1>5. SumOf(s) = sum[N]
  BY DEF SumOf
<1>6. f[N] \in Int
  BY <1>1 DEF Sums
<1> QED BY <1>4, <1>5, <1>6

\* t is the slice of s that begins after a and ends at b.
IsSlice(t, s, a, b) == Len(t) = b - a /\ \A i \in 1..b-a : t[i] = s[a + i]

\* The sum of a slice is a difference of sums.
LEMMA SumOfSlice ==
  ASSUME NEW s \in Seq(Int), NEW f, Sums(f, s), NEW a \in 0..Len(s), NEW b \in a..Len(s),
         NEW t \in Seq(Int), IsSlice(t, s, a, b)
  PROVE  SumOf(t) = f[b] - f[a]
<1> DEFINE g == [n \in 0..b-a |-> f[a + n] - f[a]]
<1>1. Len(s) \in Nat /\ b - a \in Nat /\ Len(t) = b - a
  BY LenProperties DEF IsSlice
<1>0. f[a] \in Int /\ \A n \in 0..Len(s) : f[n] \in Int
  BY <1>1 DEF Sums
<1>2. ASSUME NEW n \in 0..b-a PROVE f[a + n] \in Int
  <2>1. a + n \in 0..Len(s)
    BY <1>1
  <2> QED BY <1>0, <2>1
<1>3. ASSUME NEW n \in 1..b-a PROVE f[a + n] = f[a + n - 1] + s[a + n]
  <2>1. a + n \in 1..Len(s)
    BY <1>1
  <2> QED BY <2>1 DEF Sums
<1>4. Sums(g, t)
  <2>1. g \in [0..Len(t) -> Int]
    <3>1. ASSUME NEW n \in 0..b-a PROVE f[a + n] - f[a] \in Int
      <4>1. f[a + n] \in Int
        BY <1>2
      <4> QED BY <1>0, <4>1
    <3> QED BY <1>1, <3>1
  <2>2. g[0] = 0
    <3>1. a + 0 = a
      BY <1>1
    <3> QED BY <1>1, <1>0, <3>1
  <2>3. ASSUME NEW n \in 1..b-a PROVE g[n] = g[n - 1] + t[n]
    <3>1. n \in 0..b-a /\ n - 1 \in 0..b-a /\ a + (n - 1) = a + n - 1
      BY <1>1
    <3>2. g[n] = f[a + n] - f[a] /\ g[n - 1] = f[a + n - 1] - f[a]
      BY <3>1
    <3>3. t[n] = s[a + n] /\ t[n] \in Int
      BY <1>1, ElementOfSeq DEF IsSlice
    <3>4. a + n \in 0..Len(s) /\ a + n - 1 \in 0..Len(s)
      BY <1>1
    <3>5. f[a + n] \in Int /\ f[a + n - 1] \in Int
      BY <1>0, <3>4
    <3>6. f[a + n] = f[a + n - 1] + t[n]
      BY <1>3, <3>3
    <3> HIDE DEF g
    <3> QED BY <1>0, <3>2, <3>3, <3>5, <3>6
  <2> QED BY <1>1, <2>1, <2>2, <2>3 DEF Sums
<1>5. SumOf(t) = g[Len(t)]
  BY <1>4, SumIs
<1> QED BY <1>1, <1>5

\* So is the sum of what is masked but for a slice.
LEMMA SumOfMasked ==
  ASSUME NEW s \in Seq(Int), NEW f, Sums(f, s), NEW a \in 0..Len(s), NEW b \in a..Len(s),
         NEW t \in Seq(Int), Len(t) = Len(s),
         \A i \in 1..Len(s) : t[i] = IF i > a /\ i <= b THEN s[i] ELSE 0
  PROVE  SumOf(t) = f[b] - f[a]
<1> DEFINE N == Len(s)
           g == [n \in 0..N |-> IF n <= a THEN 0 ELSE IF n <= b THEN f[n] - f[a] ELSE f[b] - f[a]]
<1>1. N \in Nat /\ a \in 0..N /\ b \in 0..N /\ a <= b
  BY LenProperties
<1>2. /\ \A n \in 0..N : f[n] \in Int
      /\ \A n \in 1..N : f[n] = f[n - 1] + s[n] /\ s[n] \in Int
  BY ElementOfSeq DEF Sums
<1>3. Sums(g, t)
  <2>1. g \in [0..Len(t) -> Int]
    <3>1. ASSUME NEW n \in 0..N
          PROVE  (IF n <= a THEN 0 ELSE IF n <= b THEN f[n] - f[a] ELSE f[b] - f[a]) \in Int
      BY <1>1, <1>2
    <3> HIDE DEF N
    <3> QED BY <1>1, <3>1 DEF N
  <2>2. g[0] = 0
    BY <1>1
  <2>3. ASSUME NEW n \in 1..N PROVE g[n] = g[n - 1] + t[n]
    <3>1. /\ g[n] = IF n <= a THEN 0 ELSE IF n <= b THEN f[n] - f[a] ELSE f[b] - f[a]
          /\ g[n - 1] = IF n - 1 <= a THEN 0
                        ELSE IF n - 1 <= b THEN f[n - 1] - f[a] ELSE f[b] - f[a]
      BY <1>1
    <3>2. {f[n], f[n - 1], f[a], f[b], s[n]} \subseteq Int /\ f[n] = f[n - 1] + s[n]
      BY <1>1, <1>2
    <3>3. t[n] = IF n > a /\ n <= b THEN s[n] ELSE 0
      OBVIOUS
    <3>4. CASE n <= a
      BY <1>1, <3>1, <3>2, <3>3, <3>4
    <3>5. CASE n = a + 1
      BY <1>1, <3>1, <3>2, <3>3, <3>5
    <3>6. CASE n > a + 1 /\ n <= b
      BY <1>1, <3>1, <3>2, <3>3, <3>6
    <3>7. CASE n = b + 1
      BY <1>1, <3>1, <3>2, <3>3, <3>7
    <3>8. CASE n > b + 1
      <4>1. ~(n <= a) /\ ~(n <= b) /\ ~(n - 1 <= a) /\ ~(n - 1 <= b)
        BY <1>1, <3>8
      <4>2. g[n] = f[b] - f[a] /\ g[n - 1] = f[b] - f[a] /\ t[n] = 0
        BY <3>1, <3>3, <4>1
      <4>3. f[b] - f[a] \in Int
        BY <3>2
      <4> HIDE DEF g
      <4> QED BY <4>2, <4>3
    <3> QED BY <1>1, <3>4, <3>5, <3>6, <3>7, <3>8
  <2> QED BY <2>1, <2>2, <2>3 DEF Sums
<1>4. SumOf(t) = g[N]
  BY <1>3, SumIs
<1>5. g[N] = f[b] - f[a]
  <2>1. f[b] - f[a] \in Int /\ (a = b => f[b] - f[a] = 0)
    BY <1>1, <1>2
  <2> QED BY <1>1, <2>1
<1> QED BY <1>4, <1>5

-----------------------------------------------------------------------------
(* Deques ordered by time, and the slices that windows are.                *)

Timed(S) == \A x \in S : x.ts \in Int
Ordered(s) == \A i, j \in 1..Len(s) : i <= j => s[i].ts <= s[j].ts

\* The head of a deque is popped up to the first that is not stale.
LEMMA StaleBeforeIs ==
  ASSUME NEW S, Timed(S), NEW s \in Seq(S), NEW time \in Int
  PROVE  /\ StaleBefore(s, time) \in 0..Len(s)
         /\ \A i \in 1..StaleBefore(s, time) : s[i].ts < time
         /\ StaleBefore(s, time) < Len(s) => s[StaleBefore(s, time) + 1].ts >= time
<1> DEFINE N == Len(s)
           Head_(n) == \A i \in 1..n : s[i].ts < time
           Stops(n) == Head_(n) /\ (n < N => s[n + 1].ts >= time)
<1>1. N \in Nat /\ \A i \in 1..N : s[i].ts \in Int
  BY LenProperties, ElementOfSeq DEF Timed
<1>2. \E n \in 0..N : Stops(n)
  <2> SUFFICES ASSUME \A n \in 0..N : ~Stops(n) PROVE FALSE
    OBVIOUS
  <2> DEFINE H == {n \in 0..N : Head_(n)}
  <2>1. 0 \in H
    BY <1>1
  <2>2. ASSUME NEW k \in 0..N, k < N, k \in H PROVE k + 1 \in H
    <3>1. s[k + 1].ts < time
      BY <1>1, <2>2
    <3> QED BY <1>1, <2>2, <3>1
  <2>3. N \in H
    <3> HIDE DEF H, N
    <3> QED BY <1>1, <2>1, <2>2, UpTo
  <2> QED BY <1>1, <2>3
<1>3. StaleBefore(s, time) = CHOOSE n \in 0..N : Stops(n)
  BY DEF StaleBefore
<1> HIDE DEF Stops
<1>4. StaleBefore(s, time) \in 0..N /\ Stops(StaleBefore(s, time))
  BY <1>2, <1>3
<1> QED BY <1>4 DEF Stops

\* In a deque ordered by time, all of those after it are not stale.
LEMMA OrderedCut ==
  ASSUME NEW S, Timed(S), NEW s \in Seq(S), Ordered(s), NEW time \in Int
  PROVE  \A i \in 1..Len(s) : s[i].ts < time <=> i <= StaleBefore(s, time)
<1>1. Len(s) \in Nat /\ \A i \in 1..Len(s) : s[i].ts \in Int
  BY LenProperties, ElementOfSeq DEF Timed
<1> DEFINE c == StaleBefore(s, time)
<1>2. c \in 0..Len(s) /\ (\A i \in 1..c : s[i].ts < time) /\ (c < Len(s) => s[c + 1].ts >= time)
  BY StaleBeforeIs
<1> HIDE DEF c
<1>3. ASSUME NEW i \in 1..Len(s), i > c PROVE ~(s[i].ts < time)
  <2>1. c + 1 \in 1..Len(s) /\ c + 1 <= i /\ c < Len(s)
    BY <1>1, <1>2, <1>3
  <2>2. s[c + 1].ts <= s[i].ts
    BY <2>1 DEF Ordered
  <2> QED BY <1>1, <1>2, <2>1, <2>2
<1>4. \A i \in 1..Len(s) : s[i].ts < time <=> i <= c
  BY <1>1, <1>2, <1>3
<1> QED BY <1>4 DEF c

\* One number only cuts a deque so.
LEMMA CutIs ==
  ASSUME NEW S, Timed(S), NEW s \in Seq(S), NEW time \in Int, NEW k \in 0..Len(s),
         \A i \in 1..Len(s) : s[i].ts < time <=> i <= k
  PROVE  StaleBefore(s, time) = k
<1> DEFINE c == StaleBefore(s, time)
<1>1. Len(s) \in Nat /\ \A i \in 1..Len(s) : s[i].ts \in Int
  BY LenProperties, ElementOfSeq DEF Timed
<1>2. c \in 0..Len(s) /\ (\A i \in 1..c : s[i].ts < time) /\ (c < Len(s) => s[c + 1].ts >= time)
  BY StaleBeforeIs
<1> HIDE DEF c
<1>3. ~(c < k)
  <2> SUFFICES ASSUME c < k PROVE FALSE
    OBVIOUS
  <2>1. c + 1 \in 1..Len(s) /\ c + 1 <= k
    BY <1>1, <1>2
  <2> QED BY <1>1, <1>2, <2>1
<1>4. ~(k < c)
  BY <1>1, <1>2
<1> QED BY <1>1, <1>2, <1>3, <1>4 DEF c
Slice(c, a, b) == SubSeq(c, a + 1, b)
Clamp(k, a, b) == IF k < a THEN a ELSE IF k > b THEN b ELSE k

\* What a slice is made of.
LEMMA SliceIs ==
  ASSUME NEW S, NEW c \in Seq(S), NEW a \in 0..Len(c), NEW b \in a..Len(c)
  PROVE  Slice(c, a, b) \in Seq(S) /\ IsSlice(Slice(c, a, b), c, a, b)
<1>1. Len(c) \in Nat /\ a + 1 \in Int /\ b \in Int
  BY LenProperties
<1>2. \A i \in a + 1 .. b : c[i] \in S
  <2> SUFFICES ASSUME NEW i \in a + 1 .. b PROVE c[i] \in S
    OBVIOUS
  <2>1. i \in 1..Len(c)
    BY <1>1
  <2> QED BY <2>1, ElementOfSeq
<1> DEFINE s == SubSeq(c, a + 1, b)
<1>3. /\ s \in Seq(S)
      /\ Len(s) = IF a + 1 <= b THEN b - (a + 1) + 1 ELSE 0
      /\ \A i \in 1 .. b - (a + 1) + 1 : s[i] = c[a + 1 + i - 1]
  BY <1>1, <1>2, SubSeqProperties
<1>4. Len(s) = b - a
  BY <1>1, <1>3
<1>5. ASSUME NEW i \in 1..b-a PROVE s[i] = c[a + i]
  <2>1. i \in 1 .. b - (a + 1) + 1 /\ a + 1 + i - 1 = a + i
    BY <1>1
  <2> QED BY <1>3, <2>1
<1> QED BY <1>3, <1>4, <1>5 DEF IsSlice, Slice

\* It is the only sequence made of that.
LEMMA SliceUnique ==
  ASSUME NEW S, NEW c \in Seq(S), NEW a \in 0..Len(c), NEW b \in a..Len(c),
         NEW s \in Seq(S), IsSlice(s, c, a, b)
  PROVE  s = Slice(c, a, b)
<1> DEFINE t == Slice(c, a, b)
<1>1. t \in Seq(S) /\ IsSlice(t, c, a, b)
  BY SliceIs
<1>2. Len(s) = Len(t) /\ \A i \in 1..Len(s) : s[i] = t[i]
  BY <1>1 DEF IsSlice
<1> HIDE DEF t
<1>3. s = t
  BY <1>1, <1>2, SeqEqual
<1> QED BY <1>3 DEF t

\* A whole is a slice of itself.
LEMMA SliceWhole ==
  ASSUME NEW S, NEW c \in Seq(S) PROVE c = Slice(c, 0, Len(c))
<1>1. Len(c) \in Nat
  BY LenProperties
<1>2. IsSlice(c, c, 0, Len(c))
  BY <1>1 DEF IsSlice
<1> QED BY <1>1, <1>2, SliceUnique

\* A slice of a slice is one of the whole.
LEMMA SliceOfSlice ==
  ASSUME NEW S, NEW c \in Seq(S), NEW a \in 0..Len(c), NEW b \in a..Len(c),
         NEW p \in a..b, NEW q \in p..b
  PROVE  Slice(Slice(c, a, b), p - a, q - a) = Slice(c, p, q)
<1> DEFINE s == Slice(c, a, b)
           t == Slice(s, p - a, q - a)
<1>1. Len(c) \in Nat
  BY LenProperties
<1>2. s \in Seq(S) /\ Len(s) = b - a /\ \A i \in 1..b-a : s[i] = c[a + i]
  BY SliceIs DEF IsSlice
<1> HIDE DEF s
<1>3. p - a \in 0..Len(s) /\ q - a \in (p - a)..Len(s) /\ p \in 0..Len(c) /\ q \in p..Len(c)
  BY <1>1, <1>2
<1>4. t \in Seq(S) /\ IsSlice(t, s, p - a, q - a)
  BY <1>2, <1>3, SliceIs
<1>5. Len(t) = q - p
  BY <1>1, <1>4 DEF IsSlice
<1>6. ASSUME NEW i \in 1..q-p PROVE t[i] = c[p + i]
  <2>1. i \in 1..(q - a) - (p - a) /\ (p - a) + i \in 1..b-a /\ a + ((p - a) + i) = p + i
    BY <1>1
  <2>2. t[i] = s[(p - a) + i]
    BY <1>4, <2>1 DEF IsSlice
  <2>3. s[(p - a) + i] = c[a + ((p - a) + i)]
    BY <1>2, <2>1
  <2> QED BY <2>1, <2>2, <2>3
<1> HIDE DEF t
<1>7. t = Slice(c, p, q)
  BY <1>3, <1>4, <1>5, <1>6, SliceUnique DEF IsSlice
<1> QED BY <1>7 DEF t, s

\* Two slices that meet are one.
LEMMA SliceConcat ==
  ASSUME NEW S, NEW c \in Seq(S), NEW a \in 0..Len(c), NEW b \in a..Len(c), NEW d \in b..Len(c)
  PROVE  Slice(c, a, b) \o Slice(c, b, d) = Slice(c, a, d)
<1>1. Len(c) \in Nat
  BY LenProperties
<1>2. a + 1 \in 1..Len(c) + 1 /\ b \in a + 1 - 1 .. Len(c) /\ d \in b..Len(c)
  BY <1>1
<1> QED BY <1>2, ConcatAdjacentSubSeq DEF Slice

\* What is appended to a slice at the end is appended to the whole.
LEMMA SliceAppend ==
  ASSUME NEW S, NEW c \in Seq(S), NEW e \in S, NEW a \in 0..Len(c)
  PROVE  /\ Append(c, e) \in Seq(S) /\ Len(Append(c, e)) = Len(c) + 1
         /\ Append(Slice(c, a, Len(c)), e) = Slice(Append(c, e), a, Len(c) + 1)
         /\ \A b \in a..Len(c) : Slice(c, a, b) = Slice(Append(c, e), a, b)
<1> DEFINE d == Append(c, e)
           n == Len(c)
<1>1. n \in Nat /\ n \in a..n
  BY LenProperties
<1>2. d \in Seq(S) /\ Len(d) = n + 1 /\ d[n + 1] = e /\ \A i \in 1..n : d[i] = c[i]
  BY AppendProperties
<1> HIDE DEF d
<1>3. ASSUME NEW b \in a..n PROVE Slice(c, a, b) = Slice(d, a, b)
  <2>1. Slice(c, a, b) \in Seq(S) /\ IsSlice(Slice(c, a, b), c, a, b)
    BY SliceIs
  <2>2. a \in 0..Len(d) /\ b \in a..Len(d)
    BY <1>1, <1>2
  <2>3. \A i \in 1..b-a : a + i \in 1..n
    BY <1>1
  <2>4. IsSlice(Slice(c, a, b), d, a, b)
    BY <1>2, <2>1, <2>3 DEF IsSlice
  <2> QED BY <1>2, <2>1, <2>2, <2>4, SliceUnique
<1>4. Append(Slice(c, a, n), e) = Slice(d, a, n + 1)
  <2> DEFINE s == Slice(c, a, n)
             t == Append(s, e)
  <2>1. s \in Seq(S) /\ Len(s) = n - a /\ \A i \in 1..n-a : s[i] = c[a + i]
    BY <1>1, SliceIs DEF IsSlice
  <2> HIDE DEF s
  <2>2. /\ t \in Seq(S) /\ Len(t) = n - a + 1
        /\ \A i \in 1..n-a : t[i] = s[i]
        /\ t[n - a + 1] = e
    BY <2>1, AppendProperties
  <2> HIDE DEF t
  <2>3. a \in 0..Len(d) /\ n + 1 \in a..Len(d) /\ Len(t) = n + 1 - a
    BY <1>1, <1>2, <2>2
  <2>4. ASSUME NEW i \in 1..n+1-a PROVE t[i] = d[a + i]
    <3>1. CASE i = n - a + 1
      <4>1. a + i = n + 1
        BY <1>1, <3>1
      <4> QED BY <1>2, <2>2, <3>1, <4>1
    <3>2. CASE i \in 1..n-a
      <4>1. a + i \in 1..n
        BY <1>1, <3>2
      <4> QED BY <1>2, <2>1, <2>2, <3>2, <4>1
    <3> QED BY <1>1, <3>1, <3>2
  <2>5. IsSlice(t, d, a, n + 1)
    BY <2>3, <2>4 DEF IsSlice
  <2>6. t = Slice(d, a, n + 1)
    BY <1>2, <2>2, <2>3, <2>5, SliceUnique
  <2> QED BY <2>6 DEF t, s
<1> QED BY <1>2, <1>3, <1>4 DEF d

\* The head of a slice that is stale ends where that of the whole does.
LEMMA SliceCut ==
  ASSUME NEW S, Timed(S), NEW c \in Seq(S), Ordered(c), NEW time \in Int,
         NEW a \in 0..Len(c), NEW b \in a..Len(c)
  PROVE  LET k == Clamp(StaleBefore(c, time), a, b)
         IN  /\ k \in a..b
             /\ Stale(Slice(c, a, b), time) = Slice(c, a, k)
             /\ Kept(Slice(c, a, b), time) = Slice(c, k, b)
<1> DEFINE s == Slice(c, a, b)
           h == StaleBefore(c, time)
           k == Clamp(h, a, b)
<1>1. Len(c) \in Nat
  BY LenProperties
<1>2. h \in 0..Len(c) /\ \A i \in 1..Len(c) : c[i].ts < time <=> i <= h
  BY StaleBeforeIs, OrderedCut
<1>3. s \in Seq(S) /\ Len(s) = b - a /\ \A i \in 1..b-a : s[i] = c[a + i]
  BY SliceIs DEF IsSlice
<1> HIDE DEF h, s
<1>4. k \in a..b /\ k - a \in 0..Len(s)
  BY <1>1, <1>2, <1>3 DEF Clamp
<1>5. ASSUME NEW i \in 1..Len(s) PROVE s[i].ts < time <=> i <= k - a
  <2>1. i \in 1..b-a /\ a + i \in 1..Len(c)
    BY <1>1, <1>3
  <2>2. s[i].ts < time <=> a + i <= h
    BY <1>2, <1>3, <2>1
  <2>3. a + i <= h <=> i <= k - a
    BY <1>1, <1>2, <2>1 DEF Clamp
  <2> QED BY <2>2, <2>3
<1> HIDE DEF k
<1>6. StaleBefore(s, time) = k - a
  BY <1>3, <1>4, <1>5, CutIs
<1>7. Stale(s, time) = Slice(s, a - a, k - a) /\ Kept(s, time) = Slice(s, k - a, b - a)
  <2>1. a - a + 1 = 1 /\ b - a = Len(s)
    BY <1>1, <1>3
  <2> QED BY <1>6, <2>1 DEF Stale, Kept, Slice
<1>8. a \in a..b /\ k \in a..b /\ b \in k..b
  BY <1>1, <1>4
<1>9. Slice(s, a - a, k - a) = Slice(c, a, k) /\ Slice(s, k - a, b - a) = Slice(c, k, b)
  BY <1>8, SliceOfSlice DEF s
<1> QED BY <1>4, <1>7, <1>9 DEF k, h, s

-----------------------------------------------------------------------------
(* Sums over trades and samples.                                           *)

Trades == [ts : Nat, price : TradePrices, buy : 0..1, sell : 0..1]
RangeSamples == [ts : Nat, range : Int]

\* Trades and samples have a time.
LEMMA TradesAreTimed == Timed(Trades) /\ Timed(RangeSamples)
  BY DEF Timed, Trades, RangeSamples

\* The numbers that are added up.
LEMMA ValuesOf ==
  /\ \A c \in Seq(Trades) :
       /\ Flows(c) \in Seq(Int) /\ Len(Flows(c)) = Len(c)
       /\ \A i \in 1..Len(c) : Flows(c)[i] = Signed(c[i])
       /\ Sizes(c) \in Seq(Int) /\ Len(Sizes(c)) = Len(c)
       /\ \A i \in 1..Len(c) : Sizes(c)[i] = Volume(c[i])
  /\ \A c \in Seq(RangeSamples) :
       /\ Samples(c) \in Seq(Int) /\ Len(Samples(c)) = Len(c)
       /\ \A i \in 1..Len(c) : Samples(c)[i] = c[i].range
<1>1. ASSUME NEW n \in Nat, NEW g \in [1..n -> Int] PROVE g \in Seq(Int) /\ Len(g) = n
  OBVIOUS
<1>2. ASSUME NEW c \in Seq(Trades)
      PROVE  Flows(c) \in [1..Len(c) -> Int] /\ Sizes(c) \in [1..Len(c) -> Int]
  <2>1. \A i \in 1..Len(c) : c[i] \in Trades
    BY ElementOfSeq
  <2>2. \A e \in Trades : Signed(e) \in Int /\ Volume(e) \in Int
    BY DEF Trades, Signed, Volume
  <2>3. \A i \in 1..Len(c) : Signed(c[i]) \in Int /\ Volume(c[i]) \in Int
    BY <2>1, <2>2
  <2> QED BY <2>3 DEF Flows, Sizes
<1>3. ASSUME NEW c \in Seq(RangeSamples) PROVE Samples(c) \in [1..Len(c) -> Int]
  <2>1. \A i \in 1..Len(c) : c[i] \in RangeSamples
    BY ElementOfSeq
  <2> QED BY <2>1 DEF Samples, RangeSamples
<1>4. ASSUME NEW c \in Seq(Trades)
      PROVE  /\ Flows(c) \in Seq(Int) /\ Len(Flows(c)) = Len(c)
             /\ \A i \in 1..Len(c) : Flows(c)[i] = Signed(c[i])
             /\ Sizes(c) \in Seq(Int) /\ Len(Sizes(c)) = Len(c)
             /\ \A i \in 1..Len(c) : Sizes(c)[i] = Volume(c[i])
  <2>1. Len(c) \in Nat
    BY LenProperties
  <2>2. \A i \in 1..Len(c) : Flows(c)[i] = Signed(c[i]) /\ Sizes(c)[i] = Volume(c[i])
    BY DEF Flows, Sizes
  <2> QED BY <1>1, <1>2, <2>1, <2>2
<1>5. ASSUME NEW c \in Seq(RangeSamples)
      PROVE  /\ Samples(c) \in Seq(Int) /\ Len(Samples(c)) = Len(c)
             /\ \A i \in 1..Len(c) : Samples(c)[i] = c[i].range
  <2>1. Len(c) \in Nat
    BY LenProperties
  <2>2. \A i \in 1..Len(c) : Samples(c)[i] = c[i].range
    BY DEF Samples
  <2> QED BY <1>1, <1>3, <2>1, <2>2
<1> QED BY <1>4, <1>5

\* The values of a slice are a slice of the values.
LEMMA ValuesOfSlice ==
  /\ \A c \in Seq(Trades) : \A a \in 0..Len(c) : \A b \in a..Len(c) :
       /\ IsSlice(Flows(Slice(c, a, b)), Flows(c), a, b)
       /\ IsSlice(Sizes(Slice(c, a, b)), Sizes(c), a, b)
  /\ \A c \in Seq(RangeSamples) : \A a \in 0..Len(c) : \A b \in a..Len(c) :
       IsSlice(Samples(Slice(c, a, b)), Samples(c), a, b)
<1>1. ASSUME NEW c \in Seq(Trades), NEW a \in 0..Len(c), NEW b \in a..Len(c)
      PROVE  /\ IsSlice(Flows(Slice(c, a, b)), Flows(c), a, b)
             /\ IsSlice(Sizes(Slice(c, a, b)), Sizes(c), a, b)
  <2> DEFINE s == Slice(c, a, b)
  <2>1. s \in Seq(Trades) /\ Len(s) = b - a /\ \A i \in 1..b-a : s[i] = c[a + i]
    BY SliceIs DEF IsSlice
  <2>2. \A i \in 1..b-a : a + i \in 1..Len(c)
    BY LenProperties
  <2> HIDE DEF s
  <2>3. ASSUME NEW i \in 1..b-a
        PROVE  Flows(s)[i] = Flows(c)[a + i] /\ Sizes(s)[i] = Sizes(c)[a + i]
    <3>1. i \in 1..Len(s) /\ a + i \in 1..Len(c) /\ s[i] = c[a + i]
      BY <2>1, <2>2
    <3>2. Flows(s)[i] = Signed(s[i]) /\ Sizes(s)[i] = Volume(s[i])
      BY <2>1, <3>1, ValuesOf
    <3>3. Flows(c)[a + i] = Signed(c[a + i]) /\ Sizes(c)[a + i] = Volume(c[a + i])
      BY <3>1, ValuesOf
    <3> QED BY <3>1, <3>2, <3>3
  <2>4. IsSlice(Flows(s), Flows(c), a, b) /\ IsSlice(Sizes(s), Sizes(c), a, b)
    BY <2>1, <2>3, ValuesOf DEF IsSlice
  <2> QED BY <2>4 DEF s
<1>2. ASSUME NEW c \in Seq(RangeSamples), NEW a \in 0..Len(c), NEW b \in a..Len(c)
      PROVE  IsSlice(Samples(Slice(c, a, b)), Samples(c), a, b)
  <2> DEFINE s == Slice(c, a, b)
  <2>1. s \in Seq(RangeSamples) /\ Len(s) = b - a /\ \A i \in 1..b-a : s[i] = c[a + i]
    BY SliceIs DEF IsSlice
  <2>2. \A i \in 1..b-a : a + i \in 1..Len(c)
    BY LenProperties
  <2> HIDE DEF s
  <2>3. ASSUME NEW i \in 1..b-a PROVE Samples(s)[i] = Samples(c)[a + i]
    <3>1. i \in 1..Len(s) /\ a + i \in 1..Len(c) /\ s[i] = c[a + i]
      BY <2>1, <2>2
    <3>2. Samples(s)[i] = s[i].range
      BY <2>1, <3>1, ValuesOf
    <3>3. Samples(c)[a + i] = c[a + i].range
      BY <3>1, ValuesOf
    <3> QED BY <3>1, <3>2, <3>3
  <2>4. IsSlice(Samples(s), Samples(c), a, b)
    BY <2>1, <2>3, ValuesOf DEF IsSlice
  <2> QED BY <2>4 DEF s
<1> QED BY <1>1, <1>2

\* What a sum becomes when a slice is split.
LEMMA SumSplits ==
  ASSUME NEW s \in Seq(Int), NEW a \in 0..Len(s), NEW b \in a..Len(s), NEW d \in b..Len(s),
         NEW t \in Seq(Int), IsSlice(t, s, a, d),
         NEW u \in Seq(Int), IsSlice(u, s, a, b),
         NEW v \in Seq(Int), IsSlice(v, s, b, d)
  PROVE  SumOf(t) = SumOf(u) + SumOf(v) /\ SumOf(u) \in Int /\ SumOf(v) \in Int
<1>1. PICK f : Sums(f, s)
  BY SumsExist
<1>2. Len(s) \in Nat
  BY LenProperties
<1>3. b \in 0..Len(s) /\ d \in a..Len(s) /\ d \in 0..Len(s)
  BY <1>2
<1>4. SumOf(t) = f[d] - f[a] /\ SumOf(u) = f[b] - f[a] /\ SumOf(v) = f[d] - f[b]
  BY <1>1, <1>3, SumOfSlice
<1>5. f[a] \in Int /\ f[b] \in Int /\ f[d] \in Int
  BY <1>1, <1>3 DEF Sums
<1> QED BY <1>4, <1>5

\* The flow and the volume of a slice are those of its two parts.
LEMMA FlowSplits ==
  ASSUME NEW c \in Seq(Trades), NEW a \in 0..Len(c), NEW b \in a..Len(c), NEW d \in b..Len(c)
  PROVE  /\ Fast(Slice(c, a, d)) = Fast(Slice(c, a, b)) + Fast(Slice(c, b, d))
         /\ Volumes(Slice(c, a, d)) = Volumes(Slice(c, a, b)) + Volumes(Slice(c, b, d))
         /\ {Fast(Slice(c, a, b)), Fast(Slice(c, b, d)),
             Volumes(Slice(c, a, b)), Volumes(Slice(c, b, d))} \subseteq Int
<1>1. Len(c) \in Nat
  BY LenProperties
<1>2. b \in 0..Len(c) /\ d \in a..Len(c)
  BY <1>1
<1>3. {Slice(c, a, b), Slice(c, b, d), Slice(c, a, d)} \subseteq Seq(Trades)
  BY <1>2, SliceIs
<1>4. {Flows(c), Flows(Slice(c, a, b)), Flows(Slice(c, b, d)), Flows(Slice(c, a, d)),
       Sizes(c), Sizes(Slice(c, a, b)), Sizes(Slice(c, b, d)), Sizes(Slice(c, a, d))}
        \subseteq Seq(Int) /\ Len(Flows(c)) = Len(c) /\ Len(Sizes(c)) = Len(c)
  BY <1>3, ValuesOf
<1>5. /\ IsSlice(Flows(Slice(c, a, d)), Flows(c), a, d)
      /\ IsSlice(Flows(Slice(c, a, b)), Flows(c), a, b)
      /\ IsSlice(Flows(Slice(c, b, d)), Flows(c), b, d)
      /\ IsSlice(Sizes(Slice(c, a, d)), Sizes(c), a, d)
      /\ IsSlice(Sizes(Slice(c, a, b)), Sizes(c), a, b)
      /\ IsSlice(Sizes(Slice(c, b, d)), Sizes(c), b, d)
  BY <1>2, ValuesOfSlice
<1>6. /\ Fast(Slice(c, a, d)) = Fast(Slice(c, a, b)) + Fast(Slice(c, b, d))
      /\ Fast(Slice(c, a, b)) \in Int /\ Fast(Slice(c, b, d)) \in Int
  BY <1>4, <1>5, SumSplits DEF Fast
<1>7. /\ Volumes(Slice(c, a, d)) = Volumes(Slice(c, a, b)) + Volumes(Slice(c, b, d))
      /\ Volumes(Slice(c, a, b)) \in Int /\ Volumes(Slice(c, b, d)) \in Int
  BY <1>4, <1>5, SumSplits DEF Volumes
<1> QED BY <1>6, <1>7

\* The ranges of a sequence are those of its two parts.
LEMMA SamplesSplit ==
  ASSUME NEW c \in Seq(RangeSamples), NEW k \in 0..Len(c)
  PROVE  /\ RangesOf(c) = RangesOf(Slice(c, 0, k)) + RangesOf(Slice(c, k, Len(c)))
         /\ RangesOf(Slice(c, 0, k)) \in Int /\ RangesOf(Slice(c, k, Len(c))) \in Int
<1>1. Len(c) \in Nat
  BY LenProperties
<1>2. 0 \in 0..Len(c) /\ Len(c) \in 0..Len(c) /\ Len(c) \in k..Len(c)
  BY <1>1
<1>3. {c, Slice(c, 0, k), Slice(c, k, Len(c))} \subseteq Seq(RangeSamples)
  BY <1>2, SliceIs
<1>4. {Samples(c), Samples(Slice(c, 0, k)), Samples(Slice(c, k, Len(c)))} \subseteq Seq(Int)
      /\ Len(Samples(c)) = Len(c)
  BY <1>3, ValuesOf
<1>5. IsSlice(Samples(c), Samples(c), 0, Len(c))
  <2>1. Len(Samples(c)) = Len(c) - 0 /\ \A i \in 1..Len(c) - 0 : Samples(c)[i] = Samples(c)[0 + i]
    BY <1>1, <1>4
  <2> QED BY <2>1 DEF IsSlice
<1>6. IsSlice(Samples(Slice(c, 0, k)), Samples(c), 0, k)
  BY <1>2, ValuesOfSlice
<1>7. IsSlice(Samples(Slice(c, k, Len(c))), Samples(c), k, Len(c))
  BY <1>2, ValuesOfSlice
<1>8. 0 \in 0..Len(Samples(c)) /\ k \in 0..Len(Samples(c)) /\ Len(c) \in k..Len(Samples(c))
  BY <1>1, <1>2, <1>4
<1> DEFINE s == Samples(c)
           u == Samples(Slice(c, 0, k))
           v == Samples(Slice(c, k, Len(c)))
<1>9. /\ s \in Seq(Int) /\ u \in Seq(Int) /\ v \in Seq(Int)
      /\ IsSlice(s, s, 0, Len(c)) /\ IsSlice(u, s, 0, k) /\ IsSlice(v, s, k, Len(c))
      /\ 0 \in 0..Len(s) /\ k \in 0..Len(s) /\ Len(c) \in k..Len(s)
  BY <1>4, <1>5, <1>6, <1>7, <1>8
<1> HIDE DEF s, u, v
<1>10. SumOf(s) = SumOf(u) + SumOf(v) /\ SumOf(u) \in Int /\ SumOf(v) \in Int
  BY <1>9, SumSplits
<1> QED BY <1>10 DEF RangesOf, s, u, v

-----------------------------------------------------------------------------
(* A trade is counted: the windows move on.                                *)

\* Those that were stale are stale later.
LEMMA CutGrows ==
  ASSUME NEW S, Timed(S), NEW c \in Seq(S), NEW e \in S, Ordered(Append(c, e)),
         NEW old \in Int, NEW new \in Int, old <= new
  PROVE  /\ Ordered(c)
         /\ Append(c, e) \in Seq(S) /\ Len(Append(c, e)) = Len(c) + 1 /\ Len(c) \in Nat
         /\ StaleBefore(c, old) \in 0..Len(c)
         /\ StaleBefore(Append(c, e), new) \in StaleBefore(c, old)..Len(c) + 1
<1> DEFINE d == Append(c, e)
           h == StaleBefore(c, old)
           k == StaleBefore(d, new)
<1>1. Len(c) \in Nat /\ \A i \in 1..Len(c) : c[i].ts \in Int
  BY LenProperties, ElementOfSeq DEF Timed
<1>2. /\ d \in Seq(S) /\ Len(d) = Len(c) + 1 /\ \A i \in 1..Len(c) : d[i] = c[i]
      /\ Ordered(d)
  BY AppendProperties
<1> HIDE DEF d
<1>3. Ordered(c)
  BY <1>1, <1>2 DEF Ordered
<1>4. h \in 0..Len(c) /\ \A i \in 1..Len(c) : c[i].ts < old <=> i <= h
  BY <1>3, StaleBeforeIs, OrderedCut
<1>5. k \in 0..Len(c) + 1 /\ \A i \in 1..Len(c) + 1 : d[i].ts < new <=> i <= k
  BY <1>2, StaleBeforeIs, OrderedCut
<1> HIDE DEF h, k
<1>6. h <= k
  <2>1. CASE h = 0
    BY <1>1, <1>5, <2>1
  <2>2. CASE h # 0
    <3>1. h \in 1..Len(c) /\ h \in 1..Len(c) + 1
      BY <1>1, <1>4, <2>2
    <3>2. d[h].ts < new
      BY <1>1, <1>2, <1>4, <3>1
    <3> QED BY <1>5, <3>1, <3>2
  <2> QED BY <2>1, <2>2
<1> QED BY <1>1, <1>2, <1>3, <1>4, <1>5, <1>6 DEF d, h, k

\* A window that reaches to the last trade.
LEMMA NextWindow ==
  ASSUME NEW S, Timed(S), NEW c \in Seq(S), NEW e \in S, Ordered(Append(c, e)),
         NEW old \in Int, NEW new \in Int, old <= new
  PROVE  LET d == Append(c, e)
             h == StaleBefore(c, old)
             k == StaleBefore(d, new)
             s == Append(Kept(c, old), e)
         IN  /\ s = Slice(d, h, Len(c) + 1) /\ Kept(c, old) = Slice(d, h, Len(c))
             /\ Stale(s, new) = Slice(d, h, k) /\ Kept(s, new) = Slice(d, k, Len(c) + 1)
             /\ Kept(s, new) = Kept(d, new)
<1> DEFINE d == Append(c, e)
           h == StaleBefore(c, old)
           k == StaleBefore(d, new)
           s == Append(Kept(c, old), e)
           n == Len(c)
<1>1. /\ d \in Seq(S) /\ Len(d) = n + 1 /\ n \in Nat /\ Ordered(d)
      /\ h \in 0..n /\ k \in h..n + 1
  BY CutGrows
<1>2. Kept(c, old) = Slice(c, h, n)
  BY DEF Kept, Slice
<1>3. s = Slice(d, h, n + 1) /\ Slice(c, h, n) = Slice(d, h, n)
  BY <1>1, <1>2, SliceAppend
<1> HIDE DEF d, h, s, k
<1>4. h \in 0..Len(d) /\ n + 1 \in h..Len(d)
  BY <1>1
<1>5. Clamp(k, h, n + 1) = k
  BY <1>1 DEF Clamp
<1>6. Stale(s, new) = Slice(d, h, k) /\ Kept(s, new) = Slice(d, k, n + 1)
  <2>1. /\ Stale(Slice(d, h, n + 1), new) = Slice(d, h, Clamp(k, h, n + 1))
        /\ Kept(Slice(d, h, n + 1), new) = Slice(d, Clamp(k, h, n + 1), n + 1)
    BY <1>1, <1>4, SliceCut DEF k
  <2> QED BY <1>3, <1>5, <2>1
<1>7. Kept(d, new) = Slice(d, k, n + 1)
  BY <1>1 DEF Kept, Slice, k
<1> QED BY <1>2, <1>3, <1>6, <1>7 DEF d, h, s, k

\* The baseline: a window that ends where the recent trades begin.
Baseline(c, first, end) == Slice(c, StaleBefore(c, first), StaleBefore(c, end))

\* What is before an earlier time is not beyond what is before a later one.
LEMMA EarlierCut ==
  ASSUME NEW S, Timed(S), NEW c \in Seq(S), Ordered(c), NEW first \in Int, NEW end \in Int,
         first <= end
  PROVE  StaleBefore(c, first) \in 0..Len(c) /\ StaleBefore(c, end) \in StaleBefore(c, first)..Len(c)
<1> DEFINE p == StaleBefore(c, first)
           q == StaleBefore(c, end)
<1>1. Len(c) \in Nat /\ \A i \in 1..Len(c) : c[i].ts \in Int
  BY LenProperties, ElementOfSeq DEF Timed
<1>2. p \in 0..Len(c) /\ \A i \in 1..Len(c) : c[i].ts < first <=> i <= p
  BY StaleBeforeIs, OrderedCut
<1>3. q \in 0..Len(c) /\ \A i \in 1..Len(c) : c[i].ts < end <=> i <= q
  BY StaleBeforeIs, OrderedCut
<1> HIDE DEF p, q
<1>4. p <= q
  <2>1. CASE p = 0
    BY <1>1, <1>3, <2>1
  <2>2. CASE p # 0
    <3>1. p \in 1..Len(c)
      BY <1>1, <1>2, <2>2
    <3>2. c[p].ts < end
      BY <1>1, <1>2, <3>1
    <3> QED BY <1>3, <3>1, <3>2
  <2> QED BY <2>1, <2>2
<1> QED BY <1>1, <1>2, <1>3, <1>4 DEF p, q

\* Both ends of the baseline have moved on.
Forward(first, end, first2, end2) ==
  /\ first \in Int /\ end \in Int /\ first <= end
  /\ first2 \in Int /\ end2 \in Int /\ first2 <= end2
  /\ first <= first2 /\ end <= end2

\* What leaves the recent trades enters the baseline, whose own head leaves it.
LEMMA NextBaseline ==
  ASSUME NEW c \in Seq(Trades), NEW e \in Trades, Ordered(Append(c, e)),
         NEW first, NEW end, NEW first2, NEW end2, Forward(first, end, first2, end2)
  PROVE  LET d == Append(c, e)
             p == StaleBefore(c, first)
             q == StaleBefore(c, end)
             r == StaleBefore(d, first2)
             z == StaleBefore(d, end2)
             s == Baseline(c, first, end) \o Stale(Append(Kept(c, end), e), end2)
         IN  /\ Baseline(c, first, end) = Slice(d, p, q)
             /\ Stale(Append(Kept(c, end), e), end2) = Slice(d, q, z)
             /\ Stale(s, first2) = Slice(d, p, r) /\ Kept(s, first2) = Slice(d, r, z)
             /\ Kept(s, first2) = Baseline(d, first2, end2)
             /\ p \in 0..Len(d) /\ q \in p..Len(d) /\ r \in p..z /\ z \in q..Len(d)
<1> DEFINE d == Append(c, e)
           p == StaleBefore(c, first)
           q == StaleBefore(c, end)
           r == StaleBefore(d, first2)
           z == StaleBefore(d, end2)
           s == Baseline(c, first, end) \o Stale(Append(Kept(c, end), e), end2)
           n == Len(c)
<1>0. /\ first \in Int /\ end \in Int /\ first <= end
      /\ first2 \in Int /\ end2 \in Int /\ first2 <= end2
      /\ first <= first2 /\ end <= end2 /\ Timed(Trades)
  BY TradesAreTimed DEF Forward
<1>1. /\ d \in Seq(Trades) /\ Len(d) = n + 1 /\ n \in Nat /\ Ordered(d) /\ Ordered(c)
      /\ p \in 0..n /\ r \in p..n + 1 /\ q \in 0..n /\ z \in q..n + 1
  BY <1>0, CutGrows
<1>2. q \in p..n /\ z \in r..n + 1
  <2>1. q \in p..n
    BY <1>0, <1>1, EarlierCut
  <2>2. z \in r..Len(d)
    <3> HIDE DEF d
    <3> QED BY <1>0, <1>1, EarlierCut
  <2> QED BY <1>1, <2>1, <2>2
<1>3. Baseline(c, first, end) = Slice(d, p, q)
  BY <1>1, <1>2, SliceAppend DEF Baseline
<1>4. Stale(Append(Kept(c, end), e), end2) = Slice(d, q, z)
  BY <1>0, NextWindow
<1> HIDE DEF d, p, q, r, z
<1>5. p \in 0..Len(d) /\ q \in p..Len(d) /\ z \in q..Len(d) /\ z \in p..Len(d) /\ r \in p..z
  BY <1>1, <1>2
<1>6. s = Slice(d, p, z)
  BY <1>1, <1>3, <1>4, <1>5, SliceConcat
<1> HIDE DEF s
<1>7. Clamp(r, p, z) = r
  BY <1>5 DEF Clamp
<1>8. Stale(s, first2) = Slice(d, p, r) /\ Kept(s, first2) = Slice(d, r, z)
  BY <1>0, <1>1, <1>5, <1>6, <1>7, SliceCut DEF r
<1>9. Kept(s, first2) = Baseline(d, first2, end2)
  BY <1>8 DEF Baseline, r, z
<1> QED BY <1>3, <1>4, <1>5, <1>6, <1>8, <1>9 DEF d, p, q, r, z, s

-----------------------------------------------------------------------------
(* Range samples: one for each trade, at its time.                         *)

SameTimes(s, t) == Len(s) = Len(t) /\ \A i \in 1..Len(s) : s[i].ts = t[i].ts

\* What is done to both deques keeps their times the same.
LEMMA SameTimesAppend ==
  ASSUME NEW s \in Seq(RangeSamples), NEW x \in RangeSamples,
         NEW t \in Seq(Trades), NEW e \in Trades, SameTimes(s, t), x.ts = e.ts
  PROVE  SameTimes(Append(s, x), Append(t, e))
<1>1. /\ Len(s) \in Nat /\ Len(t) = Len(s)
      /\ Len(Append(s, x)) = Len(s) + 1 /\ Append(s, x)[Len(s) + 1] = x
      /\ \A i \in 1..Len(s) : Append(s, x)[i] = s[i]
      /\ Len(Append(t, e)) = Len(t) + 1 /\ Append(t, e)[Len(t) + 1] = e
      /\ \A i \in 1..Len(t) : Append(t, e)[i] = t[i]
  BY LenProperties, AppendProperties DEF SameTimes
<1>2. ASSUME NEW i \in 1..Len(s) + 1 PROVE Append(s, x)[i].ts = Append(t, e)[i].ts
  <2>1. CASE i = Len(s) + 1
    BY <1>1, <2>1
  <2>2. CASE i \in 1..Len(s)
    BY <1>1, <2>2 DEF SameTimes
  <2> QED BY <1>1, <2>1, <2>2
<1> QED BY <1>1, <1>2 DEF SameTimes

\* So does putting them together,
LEMMA SameTimesConcat ==
  ASSUME NEW s \in Seq(RangeSamples), NEW x \in Seq(RangeSamples),
         NEW t \in Seq(Trades), NEW e \in Seq(Trades), SameTimes(s, t), SameTimes(x, e)
  PROVE  SameTimes(s \o x, t \o e)
<1>1. /\ Len(s) \in Nat /\ Len(x) \in Nat /\ Len(t) = Len(s) /\ Len(e) = Len(x)
      /\ Len(s \o x) = Len(s) + Len(x) /\ Len(t \o e) = Len(t) + Len(e)
      /\ \A i \in 1..Len(s) + Len(x) : (s \o x)[i] = IF i <= Len(s) THEN s[i] ELSE x[i - Len(s)]
      /\ \A i \in 1..Len(t) + Len(e) : (t \o e)[i] = IF i <= Len(t) THEN t[i] ELSE e[i - Len(t)]
  <2>1. /\ Len(s) \in Nat /\ Len(x) \in Nat /\ Len(t) = Len(s) /\ Len(e) = Len(x)
    BY LenProperties DEF SameTimes
  <2>2. /\ Len(s \o x) = Len(s) + Len(x)
        /\ \A i \in 1..Len(s) + Len(x) : (s \o x)[i] = IF i <= Len(s) THEN s[i] ELSE x[i - Len(s)]
    BY ConcatProperties
  <2>3. /\ Len(t \o e) = Len(t) + Len(e)
        /\ \A i \in 1..Len(t) + Len(e) : (t \o e)[i] = IF i <= Len(t) THEN t[i] ELSE e[i - Len(t)]
    BY ConcatProperties
  <2> QED BY <2>1, <2>2, <2>3
<1>2. ASSUME NEW i \in 1..Len(s) + Len(x) PROVE (s \o x)[i].ts = (t \o e)[i].ts
  <2>1. CASE i <= Len(s)
    <3>1. i \in 1..Len(s) /\ i \in 1..Len(t) + Len(e) /\ i <= Len(t)
      BY <1>1, <2>1
    <3>2. (s \o x)[i] = s[i] /\ (t \o e)[i] = t[i]
      BY <1>1, <2>1, <3>1
    <3> QED BY <3>1, <3>2 DEF SameTimes
  <2>2. CASE i > Len(s)
    <3>1. i - Len(s) \in 1..Len(x) /\ i \in 1..Len(t) + Len(e) /\ ~(i <= Len(t)) /\ ~(i <= Len(s))
      BY <1>1, <2>2
    <3>2. (s \o x)[i] = x[i - Len(s)] /\ (t \o e)[i] = e[i - Len(s)]
      BY <1>1, <3>1
    <3> QED BY <3>1, <3>2 DEF SameTimes
  <2> QED BY <1>1, <2>1, <2>2
<1> QED BY <1>1, <1>2 DEF SameTimes

\* and dropping the old ones, as many of both.
LEMMA SameTimesCut ==
  ASSUME NEW s \in Seq(RangeSamples), NEW t \in Seq(Trades), SameTimes(s, t), NEW time \in Int
  PROVE  /\ StaleBefore(s, time) = StaleBefore(t, time)
         /\ SameTimes(Stale(s, time), Stale(t, time)) /\ SameTimes(Kept(s, time), Kept(t, time))
         /\ Stale(s, time) \in Seq(RangeSamples) /\ Kept(s, time) \in Seq(RangeSamples)
         /\ Stale(t, time) \in Seq(Trades) /\ Kept(t, time) \in Seq(Trades)
<1> DEFINE N == Len(s)
           k == StaleBefore(t, time)
           Stops(u, n) == (\A i \in 1..n : u[i].ts < time) /\ (n < N => u[n + 1].ts >= time)
<1>1. N \in Nat /\ Len(t) = N /\ \A i \in 1..N : s[i].ts = t[i].ts
  BY LenProperties DEF SameTimes
<1>2. ASSUME NEW n \in 0..N PROVE Stops(s, n) <=> Stops(t, n)
  <2>1. \A i \in 1..n : s[i].ts = t[i].ts
    BY <1>1
  <2>2. n < N => s[n + 1].ts = t[n + 1].ts
    BY <1>1
  <2> QED BY <2>1, <2>2
<1>3. /\ StaleBefore(s, time) = CHOOSE n \in 0..N : Stops(s, n)
      /\ k = CHOOSE n \in 0..N : Stops(t, n)
  BY <1>1 DEF StaleBefore
<1>4. StaleBefore(s, time) = k
  <2> HIDE DEF Stops, N, k
  <2>1. (CHOOSE n \in 0..N : Stops(s, n)) = (CHOOSE n \in 0..N : Stops(t, n))
    BY <1>2
  <2> QED BY <1>3, <2>1
<1>5. k \in 0..N
  BY <1>1, StaleBeforeIs, TradesAreTimed
<1> HIDE DEF k
<1>6. 0 \in 0..N /\ k \in 0..N /\ N \in k..N
  BY <1>1, <1>5
<1>7. /\ Stale(s, time) = Slice(s, 0, k) /\ Kept(s, time) = Slice(s, k, N)
      /\ Stale(t, time) = Slice(t, 0, k) /\ Kept(t, time) = Slice(t, k, N)
  BY <1>1, <1>4 DEF Stale, Kept, Slice, k
<1>8. ASSUME NEW a \in 0..N, NEW b \in a..N
      PROVE  SameTimes(Slice(s, a, b), Slice(t, a, b)) /\ Slice(s, a, b) \in Seq(RangeSamples)
             /\ Slice(t, a, b) \in Seq(Trades)
  <2> DEFINE u == Slice(s, a, b)
             v == Slice(t, a, b)
  <2>1. /\ u \in Seq(RangeSamples) /\ Len(u) = b - a /\ \A i \in 1..b-a : u[i] = s[a + i]
        /\ v \in Seq(Trades) /\ Len(v) = b - a /\ \A i \in 1..b-a : v[i] = t[a + i]
    <3>1. u \in Seq(RangeSamples) /\ IsSlice(u, s, a, b)
      BY SliceIs
    <3>2. a \in 0..Len(t) /\ b \in a..Len(t)
      BY <1>1
    <3>3. v \in Seq(Trades) /\ IsSlice(v, t, a, b)
      BY <3>2, SliceIs
    <3> QED BY <3>1, <3>3 DEF IsSlice
  <2>2. \A i \in 1..b-a : a + i \in 1..N
    BY <1>1
  <2> HIDE DEF u, v
  <2>3. SameTimes(u, v)
    BY <1>1, <2>1, <2>2 DEF SameTimes
  <2> QED BY <2>1, <2>3 DEF u, v
<1> QED BY <1>4, <1>6, <1>7, <1>8 DEF k

-----------------------------------------------------------------------------
(* The sum of the trades of a window, as the property has it.              *)

\* Those from a time to a time are the ones after the first a, up to the first b.
Spans(c, first, last, a, b) ==
  /\ first \in Int /\ last \in Int /\ a = StaleBefore(c, first) /\ b \in a..Len(c)
  /\ \A i \in 1..Len(c) : c[i].ts <= last <=> i <= b

\* The property adds up the values of those and of no others.
LEMMA BetweenIs ==
  ASSUME counted \in Seq(Trades), Ordered(counted),
         NEW first, NEW last, NEW a, NEW b, Spans(counted, first, last, a, b),
         NEW values \in Seq(Int), Len(values) = Len(counted),
         NEW t \in Seq(Int), IsSlice(t, values, a, b)
  PROVE  Between(first, last, values) = SumOf(t)
<1> DEFINE n == Len(counted)
           m == [i \in 1..n |->
                   IF counted[i].ts >= first /\ counted[i].ts <= last THEN values[i] ELSE 0]
<1>1. n \in Nat /\ \A i \in 1..n : counted[i].ts \in Int
  BY LenProperties, ElementOfSeq, TradesAreTimed DEF Timed
<1>0. /\ first \in Int /\ last \in Int /\ a = StaleBefore(counted, first) /\ b \in a..n
      /\ \A i \in 1..n : counted[i].ts <= last <=> i <= b
  BY DEF Spans
<1>2. \A i \in 1..n : values[i] \in Int
  BY ElementOfSeq
<1>3. m \in Seq(Int) /\ Len(m) = n
  <2>1. m \in [1..n -> Int]
    BY <1>2
  <2> HIDE DEF m, n
  <2>2. ASSUME NEW g \in [1..n -> Int] PROVE g \in Seq(Int) /\ Len(g) = n
    BY <1>1
  <2> QED BY <2>1, <2>2
<1>4. a \in 0..n /\ \A i \in 1..n : counted[i].ts < first <=> i <= a
  BY <1>0, TradesAreTimed, StaleBeforeIs, OrderedCut
<1>5. ASSUME NEW i \in 1..n PROVE m[i] = IF i > a /\ i <= b THEN values[i] ELSE 0
  <2>1. counted[i].ts >= first <=> i > a
    BY <1>0, <1>1, <1>4
  <2>2. counted[i].ts <= last <=> i <= b
    BY <1>0
  <2> QED BY <2>1, <2>2
<1>6. PICK f : Sums(f, values)
  BY SumsExist
<1> HIDE DEF m
<1>7. SumOf(m) = f[b] - f[a]
  <2>1. /\ a \in 0..Len(values) /\ b \in a..Len(values)
        /\ m \in Seq(Int) /\ Len(m) = Len(values)
    BY <1>0, <1>3, <1>4
  <2>2. \A i \in 1..Len(values) : m[i] = IF i > a /\ i <= b THEN values[i] ELSE 0
    BY <1>5
  <2> QED BY <1>6, <2>1, <2>2, SumOfMasked
<1>8. SumOf(t) = f[b] - f[a]
  BY <1>0, <1>4, <1>6, SumOfSlice
<1> QED BY <1>7, <1>8 DEF Between, m

\* A sequence of ones adds up to its length.
LEMMA SumOfOnes ==
  ASSUME NEW n \in Nat
  PROVE  [i \in 1..n |-> 1] \in Seq(Int) /\ Len([i \in 1..n |-> 1]) = n
         /\ SumOf([i \in 1..n |-> 1]) = n
<1> DEFINE s == [i \in 1..n |-> 1]
           g == [i \in 0..n |-> i]
<1>1. s \in Seq(Int) /\ Len(s) = n
  OBVIOUS
<1>2. g \in [0..n -> Int] /\ g[0] = 0
  OBVIOUS
<1>3. ASSUME NEW i \in 1..n PROVE g[i] = g[i - 1] + s[i]
  <2>1. g[i] = i /\ g[i - 1] = i - 1 /\ s[i] = 1
    OBVIOUS
  <2> QED BY <2>1
<1>4. Sums(g, s)
  <2> HIDE DEF g, s
  <2> QED BY <1>1, <1>2, <1>3 DEF Sums
<1>5. SumOf(s) = g[Len(s)]
  <2> HIDE DEF g, s
  <2> QED BY <1>1, <1>4, SumIs
<1> QED BY <1>1, <1>5

-----------------------------------------------------------------------------
(* ExtremesOf.  better orders the prices: lows by at most, highs by at least. *)

AtMost == {pair \in TradePrices \X TradePrices : pair[1] <= pair[2]}
AtLeast == {pair \in TradePrices \X TradePrices : pair[1] >= pair[2]}

LinearOrder(better) ==
  /\ \A p, q \in TradePrices : <<p, q>> \in better \/ <<q, p>> \in better
  /\ \A p, q \in TradePrices : <<p, q>> \in better /\ <<q, p>> \in better => p = q
  /\ \A p, q, r \in TradePrices : <<p, q>> \in better /\ <<q, r>> \in better => <<p, r>> \in better

\* Prices are ordered both ways.
LEMMA PricesAreOrdered ==
  /\ LinearOrder(AtMost) /\ LinearOrder(AtLeast)
  /\ \A p, q \in TradePrices : <<p, q>> \in AtMost <=> p <= q
  /\ \A p, q \in TradePrices : <<p, q>> \in AtLeast <=> p >= q
<1>1. \A p \in TradePrices : p \in Int
  BY CvdAssumption DEF CvdAssumption
<1>2. /\ \A p, q \in TradePrices : <<p, q>> \in AtMost <=> p <= q
      /\ \A p, q \in TradePrices : <<p, q>> \in AtLeast <=> p >= q
  BY DEF AtMost, AtLeast
<1> QED BY <1>1, <1>2 DEF LinearOrder

\* The deque of the extremes of the trades of c from first on: of the window, ordered,
\* each worse than the one before it, and every trade of the window has one in it that
\* is no worse and no older.
ExtremesOf(s, c, first, better) ==
  /\ s \in Seq(Trades)
  /\ IF c = <<>> THEN s = <<>> ELSE Len(s) > 0 /\ s[Len(s)] = c[Len(c)]
  /\ \A i \in 1..Len(s) : s[i].ts >= first /\ \E j \in 1..Len(c) : s[i] = c[j]
  /\ \A i, j \in 1..Len(s) :
       i < j => s[i].ts <= s[j].ts /\ <<s[j].price, s[i].price>> \notin better
  /\ \A j \in 1..Len(c) : c[j].ts >= first =>
       \E i \in 1..Len(s) : <<s[i].price, c[j].price>> \in better /\ s[i].ts >= c[j].ts

\* The tail of a deque is popped down to the last that is not beaten.
LEMMA UnbeatenIs ==
  ASSUME NEW s \in Seq(Trades), NEW beaten
  PROVE  /\ Unbeaten(s, beaten) \in 0..Len(s)
         /\ Unbeaten(s, beaten) > 0 => s[Unbeaten(s, beaten)].price \notin beaten
         /\ \A i \in Unbeaten(s, beaten)+1..Len(s) : s[i].price \in beaten
<1> DEFINE N == Len(s)
           Tail_(n) == \A i \in n+1..N : s[i].price \in beaten
           Stops(n) == (n > 0 => s[n].price \notin beaten) /\ Tail_(n)
<1>1. N \in Nat
  BY LenProperties
<1>2. \E n \in 0..N : Stops(n)
  <2> SUFFICES ASSUME \A n \in 0..N : ~Stops(n) PROVE FALSE
    OBVIOUS
  <2> DEFINE H == {n \in 0..N : Tail_(N - n)}
  <2>1. 0 \in H
    BY <1>1
  <2>2. ASSUME NEW k \in 0..N, k < N, k \in H PROVE k + 1 \in H
    <3>1. N - k \in 0..N /\ N - k > 0 /\ Tail_(N - k)
      BY <1>1, <2>2
    <3>2. s[N - k].price \in beaten
      BY <3>1
    <3>3. ASSUME NEW i \in N - (k + 1) + 1..N PROVE s[i].price \in beaten
      <4>1. i = N - k \/ i \in N - k + 1..N
        BY <1>1, <2>2
      <4> QED BY <3>1, <3>2, <4>1
    <3> QED BY <1>1, <2>2, <3>3
  <2>3. N \in H
    <3> HIDE DEF H, N
    <3> QED BY <1>1, <2>1, <2>2, UpTo
  <2>4. N - N = 0 /\ 0 \in 0..N
    BY <1>1
  <2>5. Stops(0)
    BY <2>3, <2>4
  <2> HIDE DEF Stops
  <2> QED BY <2>4, <2>5
<1>3. Unbeaten(s, beaten) = CHOOSE n \in 0..N : Stops(n)
  BY DEF Unbeaten
<1> HIDE DEF Stops
<1>4. Unbeaten(s, beaten) \in 0..N /\ Stops(Unbeaten(s, beaten))
  BY <1>2, <1>3
<1> QED BY <1>4 DEF Stops

\* The head of such a deque is the extreme of its window, and the newest trade only when
\* no other trade of the window is as good.
LEMMA HeadIsExtreme ==
  ASSUME NEW s, NEW c \in Seq(Trades), c # <<>>, NEW first \in Int, NEW better,
         LinearOrder(better), ExtremesOf(s, c, first, better)
  PROVE  /\ Len(s) \in Nat \ {0} /\ s[1] \in Trades /\ s[1].ts >= first
         /\ \E j \in 1..Len(c) : s[1] = c[j]
         /\ \A j \in 1..Len(c) : c[j].ts >= first => <<s[1].price, c[j].price>> \in better
         /\ s[1].price = c[Len(c)].price => s[1] = c[Len(c)]
<1>1. s \in Seq(Trades) /\ Len(s) \in Nat \ {0} /\ 1 \in 1..Len(s) /\ Len(s) \in 1..Len(s)
  BY LenProperties DEF ExtremesOf
<1>0. \A x \in Trades : x.price \in TradePrices
  BY DEF Trades
<1>2. \A i \in 1..Len(s) : s[i] \in Trades /\ s[i].price \in TradePrices
  <2>1. \A i \in 1..Len(s) : s[i] \in Trades
    BY <1>1, ElementOfSeq
  <2> QED BY <1>0, <2>1
<1>3. \A j \in 1..Len(c) : c[j] \in Trades /\ c[j].price \in TradePrices
  <2>1. \A j \in 1..Len(c) : c[j] \in Trades
    BY ElementOfSeq
  <2> QED BY <1>0, <2>1
<1>4. ASSUME NEW j \in 1..Len(c), c[j].ts >= first
      PROVE  <<s[1].price, c[j].price>> \in better
  <2>1. PICK i \in 1..Len(s) : <<s[i].price, c[j].price>> \in better
    BY <1>4 DEF ExtremesOf
  <2>2. <<s[1].price, s[i].price>> \in better
    <3>1. CASE i = 1
      BY <1>1, <1>2, <3>1 DEF LinearOrder
    <3>2. CASE i > 1
      <4>1. <<s[i].price, s[1].price>> \notin better
        BY <1>1, <3>2 DEF ExtremesOf
      <4> QED BY <1>1, <1>2, <4>1 DEF LinearOrder
    <3> QED BY <3>1, <3>2
  <2> QED BY <1>1, <1>2, <1>3, <2>1, <2>2 DEF LinearOrder
<1>5. s[1].price = c[Len(c)].price => s[1] = c[Len(c)]
  <2> SUFFICES ASSUME s[1].price = c[Len(c)].price PROVE s[1] = c[Len(c)]
    OBVIOUS
  <2>1. s[Len(s)] = c[Len(c)]
    BY DEF ExtremesOf
  <2>2. CASE Len(s) = 1
    BY <2>1, <2>2
  <2>3. CASE Len(s) > 1
    <3>1. <<s[Len(s)].price, s[1].price>> \notin better
      BY <1>1, <2>3 DEF ExtremesOf
    <3>2. s[Len(s)].price = s[1].price /\ s[1].price \in TradePrices
      BY <1>1, <1>2, <2>1
    <3>3. <<s[1].price, s[1].price>> \in better
      BY <3>2 DEF LinearOrder
    <3>4. <<s[Len(s)].price, s[1].price>> = <<s[1].price, s[1].price>>
      BY <3>2, Zenon
    <3> QED BY <3>1, <3>3, <3>4, Zenon
  <2>4. Len(s) = 1 \/ Len(s) > 1
    <3>1. \A n \in Nat \ {0} : n = 1 \/ n > 1
      OBVIOUS
    <3> QED BY <1>1, <3>1, Zenon
  <2> QED BY <2>2, <2>3, <2>4, Zenon
<1> QED BY <1>1, <1>2, <1>4, <1>5 DEF ExtremesOf

\* A trade is counted.
LEMMA PushKeepsExtremes ==
  ASSUME NEW s, NEW c \in Seq(Trades), NEW e \in Trades, Ordered(Append(c, e)),
         NEW old \in Int, NEW new \in Int, old <= new, new <= e.ts,
         NEW better, LinearOrder(better), ExtremesOf(s, c, old, better),
         NEW beaten, \A p \in TradePrices : p \in beaten <=> <<e.price, p>> \in better
  PROVE  ExtremesOf(PushExtreme(s, e, new, beaten), Append(c, e), new, better)
<1> DEFINE d == Append(c, e)
           u == Unbeaten(s, beaten)
           r == Slice(s, 0, u)
           t == Append(r, e)
           h == StaleBefore(t, new)
           o == Kept(t, new)
<1>1. /\ s \in Seq(Trades) /\ Len(s) \in Nat /\ Len(c) \in Nat
      /\ \A i \in 1..Len(s) : s[i] \in Trades /\ s[i].price \in TradePrices /\ s[i].ts \in Nat
      /\ \A j \in 1..Len(c) : c[j] \in Trades /\ c[j].price \in TradePrices /\ c[j].ts \in Nat
      /\ e.price \in TradePrices /\ e.ts \in Nat
  <2>1. s \in Seq(Trades)
    BY DEF ExtremesOf
  <2>2. \A x \in Trades : x.price \in TradePrices /\ x.ts \in Nat
    BY DEF Trades
  <2>3. \A i \in 1..Len(s) : s[i] \in Trades
    BY <2>1, ElementOfSeq
  <2>4. \A j \in 1..Len(c) : c[j] \in Trades
    BY ElementOfSeq
  <2> QED BY <2>1, <2>2, <2>3, <2>4, LenProperties
<1>2. /\ d \in Seq(Trades) /\ Len(d) = Len(c) + 1 /\ d[Len(c) + 1] = e /\ d # <<>>
      /\ \A j \in 1..Len(c) : d[j] = c[j]
  BY AppendProperties
<1>3. /\ u \in 0..Len(s) /\ (u > 0 => s[u].price \notin beaten)
      /\ \A i \in u+1..Len(s) : s[i].price \in beaten
  BY <1>1, UnbeatenIs
<1>4. PushExtreme(s, e, new, beaten) = o
  BY DEF PushExtreme, Slice
<1> HIDE DEF d, u
<1>5. /\ r \in Seq(Trades) /\ Len(r) = u /\ \A i \in 1..u : r[i] = s[i]
  <2>1. 0 \in 0..Len(s) /\ u \in 0..Len(s)
    BY <1>1, <1>3
  <2>2. r \in Seq(Trades) /\ IsSlice(r, s, 0, u)
    BY <1>1, <2>1, SliceIs
  <2>3. \A i \in 1..u : i \in 1..u - 0 /\ 0 + i = i
    BY <2>1
  <2> QED BY <1>3, <2>2, <2>3 DEF IsSlice
<1> HIDE DEF r
<1>6. /\ t \in Seq(Trades) /\ Len(t) = u + 1 /\ t[u + 1] = e
      /\ \A i \in 1..u : t[i] = s[i]
  BY <1>5, AppendProperties
<1> HIDE DEF t
<1>7. h \in 0..u+1 /\ (\A i \in 1..h : t[i].ts < new) /\ (h < u + 1 => t[h + 1].ts >= new)
  BY <1>6, TradesAreTimed, StaleBeforeIs
<1> HIDE DEF h
<1>8. h <= u
  <2> SUFFICES ASSUME h = u + 1 PROVE FALSE
    BY <1>3, <1>7
  <2>1. u + 1 \in 1..h
    BY <1>3
  <2> QED BY <1>1, <1>6, <1>7, <2>1
<1>9. /\ o \in Seq(Trades) /\ Len(o) = u + 1 - h
      /\ \A i \in 1..u+1-h : o[i] = t[h + i]
  <2>1. h \in 0..Len(t) /\ Len(t) \in h..Len(t)
    BY <1>3, <1>6, <1>7
  <2>2. o = Slice(t, h, Len(t))
    BY DEF Kept, Slice, h
  <2>3. Slice(t, h, Len(t)) \in Seq(Trades) /\ IsSlice(Slice(t, h, Len(t)), t, h, Len(t))
    BY <1>6, <2>1, SliceIs
  <2>4. o \in Seq(Trades) /\ IsSlice(o, t, h, Len(t))
    BY <2>2, <2>3
  <2>5. Len(o) = Len(t) - h /\ \A i \in 1..Len(t)-h : o[i] = t[h + i]
    BY <2>4, Zenon DEF IsSlice
  <2>6. Len(t) - h = u + 1 - h
    <3>1. Len(t) = u + 1
      BY <1>6, Zenon
    <3>2. h \in Int /\ u \in Int
      BY <1>3, <1>7
    <3>3. u + 1 - h = (u + 1) - h
      BY <3>2
    <3> QED BY <3>1, <3>3, Zenon
  <2> HIDE DEF o
  <2>7. Len(o) = u + 1 - h /\ \A i \in 1..u+1-h : o[i] = t[h + i]
    BY <2>5, <2>6, Zenon
  <2> QED BY <2>4, <2>7, Zenon
<1> HIDE DEF o
\* Trades of the deque as it was keep their place in t; e is the last.
<1>10. /\ Len(o) > 0 /\ o[Len(o)] = d[Len(d)]
  <2>1. u + 1 - h \in 1..u+1-h /\ h + (u + 1 - h) = u + 1
    BY <1>3, <1>7, <1>8
  <2> QED BY <1>2, <1>6, <1>9, <2>1
<1>11. ASSUME NEW i \in 1..Len(t) PROVE \E j \in 1..Len(d) : t[i] = d[j]
  <2>1. CASE i = u + 1
    <3>1. Len(c) + 1 \in 1..Len(d)
      BY <1>1, <1>2
    <3> QED BY <1>2, <1>6, <2>1, <3>1
  <2>2. CASE i \in 1..u
    <3>1. i \in 1..Len(s) /\ t[i] = s[i]
      BY <1>3, <1>6, <2>2
    <3>2. PICK j \in 1..Len(c) : s[i] = c[j]
      BY <3>1 DEF ExtremesOf
    <3>3. j \in 1..Len(d) /\ d[j] = c[j]
      BY <1>1, <1>2
    <3> QED BY <3>1, <3>2, <3>3
  <2> QED BY <1>3, <1>6, <2>1, <2>2
<1>12. ASSUME NEW i \in 1..Len(t), i > h PROVE t[i].ts >= new
  <2>1. CASE i = u + 1
    BY <1>1, <1>6, <2>1
  <2>2. CASE i \in 1..u
    <3>1. h + 1 \in 1..Len(t) /\ t[h + 1].ts >= new /\ h + 1 <= i
      BY <1>3, <1>6, <1>7, <1>8, <1>12
    <3>2. h + 1 \in 1..Len(s) /\ i \in 1..Len(s) /\ t[h + 1] = s[h + 1] /\ t[i] = s[i]
      BY <1>1, <1>3, <1>6, <1>7, <2>2, <3>1
    <3>4. s[h + 1].ts \in Nat /\ s[i].ts \in Nat
      BY <1>1, <3>2
    <3>3. s[h + 1].ts <= s[i].ts
      <4>1. CASE h + 1 = i
        BY <3>4, <4>1
      <4>2. CASE h + 1 < i
        BY <3>2, <4>2 DEF ExtremesOf
      <4> QED BY <1>7, <3>1, <4>1, <4>2
    <3> QED BY <3>1, <3>2, <3>3, <3>4
  <2> QED BY <1>3, <1>6, <2>1, <2>2
<1>13. \A j \in 1..Len(c) : c[j].ts <= e.ts
  <2> SUFFICES ASSUME NEW j \in 1..Len(c) PROVE c[j].ts <= e.ts
    OBVIOUS
  <2>1. j \in 1..Len(d) /\ Len(c) + 1 \in 1..Len(d) /\ j <= Len(c) + 1
    BY <1>1, <1>2
  <2>2. d[j].ts <= d[Len(c) + 1].ts
    BY <2>1 DEF Ordered, d
  <2> QED BY <1>2, <2>2
<1>14. ASSUME NEW i \in 1..Len(t), NEW j \in 1..Len(t), i < j
       PROVE  t[i].ts <= t[j].ts /\ <<t[j].price, t[i].price>> \notin better
  <2>1. i \in 1..Len(s) /\ t[i] = s[i]
    BY <1>3, <1>6, <1>14
  <2>2. CASE j \in 1..u
    <3>1. j \in 1..Len(s) /\ t[j] = s[j]
      BY <1>3, <1>6, <2>2
    <3> QED BY <1>14, <2>1, <3>1 DEF ExtremesOf
  <2>3. CASE j = u + 1
    <3>1. t[j] = e /\ u \in 1..Len(s) /\ i <= u /\ u > 0
      BY <1>3, <1>6, <1>14, <2>3
    <3>2. s[i].ts <= e.ts
      <4>1. PICK k \in 1..Len(c) : s[i] = c[k]
        BY <2>1 DEF ExtremesOf
      <4> QED BY <1>13, <4>1
    <3>3. <<e.price, s[u].price>> \notin better
      BY <1>1, <1>3, <3>1
    <3>4. <<s[i].price, s[u].price>> \in better
      <4>1. CASE i = u
        BY <1>1, <3>1, <4>1 DEF LinearOrder
      <4>2. CASE i < u
        <5>1. <<s[u].price, s[i].price>> \notin better
          BY <2>1, <3>1, <4>2 DEF ExtremesOf
        <5> QED BY <1>1, <2>1, <3>1, <5>1 DEF LinearOrder
      <4> QED BY <1>3, <3>1, <4>1, <4>2
    <3>5. <<e.price, s[i].price>> \notin better
      BY <1>1, <2>1, <3>1, <3>3, <3>4 DEF LinearOrder
    <3> QED BY <2>1, <3>1, <3>2, <3>5
  <2> QED BY <1>3, <1>6, <2>2, <2>3
<1>15. ASSUME NEW j \in 1..Len(d), d[j].ts >= new
       PROVE  \E i \in 1..Len(t) : i > h /\ <<t[i].price, d[j].price>> \in better /\ t[i].ts >= d[j].ts
  <2>1. u + 1 \in 1..Len(t) /\ u + 1 > h /\ t[u + 1] = e
    BY <1>3, <1>6, <1>7, <1>8
  <2>2. CASE j = Len(c) + 1
    <3>1. <<e.price, e.price>> \in better
      BY <1>1 DEF LinearOrder
    <3> QED BY <1>1, <1>2, <2>1, <2>2, <3>1
  <2>3. CASE j \in 1..Len(c)
    <3>1. d[j] = c[j] /\ c[j].ts >= old /\ c[j].ts \in Nat /\ c[j].price \in TradePrices
      BY <1>1, <1>2, <1>15, <2>3
    <3>2. PICK i \in 1..Len(s) : <<s[i].price, c[j].price>> \in better /\ s[i].ts >= c[j].ts
      BY <2>3, <3>1 DEF ExtremesOf
    <3>3. CASE i \in 1..u
      <4>1. i \in 1..Len(t) /\ t[i] = s[i]
        BY <1>3, <1>6, <3>3
      <4>2. i > h
        <5> SUFFICES ASSUME i <= h PROVE FALSE
          BY <1>3, <1>7, <3>3
        <5>1. t[i].ts < new
          BY <1>7, <3>3
        <5> QED BY <1>1, <1>15, <3>1, <3>2, <4>1, <5>1
      <4> QED BY <3>1, <3>2, <4>1, <4>2
    <3>4. CASE i \in u+1..Len(s)
      <4>1. <<e.price, s[i].price>> \in better
        BY <1>1, <1>3, <3>4
      <4>2. <<e.price, c[j].price>> \in better
        BY <1>1, <3>1, <3>2, <4>1 DEF LinearOrder
      <4>3. e.ts >= c[j].ts
        BY <1>1, <1>13, <2>3
      <4> QED BY <2>1, <3>1, <4>2, <4>3
    <3>5. i \in 1..u \/ i \in u+1..Len(s)
      BY <1>1, <1>3
    <3> QED BY <3>3, <3>4, <3>5, Zenon
  <2>4. j \in 1..Len(c) \/ j = Len(c) + 1
    <3>1. Len(d) = Len(c) + 1 /\ Len(c) \in Nat
      BY <1>1, <1>2, Zenon
    <3> QED BY <3>1
  <2> QED BY <2>2, <2>3, <2>4, Zenon
\* What holds of t after its stale head holds of o.
<1>16. \A i \in 1..Len(o) : o[i] = t[h + i] /\ h + i \in 1..Len(t) /\ h + i > h
  BY <1>3, <1>6, <1>7, <1>9
<1>17. \A i \in 1..Len(o) : o[i].ts >= new /\ \E j \in 1..Len(d) : o[i] = d[j]
  BY <1>11, <1>12, <1>16
<1>18. ASSUME NEW i \in 1..Len(o), NEW j \in 1..Len(o), i < j
       PROVE  o[i].ts <= o[j].ts /\ <<o[j].price, o[i].price>> \notin better
  <2>1. h + i \in 1..Len(t) /\ h + j \in 1..Len(t) /\ h + i < h + j
    BY <1>7, <1>16, <1>18
  <2> QED BY <1>14, <1>16, <2>1
<1>19. ASSUME NEW j \in 1..Len(d), d[j].ts >= new
       PROVE  \E i \in 1..Len(o) : <<o[i].price, d[j].price>> \in better /\ o[i].ts >= d[j].ts
  <2>1. PICK i \in 1..Len(t) : i > h /\ <<t[i].price, d[j].price>> \in better /\ t[i].ts >= d[j].ts
    BY <1>15, <1>19
  <2>2. i - h \in 1..Len(o) /\ h + (i - h) = i
    BY <1>3, <1>6, <1>7, <1>9, <2>1
  <2>3. o[i - h] = t[i]
    BY <1>16, <2>2
  <2> QED BY <2>1, <2>2, <2>3
<1>20. ExtremesOf(o, d, new, better)
  BY <1>2, <1>9, <1>10, <1>17, <1>18, <1>19 DEF ExtremesOf
<1> QED BY <1>4, <1>20 DEF d

-----------------------------------------------------------------------------
(* What a trade changes.                                                    *)

\* The one that is appended is what its value adds.
LEMMA LastAdds ==
  ASSUME NEW c \in Seq(Trades), NEW e \in Trades
  PROVE  /\ Fast(Slice(Append(c, e), Len(c), Len(c) + 1)) = Signed(e)
         /\ Volumes(Slice(Append(c, e), Len(c), Len(c) + 1)) = Volume(e)
<1> DEFINE d == Append(c, e)
           n == Len(c)
           t == Slice(d, n, n + 1)
<1>1. /\ d \in Seq(Trades) /\ n \in Nat /\ Len(d) = n + 1 /\ d[n + 1] = e
      /\ n \in 0..Len(d) /\ n + 1 \in n..Len(d) /\ n + 1 \in 1..Len(d)
  BY AppendProperties, LenProperties
<1> HIDE DEF d, n
<1>2. t \in Seq(Trades)
  BY <1>1, SliceIs
<1>3. /\ IsSlice(Flows(t), Flows(d), n, n + 1) /\ IsSlice(Sizes(t), Sizes(d), n, n + 1)
  BY <1>1, ValuesOfSlice
<1> HIDE DEF t
<1>4. /\ Flows(t) \in Seq(Int) /\ Sizes(t) \in Seq(Int) /\ Flows(d) \in Seq(Int) /\ Sizes(d) \in Seq(Int)
      /\ Len(Flows(d)) = n + 1 /\ Len(Sizes(d)) = n + 1
      /\ Flows(d)[n + 1] = Signed(e) /\ Sizes(d)[n + 1] = Volume(e)
  BY <1>1, <1>2, ValuesOf
<1>5. ASSUME NEW s \in Seq(Int), Len(s) = n + 1, NEW u \in Seq(Int), IsSlice(u, s, n, n + 1)
      PROVE  SumOf(u) = s[n + 1]
  <2>1. PICK f : Sums(f, s)
    BY SumsExist
  <2>2. n \in 0..Len(s) /\ n + 1 \in n..Len(s) /\ n + 1 \in 1..Len(s) /\ (n + 1) - 1 = n
    BY <1>1, <1>5
  <2>3. SumOf(u) = f[n + 1] - f[n]
    BY <1>5, <2>1, <2>2, SumOfSlice
  <2>4. f[n + 1] = f[n] + s[n + 1] /\ f[n] \in Int /\ s[n + 1] \in Int
    <3>1. f[n + 1] = f[(n + 1) - 1] + s[n + 1]
      BY <2>1, <2>2 DEF Sums
    <3>2. f[n] \in Int
      BY <2>1, <2>2 DEF Sums
    <3>3. s[n + 1] \in Int
      BY <2>2, ElementOfSeq
    <3> QED BY <2>2, <3>1, <3>2, <3>3
  <2> QED BY <2>3, <2>4
<1>6. SumOf(Flows(t)) = Signed(e) /\ SumOf(Sizes(t)) = Volume(e)
  BY <1>3, <1>4, <1>5
<1> QED BY <1>6 DEF Fast, Volumes, t, d, n

\* A window and its sums after one more trade.
LEMMA NextSums ==
  ASSUME NEW c \in Seq(Trades), NEW e \in Trades, Ordered(Append(c, e)),
         NEW old \in Int, NEW new \in Int, old <= new
  PROVE  LET s == Append(Kept(c, old), e)
         IN  /\ Kept(s, new) = Kept(Append(c, e), new)
             /\ Fast(Kept(Append(c, e), new)) =
                  Fast(Kept(c, old)) + Signed(e) - Fast(Stale(s, new))
             /\ Volumes(Kept(Append(c, e), new)) =
                  Volumes(Kept(c, old)) + Volume(e) - Volumes(Stale(s, new))
<1> DEFINE d == Append(c, e)
           n == Len(c)
           h == StaleBefore(c, old)
           k == StaleBefore(d, new)
           s == Append(Kept(c, old), e)
<1>1. /\ d \in Seq(Trades) /\ Len(d) = n + 1 /\ n \in Nat
      /\ h \in 0..n /\ k \in h..n + 1
  BY TradesAreTimed, CutGrows
<1>2. /\ Kept(c, old) = Slice(d, h, n)
      /\ Stale(s, new) = Slice(d, h, k) /\ Kept(s, new) = Slice(d, k, n + 1)
      /\ Kept(s, new) = Kept(d, new)
  BY TradesAreTimed, NextWindow
<1> HIDE DEF h, k, s
<1>3. /\ Fast(Slice(d, n, n + 1)) = Signed(e) /\ Volumes(Slice(d, n, n + 1)) = Volume(e)
  BY LastAdds
<1> HIDE DEF d, n
<1>4. /\ h \in 0..Len(d) /\ n \in h..Len(d) /\ k \in h..Len(d) /\ n + 1 \in k..Len(d)
      /\ n + 1 \in n..Len(d)
  BY <1>1
<1>5. /\ Fast(Slice(d, h, n + 1)) = Fast(Slice(d, h, n)) + Fast(Slice(d, n, n + 1))
      /\ Volumes(Slice(d, h, n + 1)) = Volumes(Slice(d, h, n)) + Volumes(Slice(d, n, n + 1))
      /\ {Fast(Slice(d, h, n)), Fast(Slice(d, n, n + 1)),
          Volumes(Slice(d, h, n)), Volumes(Slice(d, n, n + 1))} \subseteq Int
  BY <1>1, <1>4, FlowSplits
<1>6. /\ Fast(Slice(d, h, n + 1)) = Fast(Slice(d, h, k)) + Fast(Slice(d, k, n + 1))
      /\ Volumes(Slice(d, h, n + 1)) = Volumes(Slice(d, h, k)) + Volumes(Slice(d, k, n + 1))
      /\ {Fast(Slice(d, h, k)), Fast(Slice(d, k, n + 1)),
          Volumes(Slice(d, h, k)), Volumes(Slice(d, k, n + 1))} \subseteq Int
  BY <1>1, <1>4, FlowSplits
<1>0. \A x, y, u, v \in Int : x + y = u + v => v = x + y - u
  OBVIOUS
<1>7. /\ Fast(Slice(d, k, n + 1)) =
           Fast(Slice(d, h, n)) + Fast(Slice(d, n, n + 1)) - Fast(Slice(d, h, k))
      /\ Volumes(Slice(d, k, n + 1)) =
           Volumes(Slice(d, h, n)) + Volumes(Slice(d, n, n + 1)) - Volumes(Slice(d, h, k))
  <2> DEFINE f1 == Fast(Slice(d, h, n))
             f2 == Fast(Slice(d, n, n + 1))
             f3 == Fast(Slice(d, h, k))
             f4 == Fast(Slice(d, k, n + 1))
             v1 == Volumes(Slice(d, h, n))
             v2 == Volumes(Slice(d, n, n + 1))
             v3 == Volumes(Slice(d, h, k))
             v4 == Volumes(Slice(d, k, n + 1))
  <2>1. f1 \in Int /\ f2 \in Int /\ v1 \in Int /\ v2 \in Int
    BY <1>5
  <2>2. f3 \in Int /\ f4 \in Int /\ v3 \in Int /\ v4 \in Int
    BY <1>6
  <2>3. f1 + f2 = f3 + f4 /\ v1 + v2 = v3 + v4
    BY <1>5, <1>6, Zenon
  <2> HIDE DEF f1, f2, f3, f4, v1, v2, v3, v4
  <2>4. f4 = f1 + f2 - f3 /\ v4 = v1 + v2 - v3
    BY <1>0, <2>1, <2>2, <2>3
  <2> QED BY <2>4 DEF f1, f2, f3, f4, v1, v2, v3, v4
<1>8. /\ Kept(s, new) = Kept(d, new)
      /\ Fast(Kept(d, new)) = Fast(Kept(c, old)) + Signed(e) - Fast(Stale(s, new))
      /\ Volumes(Kept(d, new)) = Volumes(Kept(c, old)) + Volume(e) - Volumes(Stale(s, new))
  BY <1>2, <1>3, <1>7, Zenon
<1> QED BY <1>8, Zenon DEF s, d

\* The baseline after one more trade, and its volume.
LEMMA NextVolume ==
  ASSUME NEW c \in Seq(Trades), NEW e \in Trades, Ordered(Append(c, e)),
         NEW first, NEW end, NEW first2, NEW end2, Forward(first, end, first2, end2)
  PROVE  LET left == Stale(Append(Kept(c, end), e), end2)
             s == Baseline(c, first, end) \o left
         IN  /\ Kept(s, first2) = Baseline(Append(c, e), first2, end2)
             /\ Volumes(Kept(s, first2)) =
                  Volumes(Baseline(c, first, end)) + Volumes(left) - Volumes(Stale(s, first2))
<1> DEFINE d == Append(c, e)
           p == StaleBefore(c, first)
           q == StaleBefore(c, end)
           r == StaleBefore(d, first2)
           z == StaleBefore(d, end2)
           b == Baseline(c, first, end)
           left == Stale(Append(Kept(c, end), e), end2)
           s == b \o left
<1>1. d \in Seq(Trades)
  OBVIOUS
<1>2. /\ b = Slice(d, p, q) /\ left = Slice(d, q, z)
      /\ Stale(s, first2) = Slice(d, p, r) /\ Kept(s, first2) = Slice(d, r, z)
      /\ Kept(s, first2) = Baseline(d, first2, end2)
      /\ p \in 0..Len(d) /\ q \in p..Len(d) /\ r \in p..z /\ z \in q..Len(d)
  BY NextBaseline
<1> HIDE DEF d, p, q, r, z, b, left, s
<1>3. Len(d) \in Nat
  BY <1>1, LenProperties
<1>4. r \in p..Len(d) /\ z \in r..Len(d)
  BY <1>2, <1>3
<1>5. /\ Volumes(Slice(d, p, z)) = Volumes(Slice(d, p, q)) + Volumes(Slice(d, q, z))
      /\ Volumes(Slice(d, p, q)) \in Int /\ Volumes(Slice(d, q, z)) \in Int
  BY <1>1, <1>2, FlowSplits
<1>6. /\ Volumes(Slice(d, p, z)) = Volumes(Slice(d, p, r)) + Volumes(Slice(d, r, z))
      /\ Volumes(Slice(d, p, r)) \in Int /\ Volumes(Slice(d, r, z)) \in Int
  BY <1>1, <1>2, <1>4, FlowSplits
<1>7. Volumes(Slice(d, r, z)) =
        Volumes(Slice(d, p, q)) + Volumes(Slice(d, q, z)) - Volumes(Slice(d, p, r))
  BY <1>5, <1>6
<1>8. /\ Kept(s, first2) = Baseline(d, first2, end2)
      /\ Volumes(Kept(s, first2)) = Volumes(b) + Volumes(left) - Volumes(Stale(s, first2))
  BY <1>2, <1>7, Zenon
<1> QED BY <1>8, Zenon DEF d, b, left, s

\* The ranges of the samples of the baseline after one more sample.
LEMMA NextRanges ==
  ASSUME NEW b \in Seq(RangeSamples), NEW left \in Seq(RangeSamples), NEW time \in Int
  PROVE  RangesOf(Kept(b \o left, time)) =
           RangesOf(b) + RangesOf(left) - RangesOf(Stale(b \o left, time))
<1> DEFINE s == b \o left
           k == Len(b)
           h == StaleBefore(s, time)
<1>1. /\ s \in Seq(RangeSamples) /\ k \in Nat /\ Len(left) \in Nat /\ Len(s) = k + Len(left)
      /\ \A i \in 1..k : s[i] = b[i]
      /\ \A i \in 1..Len(left) : s[k + i] = left[i]
  BY LenProperties
<1>2. h \in 0..Len(s)
  BY <1>1, TradesAreTimed, StaleBeforeIs
<1>3. Stale(s, time) = Slice(s, 0, h) /\ Kept(s, time) = Slice(s, h, Len(s))
  BY DEF Stale, Kept, Slice
<1> HIDE DEF s, k, h
<1>4. k \in 0..Len(s) /\ Len(s) \in k..Len(s) /\ 0 \in 0..Len(s) /\ k \in 0..Len(s)
  BY <1>1
<1>5. b = Slice(s, 0, k)
  <2>1. Len(b) = k - 0
    BY <1>1 DEF k
  <2>2. \A i \in 1..k-0 : b[i] = s[0 + i]
    BY <1>1
  <2> QED BY <1>1, <1>4, <2>1, <2>2, SliceUnique DEF IsSlice
<1>6. left = Slice(s, k, Len(s))
  <2>1. Len(s) - k = Len(left)
    BY <1>1
  <2>2. IsSlice(left, s, k, Len(s))
    BY <1>1, <2>1, Zenon DEF IsSlice
  <2> QED BY <1>1, <1>4, <2>2, SliceUnique
<1>7. /\ RangesOf(s) = RangesOf(b) + RangesOf(left)
      /\ RangesOf(b) \in Int /\ RangesOf(left) \in Int
  BY <1>1, <1>4, <1>5, <1>6, SamplesSplit
<1>8. /\ RangesOf(s) = RangesOf(Stale(s, time)) + RangesOf(Kept(s, time))
      /\ RangesOf(Stale(s, time)) \in Int /\ RangesOf(Kept(s, time)) \in Int
  BY <1>1, <1>2, <1>3, SamplesSplit
<1>9. RangesOf(Kept(s, time)) = RangesOf(b) + RangesOf(left) - RangesOf(Stale(s, time))
  BY <1>7, <1>8
<1> QED BY <1>9 DEF s

-----------------------------------------------------------------------------
(* The inductive invariant.                                                *)

\* The time of the last trade that was counted.
Now(c) == IF c = <<>> THEN 0 ELSE c[Len(c)].ts

\* Trades are counted in the order of their times.
Counted == counted \in Seq(Trades) /\ Ordered(counted)

\* Each deque of trades is a part of the trades counted: the last of them, or those
\* between two times.
Deques ==
  /\ events.fast = Kept(counted, Now(counted) - FastWindow)
  /\ events.stall = Kept(counted, Now(counted) - StallWindow)
  /\ events.burst = Kept(counted, BurstStart(Now(counted)))
  /\ events.recent = Kept(counted, BurstStart(Now(counted)) + 1)
  /\ events.baseline = Baseline(counted, BaselineStart(Now(counted)), BurstStart(Now(counted)) + 1)

\* There is a range sample for each trade, at its time.
Sampled ==
  /\ ranges.recent \in Seq(RangeSamples) /\ ranges.baseline \in Seq(RangeSamples)
  /\ SameTimes(ranges.recent, events.recent)
  /\ SameTimes(ranges.baseline, events.baseline)

\* Each sum is that of its deque.
Added ==
  /\ sums.fast = Fast(events.fast)
  /\ sums.burst = Volumes(events.burst)
  /\ sums.baseline = Volumes(events.baseline)
  /\ sums.range = RangesOf(ranges.baseline)
  /\ sums.total = Fast(counted) /\ sums.total = sums.buy - sums.sell
  /\ sums.buy \in Int /\ sums.sell \in Int

\* Each deque of extremes has those of its window.
Extreme ==
  /\ ExtremesOf(lows.stall, counted, Now(counted) - StallWindow, AtMost)
  /\ ExtremesOf(lows.burst, counted, BurstStart(Now(counted)), AtMost)
  /\ ExtremesOf(highs.stall, counted, Now(counted) - StallWindow, AtLeast)
  /\ ExtremesOf(highs.burst, counted, BurstStart(Now(counted)), AtLeast)

\* What the last snapshot says of them.
Snapshots == [price : Nat, late : BOOLEAN, fast : Int, previous : Int, low : Nat, high : Nat,
              no_new_low : BOOLEAN, no_new_high : BOOLEAN, move : Int, buy : Int, sell : Int]
Reported ==
  /\ cvd \in Snapshots
  /\ counted # <<>> =>
       /\ cvd.fast = sums.fast
       /\ cvd.low = lows.stall[1].price /\ cvd.high = highs.stall[1].price
       /\ ~cvd.late => /\ cvd.no_new_low => cvd.price > cvd.low
                       /\ cvd.no_new_high => cvd.price < cvd.high
                       /\ cvd.buy = sums.buy /\ cvd.sell = sums.sell

CvdInv == Counted /\ Deques /\ Sampled /\ Added /\ Extreme /\ Reported

-----------------------------------------------------------------------------
(* The first tick.                                                         *)

\* Nothing is in a part of nothing.
LEMMA NothingKept ==
  ASSUME NEW time \in Int
  PROVE  /\ StaleBefore(<<>>, time) = 0 /\ Kept(<<>>, time) = <<>>
         /\ \A end \in Int : Baseline(<<>>, time, end) = <<>>
<1>1. \A t \in Int : StaleBefore(<<>>, t) = 0
  <2> SUFFICES ASSUME NEW t \in Int PROVE StaleBefore(<<>>, t) = 0
    OBVIOUS
  <2>1. <<>> \in Seq(Trades) /\ Len(<<>>) = 0
    BY EmptySeq
  <2>2. StaleBefore(<<>>, t) \in 0..Len(<<>>)
    BY <2>1, TradesAreTimed, StaleBeforeIs
  <2> QED BY <2>1, <2>2
<1>2. SubSeq(<<>>, 1, 0) = <<>>
  OBVIOUS
<1> QED BY <1>1, <1>2 DEF Kept, Baseline, Slice

\* The sum of nothing is 0.
LEMMA NothingAdds == Fast(<<>>) = 0 /\ Volumes(<<>>) = 0 /\ RangesOf(<<>>) = 0
<1>1. /\ <<>> \in Seq(Trades) /\ <<>> \in Seq(RangeSamples) /\ Len(<<>>) = 0
      /\ <<>> \in Seq(Int)
  BY EmptySeq
<1>2. ASSUME NEW s \in Seq(Int), Len(s) = 0 PROVE SumOf(s) = 0
  <2>1. PICK f : Sums(f, s)
    BY SumsExist
  <2>2. SumOf(s) = f[0]
    BY <1>2, <2>1, SumIs
  <2> QED BY <2>1, <2>2 DEF Sums
<1>3. /\ Flows(<<>>) \in Seq(Int) /\ Len(Flows(<<>>)) = 0
      /\ Sizes(<<>>) \in Seq(Int) /\ Len(Sizes(<<>>)) = 0
      /\ Samples(<<>>) \in Seq(Int) /\ Len(Samples(<<>>)) = 0
  BY <1>1, ValuesOf
<1> QED BY <1>2, <1>3 DEF Fast, Volumes, RangesOf

\* The windows are lengths of time.
LEMMA WindowsInt ==
  /\ {FastWindow, StallWindow, BurstWindow, BaselineWindow} \subseteq Nat
  /\ StallWindow > 0 /\ BurstWindow < BaselineWindow
  /\ \A t \in Int : /\ {t - FastWindow, t - StallWindow, BurstStart(t), BurstStart(t) + 1,
                        BaselineStart(t)} \subseteq Int
                    /\ BaselineStart(t) <= BurstStart(t) + 1
  BY CvdAssumption DEF CvdAssumption, BurstStart, BaselineStart

\* Before the first trade there is nothing to match.
LEMMA CvdInitially == CvdInit => CvdInv
<1> SUFFICES ASSUME CvdInit PROVE CvdInv
  OBVIOUS
<1>1. counted = <<>> /\ Now(counted) = 0
  BY DEF CvdInit, Now
<1>2. Counted
  BY <1>1, EmptySeq DEF Counted, Ordered
<1>3. Deques
  BY <1>1, WindowsInt, NothingKept DEF CvdInit, Deques
<1>4. Sampled
  BY EmptySeq DEF CvdInit, Sampled, SameTimes
<1>5. Added
  BY NothingAdds DEF CvdInit, Added
<1>6. Extreme
  BY <1>1, EmptySeq DEF CvdInit, Extreme, ExtremesOf
<1>7. Reported
  BY <1>1 DEF CvdInit, Reported, Snapshots
<1> QED BY <1>2, <1>3, <1>4, <1>5, <1>6, <1>7 DEF CvdInv

-----------------------------------------------------------------------------
(* A trade is counted.                                                     *)

\* A trade no older than the last keeps the trades in order, and is the last then.
LEMMA OrderedAppend ==
  ASSUME NEW c \in Seq(Trades), Ordered(c), NEW e \in Trades, e.ts >= Now(c)
  PROVE  /\ Ordered(Append(c, e)) /\ Append(c, e) \in Seq(Trades) /\ Append(c, e) # <<>>
         /\ Append(c, e)[Len(Append(c, e))] = e
         /\ Now(Append(c, e)) = e.ts /\ Now(c) \in Nat /\ e.ts \in Nat
<1> DEFINE d == Append(c, e)
           n == Len(c)
<1>1. /\ d \in Seq(Trades) /\ n \in Nat /\ Len(d) = n + 1 /\ d[n + 1] = e
      /\ \A i \in 1..n : d[i] = c[i]
  BY AppendProperties, LenProperties
<1>2. \A x \in Trades : x.ts \in Nat
  BY DEF Trades
<1>3. \A i \in 1..n : c[i] \in Trades
  BY ElementOfSeq
<1>4. d # <<>> /\ d[Len(d)] = e
  <2>1. Len(<<>>) = 0
    OBVIOUS
  <2> HIDE DEF d, n
  <2> QED BY <1>1, <2>1
<1>5. Now(c) \in Nat /\ \A i \in 1..n : c[i].ts <= Now(c)
  <2>1. CASE c = <<>>
    BY <2>1 DEF Now
  <2>2. CASE c # <<>>
    <3>1. n \in 1..n /\ \A i \in 1..n : i <= n
      BY <1>1, <2>2, EmptySeq
    <3>2. Now(c) = c[n].ts
      BY <2>2 DEF Now
    <3> QED BY <1>2, <1>3, <3>1, <3>2 DEF Ordered
  <2> QED BY <2>1, <2>2
<1> HIDE DEF d, n
<1>6. Ordered(d)
  <2> SUFFICES ASSUME NEW i \in 1..n+1, NEW j \in 1..n+1, i <= j PROVE d[i].ts <= d[j].ts
    BY <1>1 DEF Ordered
  <2>1. CASE j \in 1..n
    <3>1. i \in 1..n
      BY <1>1, <2>1
    <3> QED BY <1>1, <2>1, <3>1 DEF Ordered, n
  <2>2. CASE j = n + 1 /\ i \in 1..n
    <3>1. d[i].ts = c[i].ts /\ c[i].ts \in Nat /\ c[i].ts <= Now(c) /\ d[j].ts = e.ts /\ e.ts \in Nat
      BY <1>1, <1>2, <1>3, <1>5, <2>2
    <3> QED BY <1>5, <3>1
  <2>3. CASE j = n + 1 /\ i = n + 1
    BY <1>1, <1>2, <2>3
  <2>4. \/ j \in 1..n
        \/ j = n + 1 /\ i \in 1..n
        \/ j = n + 1 /\ i = n + 1
    <3>1. \A m \in Nat : \A k \in 1..m+1 : k \in 1..m \/ k = m + 1
      OBVIOUS
    <3> QED BY <1>1, <3>1, Zenon
  <2> QED BY <2>1, <2>2, <2>3, <2>4, Zenon
<1>7. Now(d) = e.ts
  BY <1>4 DEF Now
<1> QED BY <1>1, <1>2, <1>4, <1>5, <1>6, <1>7 DEF d

\* The windows move on with the time.
LEMMA WindowsMove ==
  ASSUME NEW old \in Nat, NEW new \in Nat, old <= new
  PROVE  /\ {old - FastWindow, old - StallWindow, BurstStart(old), BurstStart(old) + 1,
             new - FastWindow, new - StallWindow, BurstStart(new), BurstStart(new) + 1,
             BaselineStart(new)} \subseteq Int
         /\ old - FastWindow <= new - FastWindow
         /\ old - StallWindow <= new - StallWindow /\ new - StallWindow <= new
         /\ BurstStart(old) <= BurstStart(new) /\ BurstStart(new) <= new
         /\ BurstStart(old) + 1 <= BurstStart(new) + 1
         /\ Forward(BaselineStart(old), BurstStart(old) + 1,
                    BaselineStart(new), BurstStart(new) + 1)
<1>1. /\ FastWindow \in Nat /\ StallWindow \in Nat /\ BurstWindow \in Nat /\ BaselineWindow \in Nat
      /\ StallWindow > 0 /\ BurstWindow < BaselineWindow
  BY CvdAssumption DEF CvdAssumption
<1> QED BY <1>1 DEF BurstStart, BaselineStart, Forward

\* Every part of a sequence of trades is one.
LEMMA PartsAreTrades ==
  ASSUME NEW c \in Seq(Trades), NEW time \in Int
  PROVE  Kept(c, time) \in Seq(Trades) /\ Stale(c, time) \in Seq(Trades)
<1> DEFINE k == StaleBefore(c, time)
           n == Len(c)
<1>1. k \in 0..n /\ n \in Nat
  BY TradesAreTimed, StaleBeforeIs, LenProperties
<1>2. Kept(c, time) = Slice(c, k, n) /\ Stale(c, time) = Slice(c, 0, k)
  BY DEF Kept, Stale, Slice
<1> HIDE DEF k
<1>3. k \in 0..Len(c) /\ n \in k..Len(c) /\ 0 \in 0..Len(c) /\ k \in 0..Len(c)
  BY <1>1
<1> HIDE DEF n
<1> QED BY <1>2, <1>3, SliceIs

\* A low that is pushed drops what is not below it, and a high what is not above it.
LEMMA PushKeepsExtreme ==
  ASSUME NEW s, NEW c \in Seq(Trades), NEW e \in Trades, Ordered(Append(c, e)),
         NEW old \in Int, NEW new \in Int, old <= new, new <= e.ts
  PROVE  /\ ExtremesOf(s, c, old, AtMost) => ExtremesOf(PushLow(s, e, new), Append(c, e), new, AtMost)
         /\ ExtremesOf(s, c, old, AtLeast) => ExtremesOf(PushHigh(s, e, new), Append(c, e), new, AtLeast)
<1>1. e.price \in TradePrices
  BY DEF Trades
<1>2. /\ \A p \in TradePrices : p \in {q \in TradePrices : q >= e.price} <=> <<e.price, p>> \in AtMost
      /\ \A p \in TradePrices : p \in {q \in TradePrices : q <= e.price} <=> <<e.price, p>> \in AtLeast
  <2>1. \A p \in TradePrices : p \in Nat /\ e.price \in Nat
    BY <1>1, CvdAssumption DEF CvdAssumption
  <2> QED BY <1>1, <2>1, PricesAreOrdered
<1>3. ExtremesOf(s, c, old, AtMost) => ExtremesOf(PushLow(s, e, new), Append(c, e), new, AtMost)
  <2> SUFFICES ASSUME ExtremesOf(s, c, old, AtMost)
               PROVE  ExtremesOf(PushLow(s, e, new), Append(c, e), new, AtMost)
    OBVIOUS
  <2> QED BY <1>2, PricesAreOrdered, PushKeepsExtremes DEF PushLow
<1>4. ExtremesOf(s, c, old, AtLeast) => ExtremesOf(PushHigh(s, e, new), Append(c, e), new, AtLeast)
  <2> SUFFICES ASSUME ExtremesOf(s, c, old, AtLeast)
               PROVE  ExtremesOf(PushHigh(s, e, new), Append(c, e), new, AtLeast)
    OBVIOUS
  <2> QED BY <1>2, PricesAreOrdered, PushKeepsExtremes DEF PushHigh
<1> QED BY <1>3, <1>4

\* The extreme of the stall window is off the price of a trade that reports no new one.
LEMMA OffTheExtreme ==
  ASSUME NEW s, NEW d \in Seq(Trades), d # <<>>, NEW e \in Trades, d[Len(d)] = e,
         NEW in_window, OldOrLeft(in_window, s[1], e)
  PROVE  /\ ExtremesOf(s, d, e.ts - StallWindow, AtMost) => e.price > s[1].price
         /\ ExtremesOf(s, d, e.ts - StallWindow, AtLeast) => e.price < s[1].price
<1>1. /\ e.ts \in Nat /\ StallWindow \in Nat /\ StallWindow > 0 /\ TradePrices \subseteq Nat
      /\ \A x \in Trades : x.price \in TradePrices /\ x.ts \in Nat
  BY CvdAssumption DEF CvdAssumption, Trades
<1>2. e.ts - StallWindow \in Int /\ e.ts >= e.ts - StallWindow /\ Len(d) \in 1..Len(d)
  <2>1. Len(d) \in 1..Len(d)
    BY EmptySeq, LenProperties
  <2> QED BY <1>1, <2>1
<1>4. ASSUME NEW better, LinearOrder(better), ExtremesOf(s, d, e.ts - StallWindow, better)
      PROVE  /\ s[1].price \in TradePrices /\ e.price \in TradePrices /\ e.price # s[1].price
             /\ <<s[1].price, e.price>> \in better
  <2>1. /\ s[1] \in Trades /\ s[1].ts >= e.ts - StallWindow
        /\ <<s[1].price, d[Len(d)].price>> \in better
        /\ s[1].price = d[Len(d)].price => s[1] = d[Len(d)]
    <3>1. /\ s[1] \in Trades /\ s[1].ts >= e.ts - StallWindow
          /\ \A j \in 1..Len(d) : d[j].ts >= e.ts - StallWindow => <<s[1].price, d[j].price>> \in better
          /\ s[1].price = d[Len(d)].price => s[1] = d[Len(d)]
      BY <1>2, <1>4, HeadIsExtreme
    <3> QED BY <1>2, <3>1
  <2>2. e.price # s[1].price
    <3> SUFFICES ASSUME e.price = s[1].price PROVE FALSE
      OBVIOUS
    <3>1. s[1] = e
      BY <2>1
    <3>2. e.ts - e.ts >= StallWindow
      BY <3>1 DEF OldOrLeft
    <3> QED BY <1>1, <3>2
  <2> QED BY <1>1, <2>1, <2>2
<1>5. ASSUME ExtremesOf(s, d, e.ts - StallWindow, AtMost) PROVE e.price > s[1].price
  <2>1. /\ s[1].price \in TradePrices /\ e.price \in TradePrices /\ e.price # s[1].price
        /\ <<s[1].price, e.price>> \in AtMost
    BY <1>4, <1>5, PricesAreOrdered
  <2>2. s[1].price <= e.price
    BY <2>1, PricesAreOrdered, Zenon
  <2>3. s[1].price \in Nat /\ e.price \in Nat
    BY <1>1, <2>1
  <2> QED BY <2>1, <2>2, <2>3
<1>6. ASSUME ExtremesOf(s, d, e.ts - StallWindow, AtLeast) PROVE e.price < s[1].price
  <2>1. /\ s[1].price \in TradePrices /\ e.price \in TradePrices /\ e.price # s[1].price
        /\ <<s[1].price, e.price>> \in AtLeast
    BY <1>4, <1>6, PricesAreOrdered
  <2>2. s[1].price >= e.price
    BY <2>1, PricesAreOrdered, Zenon
  <2>3. s[1].price \in Nat /\ e.price \in Nat
    BY <1>1, <2>1
  <2> QED BY <2>1, <2>2, <2>3
<1> QED BY <1>5, <1>6

\* The baseline is a part of the trades.
LEMMA BaselineIsTrades ==
  ASSUME NEW c \in Seq(Trades), Ordered(c), NEW first, NEW end,
         NEW first2, NEW end2, Forward(first, end, first2, end2)
  PROVE  Baseline(c, first, end) \in Seq(Trades)
<1>1. first \in Int /\ end \in Int /\ first <= end
  BY DEF Forward
<1>2. /\ StaleBefore(c, first) \in 0..Len(c)
      /\ StaleBefore(c, end) \in StaleBefore(c, first)..Len(c)
  BY <1>1, TradesAreTimed, EarlierCut
<1> QED BY <1>2, SliceIs DEF Baseline

\* A sum is a number.
LEMMA FlowIsInt == ASSUME NEW c \in Seq(Trades) PROVE Fast(c) \in Int
<1>1. Flows(c) \in Seq(Int)
  BY ValuesOf
<1>2. PICK f : Sums(f, Flows(c))
  BY <1>1, SumsExist
<1> QED BY <1>1, <1>2, SumIs DEF Fast

\* The cumulative flow grows by that of the trade.
LEMMA TotalGrows ==
  ASSUME NEW c \in Seq(Trades), NEW e \in Trades
  PROVE  Fast(Append(c, e)) = Fast(c) + Signed(e)
<1> DEFINE d == Append(c, e)
           n == Len(c)
<1>1. d \in Seq(Trades) /\ n \in Nat /\ Len(d) = n + 1
  BY AppendProperties, LenProperties
<1>2. Slice(c, 0, n) = Slice(d, 0, n)
  BY <1>1, SliceAppend
<1>3. Fast(Slice(d, n, n + 1)) = Signed(e)
  BY LastAdds
<1>4. c = Slice(c, 0, n)
  BY SliceWhole
<1> HIDE DEF d, n
<1>5. d = Slice(d, 0, n + 1)
  BY <1>1, SliceWhole
<1>6. 0 \in 0..Len(d) /\ n \in 0..Len(d) /\ n + 1 \in n..Len(d)
  BY <1>1
<1>7. Fast(Slice(d, 0, n + 1)) = Fast(Slice(d, 0, n)) + Fast(Slice(d, n, n + 1))
  BY <1>1, <1>6, FlowSplits
<1>8. Fast(d) = Fast(c) + Signed(e)
  BY <1>2, <1>3, <1>4, <1>5, <1>7, Zenon
<1> QED BY <1>8 DEF d

\* A trade that is counted keeps the invariant.
LEMMA CountedKeeps ==
  ASSUME CvdInv, NEW e \in Trades, e.ts >= Now(counted), TradeCounted(e)
  PROVE  CvdInv'
<1> DEFINE c == counted
           d == Append(counted, e)
           old == Now(counted)
           new == e.ts
           fast == Append(events.fast, e)
           burst == Append(events.burst, e)
           recent == Append(events.recent, e)
           left == Stale(recent, BurstStart(new) + 1)
           baseline == events.baseline \o left
           burst_in == Kept(burst, BurstStart(new))
           stall_in == Kept(Append(events.stall, e), new - StallWindow)
           sample == [ts |-> e.ts, range |-> BurstRange(burst_in, lows'.burst, highs'.burst)]
           samples == Append(ranges.recent, sample)
           old_samples == Stale(samples, BurstStart(new) + 1)
           all_samples == ranges.baseline \o old_samples
<1>1. /\ counted' = d
      /\ events'.fast = Kept(fast, new - FastWindow)
      /\ events'.stall = stall_in
      /\ events'.burst = burst_in
      /\ events'.recent = Kept(recent, BurstStart(new) + 1)
      /\ events'.baseline = Kept(baseline, BaselineStart(new))
  BY DEF TradeCounted
<1>2. /\ lows'.stall = PushLow(lows.stall, e, new - StallWindow)
      /\ lows'.burst = PushLow(lows.burst, e, BurstStart(new))
      /\ highs'.stall = PushHigh(highs.stall, e, new - StallWindow)
      /\ highs'.burst = PushHigh(highs.burst, e, BurstStart(new))
  BY DEF TradeCounted
<1>3. /\ ranges'.recent = Kept(samples, BurstStart(new) + 1)
      /\ ranges'.baseline = Kept(all_samples, BaselineStart(new))
  BY DEF TradeCounted
<1>4. /\ sums'.fast = sums.fast + Signed(e) - Fast(Stale(fast, new - FastWindow))
      /\ sums'.burst = sums.burst + Volume(e) - Volumes(Stale(burst, BurstStart(new)))
      /\ sums'.baseline = sums.baseline + Volumes(left) - Volumes(Stale(baseline, BaselineStart(new)))
      /\ sums'.range = sums.range + RangesOf(old_samples)
                         - RangesOf(Stale(all_samples, BaselineStart(new)))
      /\ sums'.total = sums.total + Signed(e)
      /\ sums'.buy = sums.buy + e.buy /\ sums'.sell = sums.sell + e.sell
  BY DEF TradeCounted
<1>5. cvd' = [price |-> e.price, late |-> FALSE, fast |-> sums'.fast, previous |-> cvd.fast,
              low |-> lows'.stall[1].price, high |-> highs'.stall[1].price,
              no_new_low |-> OldOrLeft(stall_in, lows'.stall[1], e),
              no_new_high |-> OldOrLeft(stall_in, highs'.stall[1], e),
              move |-> IF Len(burst_in) < 2 THEN 0 ELSE e.price - burst_in[1].price,
              buy |-> sums'.buy, sell |-> sums'.sell]
  BY DEF TradeCounted
<1>6. /\ c \in Seq(Trades) /\ Ordered(c) /\ d \in Seq(Trades) /\ Ordered(d) /\ d # <<>>
      /\ d[Len(d)] = e /\ Now(d) = new /\ old \in Nat /\ new \in Nat /\ old <= new
  BY OrderedAppend DEF CvdInv, Counted
<1>7. /\ {old - FastWindow, old - StallWindow, BurstStart(old), BurstStart(old) + 1,
          new - FastWindow, new - StallWindow, BurstStart(new), BurstStart(new) + 1,
          BaselineStart(new)} \subseteq Int
      /\ old - FastWindow <= new - FastWindow
      /\ old - StallWindow <= new - StallWindow /\ new - StallWindow <= new
      /\ BurstStart(old) <= BurstStart(new) /\ BurstStart(new) <= new
      /\ BurstStart(old) + 1 <= BurstStart(new) + 1
      /\ Forward(BaselineStart(old), BurstStart(old) + 1, BaselineStart(new), BurstStart(new) + 1)
  <2> HIDE DEF old, new, d
  <2> QED BY <1>6, WindowsMove, Zenon
<1>8. /\ events.fast = Kept(c, old - FastWindow)
      /\ events.stall = Kept(c, old - StallWindow)
      /\ events.burst = Kept(c, BurstStart(old))
      /\ events.recent = Kept(c, BurstStart(old) + 1)
      /\ events.baseline = Baseline(c, BaselineStart(old), BurstStart(old) + 1)
  BY DEF CvdInv, Deques
<1> HIDE DEF d, old, new, fast, burst, recent, left, baseline, burst_in, stall_in, sample,
             samples, old_samples, all_samples
\* The deques of trades, and their sums.
<1>9. Counted'
  BY <1>1, <1>6 DEF Counted
<1>10. /\ Kept(fast, new - FastWindow) = Kept(d, new - FastWindow)
       /\ Fast(Kept(d, new - FastWindow)) =
            Fast(events.fast) + Signed(e) - Fast(Stale(fast, new - FastWindow))
  BY <1>6, <1>7, <1>8, NextSums DEF d, fast
<1>11. stall_in = Kept(d, new - StallWindow)
  BY <1>6, <1>7, <1>8, NextSums DEF d, stall_in
<1>12. /\ burst_in = Kept(d, BurstStart(new))
       /\ Volumes(burst_in) = Volumes(events.burst) + Volume(e) - Volumes(Stale(burst, BurstStart(new)))
  BY <1>6, <1>7, <1>8, NextSums DEF d, burst, burst_in
<1>13. Kept(recent, BurstStart(new) + 1) = Kept(d, BurstStart(new) + 1)
  BY <1>6, <1>7, <1>8, NextSums DEF d, recent
<1>14. /\ Kept(baseline, BaselineStart(new)) = Baseline(d, BaselineStart(new), BurstStart(new) + 1)
       /\ Volumes(Kept(baseline, BaselineStart(new))) =
            Volumes(events.baseline) + Volumes(left) - Volumes(Stale(baseline, BaselineStart(new)))
  BY <1>6, <1>7, <1>8, NextVolume DEF d, recent, left, baseline
<1>15. Deques'
  BY <1>1, <1>6, <1>10, <1>11, <1>12, <1>13, <1>14 DEF Deques
\* The extremes.
<1>16. Extreme'
  <2>1. ExtremesOf(lows'.stall, d, new - StallWindow, AtMost)
    BY <1>2, <1>6, <1>7, PushKeepsExtreme DEF CvdInv, Extreme, d, old, new
  <2>2. ExtremesOf(lows'.burst, d, BurstStart(new), AtMost)
    BY <1>2, <1>6, <1>7, PushKeepsExtreme DEF CvdInv, Extreme, d, old, new
  <2>3. ExtremesOf(highs'.stall, d, new - StallWindow, AtLeast)
    BY <1>2, <1>6, <1>7, PushKeepsExtreme DEF CvdInv, Extreme, d, old, new
  <2>4. ExtremesOf(highs'.burst, d, BurstStart(new), AtLeast)
    BY <1>2, <1>6, <1>7, PushKeepsExtreme DEF CvdInv, Extreme, d, old, new
  <2> QED BY <1>1, <1>6, <2>1, <2>2, <2>3, <2>4 DEF Extreme, AtMost, AtLeast
<1>17. ASSUME NEW s, NEW first \in Int, NEW better, LinearOrder(better), ExtremesOf(s, d, first, better)
       PROVE  s[1].price \in Nat
  <2>1. s[1] \in Trades
    BY <1>6, <1>17, HeadIsExtreme
  <2> QED BY <2>1, CvdAssumption DEF CvdAssumption, Trades
<1>18. /\ lows'.stall[1].price \in Nat /\ lows'.burst[1].price \in Nat
       /\ highs'.stall[1].price \in Nat /\ highs'.burst[1].price \in Nat
  BY <1>1, <1>6, <1>7, <1>16, <1>17, PricesAreOrdered DEF Extreme, AtMost, AtLeast
\* The range samples, and their sum.
<1>19. sample \in RangeSamples /\ sample.ts = e.ts
  <2>1. BurstRange(burst_in, lows'.burst, highs'.burst) \in Int
    BY <1>18 DEF BurstRange
  <2> QED BY <1>6, <2>1 DEF sample, RangeSamples, new
<1>20. /\ ranges.recent \in Seq(RangeSamples) /\ ranges.baseline \in Seq(RangeSamples)
       /\ SameTimes(ranges.recent, events.recent) /\ SameTimes(ranges.baseline, events.baseline)
       /\ events.recent \in Seq(Trades)
  BY <1>6, <1>7, <1>8, PartsAreTrades DEF CvdInv, Sampled
<1>21. /\ samples \in Seq(RangeSamples) /\ recent \in Seq(Trades) /\ SameTimes(samples, recent)
  BY <1>19, <1>20, SameTimesAppend DEF samples, recent
<1>22. /\ SameTimes(old_samples, left)
       /\ SameTimes(Kept(samples, BurstStart(new) + 1), Kept(recent, BurstStart(new) + 1))
       /\ old_samples \in Seq(RangeSamples) /\ left \in Seq(Trades)
       /\ Kept(samples, BurstStart(new) + 1) \in Seq(RangeSamples)
  BY <1>7, <1>21, SameTimesCut DEF old_samples, left
<1>23. /\ all_samples \in Seq(RangeSamples) /\ baseline \in Seq(Trades)
       /\ SameTimes(all_samples, baseline)
  <2>1. events.baseline \in Seq(Trades)
    BY <1>6, <1>7, <1>8, BaselineIsTrades
  <2> QED BY <1>20, <1>22, <2>1, SameTimesConcat, ConcatProperties DEF all_samples, baseline
<1>24. /\ SameTimes(Kept(all_samples, BaselineStart(new)), Kept(baseline, BaselineStart(new)))
       /\ Kept(all_samples, BaselineStart(new)) \in Seq(RangeSamples)
  BY <1>7, <1>23, SameTimesCut
<1>25. Sampled'
  BY <1>1, <1>3, <1>22, <1>24 DEF Sampled
<1>26. RangesOf(Kept(all_samples, BaselineStart(new))) =
         RangesOf(ranges.baseline) + RangesOf(old_samples)
           - RangesOf(Stale(all_samples, BaselineStart(new)))
  BY <1>7, <1>20, <1>22, NextRanges DEF all_samples
\* What is added up.
<1>27. /\ sums.fast = Fast(events.fast) /\ sums.burst = Volumes(events.burst)
       /\ sums.baseline = Volumes(events.baseline) /\ sums.range = RangesOf(ranges.baseline)
       /\ sums.total = Fast(c) /\ sums.total = sums.buy - sums.sell
       /\ sums.buy \in Int /\ sums.sell \in Int
  BY DEF CvdInv, Added
<1>28. Fast(d) = Fast(c) + Signed(e)
  BY <1>6, TotalGrows DEF d
<1>29. sums'.buy \in Int /\ sums'.sell \in Int /\ sums'.total = sums'.buy - sums'.sell
  <2>1. e.buy \in Int /\ e.sell \in Int /\ Signed(e) = e.buy - e.sell
    BY DEF Trades, Signed
  <2> QED BY <1>4, <1>27, <2>1
<1>30. Added'
  <2>1. sums'.fast = Fast(events'.fast)
    BY <1>1, <1>4, <1>10, <1>27, Zenon
  <2>2. sums'.burst = Volumes(events'.burst)
    BY <1>1, <1>4, <1>12, <1>27, Zenon
  <2>3. sums'.baseline = Volumes(events'.baseline)
    BY <1>1, <1>4, <1>14, <1>27, Zenon
  <2>4. sums'.range = RangesOf(ranges'.baseline)
    BY <1>3, <1>4, <1>26, <1>27, Zenon
  <2>5. sums'.total = Fast(counted')
    BY <1>1, <1>4, <1>27, <1>28, Zenon
  <2> QED BY <1>29, <2>1, <2>2, <2>3, <2>4, <2>5 DEF Added
\* What is reported.
<1>31. sums'.fast \in Int
  BY <1>6, <1>7, <1>10, <1>30, <1>1, FlowIsInt, PartsAreTrades DEF Added
<1>32. cvd' \in Snapshots
  <2>1. e.price \in Nat /\ cvd.fast \in Int
    BY CvdAssumption DEF CvdAssumption, Trades, CvdInv, Reported, Snapshots
  <2>2. (IF Len(burst_in) < 2 THEN 0 ELSE e.price - burst_in[1].price) \in Int
    <3>1. burst_in \in Seq(Trades)
      BY <1>6, <1>7, <1>12, PartsAreTrades
    <3>2. CASE Len(burst_in) < 2
      BY <3>2
    <3>3. CASE ~(Len(burst_in) < 2)
      <4>1. 1 \in 1..Len(burst_in)
        BY <3>1, <3>3, LenProperties
      <4>2. burst_in[1] \in Trades
        BY <3>1, <4>1, ElementOfSeq
      <4>3. burst_in[1].price \in Nat
        BY <4>2, CvdAssumption DEF CvdAssumption, Trades
      <4> QED BY <2>1, <3>3, <4>3
    <3> QED BY <3>2, <3>3
  <2>3. /\ OldOrLeft(stall_in, lows'.stall[1], e) \in BOOLEAN
        /\ OldOrLeft(stall_in, highs'.stall[1], e) \in BOOLEAN
    BY DEF OldOrLeft
  <2> QED BY <1>5, <1>18, <1>29, <1>31, <2>1, <2>2, <2>3 DEF Snapshots
<1>33. Reported'
  <2>1. /\ cvd'.fast = sums'.fast
        /\ cvd'.low = lows'.stall[1].price /\ cvd'.high = highs'.stall[1].price
        /\ cvd'.price = e.price
        /\ cvd'.no_new_low = OldOrLeft(stall_in, lows'.stall[1], e)
        /\ cvd'.no_new_high = OldOrLeft(stall_in, highs'.stall[1], e)
        /\ cvd'.buy = sums'.buy /\ cvd'.sell = sums'.sell
    BY <1>5
  <2>2. /\ ExtremesOf(lows'.stall, d, e.ts - StallWindow, AtMost)
        /\ ExtremesOf(highs'.stall, d, e.ts - StallWindow, AtLeast)
    BY <1>1, <1>6, <1>16 DEF Extreme, AtMost, AtLeast, new
  <2>3. /\ OldOrLeft(stall_in, lows'.stall[1], e) => e.price > lows'.stall[1].price
        /\ OldOrLeft(stall_in, highs'.stall[1], e) => e.price < highs'.stall[1].price
    BY <1>6, <2>2, OffTheExtreme
  <2> QED BY <1>32, <2>1, <2>3 DEF Reported
<1> QED BY <1>9, <1>15, <1>16, <1>25, <1>30, <1>33 DEF CvdInv

-----------------------------------------------------------------------------
(* Every tick.                                                              *)

\* A trade that is late changes the price of the snapshot and nothing that is counted.
LEMMA LateKeeps ==
  ASSUME CvdInv, NEW price \in TradePrices, TradeLate(price)
  PROVE  CvdInv'
<1>1. /\ cvd' = [cvd EXCEPT !.price = price, !.late = TRUE, !.buy = 0, !.sell = 0]
      /\ UNCHANGED <<events, lows, highs, ranges, sums, counted>>
  BY DEF TradeLate
<1>2. Counted' /\ Deques' /\ Sampled' /\ Added' /\ Extreme'
  BY <1>1 DEF CvdInv, Counted, Deques, Sampled, Added, Extreme, AtMost, AtLeast
<1>3. price \in Nat
  BY CvdAssumption DEF CvdAssumption
<1>4. /\ cvd' \in Snapshots /\ cvd'.late
      /\ cvd'.fast = cvd.fast /\ cvd'.low = cvd.low /\ cvd'.high = cvd.high
  <2>1. cvd \in Snapshots
    BY DEF CvdInv, Reported
  <2>2. cvd' = [cvd EXCEPT !.price = price, !.late = TRUE, !.buy = 0, !.sell = 0]
    BY <1>1
  <2>3. cvd' = [price |-> price, late |-> TRUE, fast |-> cvd.fast, previous |-> cvd.previous,
                low |-> cvd.low, high |-> cvd.high,
                no_new_low |-> cvd.no_new_low, no_new_high |-> cvd.no_new_high,
                move |-> cvd.move, buy |-> 0, sell |-> 0]
    BY <2>1, <2>2 DEF Snapshots
  <2> QED BY <1>3, <2>1, <2>3 DEF Snapshots
<1>5. Reported'
  BY <1>1, <1>4 DEF CvdInv, Reported
<1> QED BY <1>2, <1>5 DEF CvdInv

\* Every step keeps the invariant.
LEMMA CvdStep == CvdInv /\ [CvdNext]_cvd_vars => CvdInv'
<1> SUFFICES ASSUME CvdInv, [CvdNext]_cvd_vars PROVE CvdInv'
  OBVIOUS
<1>1. ASSUME NEW gap \in 0..MaxGap, NEW price \in TradePrices,
             NEW side \in {"buy", "sell", "unknown"},
             TradeCounted(Trade(IF counted = <<>> THEN 0 ELSE LastTradeAt + gap, price, side))
      PROVE  CvdInv'
  <2> DEFINE at == IF counted = <<>> THEN 0 ELSE LastTradeAt + gap
  <2>1. Now(counted) \in Nat
    <3>1. CASE counted = <<>>
      BY <3>1 DEF Now
    <3>2. CASE counted # <<>>
      <4>1. counted \in Seq(Trades) /\ Len(counted) \in 1..Len(counted)
        BY <3>2, EmptySeq, LenProperties DEF CvdInv, Counted
      <4>2. counted[Len(counted)] \in Trades
        BY <4>1, ElementOfSeq
      <4> QED BY <3>2, <4>2 DEF Now, Trades
    <3> QED BY <3>1, <3>2
  <2>2. at \in Nat /\ at >= Now(counted)
    <3>1. gap \in Nat
      BY CvdAssumption DEF CvdAssumption
    <3> QED BY <2>1, <3>1 DEF Now, LastTradeAt
  <2> HIDE DEF at
  <2>3. Trade(at, price, side) \in Trades /\ Trade(at, price, side).ts >= Now(counted)
    BY <2>2 DEF Trade, Trades
  <2> QED BY <1>1, <2>3, CountedKeeps DEF at
<1>2. ASSUME NEW price \in TradePrices, TradeLate(price)
      PROVE  CvdInv'
  BY <1>2, LateKeeps
<1>3. CASE UNCHANGED cvd_vars
  BY <1>3 DEF cvd_vars, CvdInv, Counted, Deques, Sampled, Added, Extreme, Reported, AtMost, AtLeast
<1> QED BY <1>1, <1>2, <1>3 DEF CvdNext

-----------------------------------------------------------------------------
(* The sums and extremes are those of the trades of their windows.         *)

\* WindowsMatchTrades, whatever was counted.
LEMMA InvMatches == CvdInv => WindowsMatchTrades
<1> SUFFICES ASSUME CvdInv, counted # <<>> PROVE WindowsMatchTrades
  BY DEF WindowsMatchTrades
<1> DEFINE n == Len(counted)
           at == LastTradeAt
           stalled == {counted[i].price : i \in {j \in 1..Len(counted) :
                                                   counted[j].ts >= at - StallWindow}}
<1>1. /\ counted \in Seq(Trades) /\ Ordered(counted) /\ n \in Nat /\ n \in 1..n
      /\ \A i \in 1..n : counted[i] \in Trades
  <2>1. counted \in Seq(Trades) /\ Ordered(counted)
    BY DEF CvdInv, Counted
  <2>2. n \in Nat /\ n \in 1..n
    BY <2>1, EmptySeq, LenProperties
  <2> QED BY <2>1, <2>2, ElementOfSeq
<1>2. Now(counted) = at /\ at = counted[n].ts
  BY DEF Now, LastTradeAt
<1>3. at \in Nat /\ \A i \in 1..n : counted[i].ts \in Nat /\ counted[i].ts <= at
  <2>1. \A i \in 1..n : counted[i].ts \in Nat
    BY <1>1 DEF Trades
  <2>2. \A i \in 1..n : i <= n
    BY <1>1
  <2>3. \A i \in 1..n : counted[i].ts <= counted[n].ts
    BY <1>1, <2>2 DEF Ordered
  <2> QED BY <1>1, <1>2, <2>1, <2>3
<1>4. /\ {at - FastWindow, at - StallWindow, BurstStart(at), BurstStart(at) + 1,
          BaselineStart(at)} \subseteq Int
      /\ Forward(BaselineStart(at), BurstStart(at) + 1, BaselineStart(at), BurstStart(at) + 1)
  BY <1>3, WindowsMove
<1> HIDE DEF n, at
\* A window up to the last trade.
<1>5. ASSUME NEW first \in Int
      PROVE  /\ Between(first, at, Flows(counted)) = Fast(Kept(counted, first))
             /\ Between(first, at, Sizes(counted)) = Volumes(Kept(counted, first))
  <2> DEFINE a == StaleBefore(counted, first)
             t == Slice(counted, a, n)
  <2>1. a \in 0..n
    BY <1>1, TradesAreTimed, StaleBeforeIs DEF n
  <2>2. Kept(counted, first) = t
    BY DEF Kept, Slice, n
  <2> HIDE DEF a
  <2>3. a \in 0..Len(counted) /\ n \in a..Len(counted)
    BY <1>1, <2>1 DEF n
  <2>4. t \in Seq(Trades) /\ IsSlice(Flows(t), Flows(counted), a, n) /\ IsSlice(Sizes(t), Sizes(counted), a, n)
    BY <1>1, <2>3, SliceIs, ValuesOfSlice
  <2> HIDE DEF t
  <2>5. /\ Flows(counted) \in Seq(Int) /\ Len(Flows(counted)) = Len(counted)
        /\ Sizes(counted) \in Seq(Int) /\ Len(Sizes(counted)) = Len(counted)
        /\ Flows(t) \in Seq(Int) /\ Sizes(t) \in Seq(Int)
    BY <1>1, <2>4, ValuesOf
  <2>6. \A i \in 1..Len(counted) : counted[i].ts <= at <=> i <= n
    BY <1>1, <1>3 DEF n
  <2>7. Spans(counted, first, at, a, n)
    BY <1>3, <2>3, <2>6 DEF Spans, a
  <2>8. Between(first, at, Flows(counted)) = SumOf(Flows(t))
    BY <1>1, <2>4, <2>5, <2>7, BetweenIs
  <2>9. Between(first, at, Sizes(counted)) = SumOf(Sizes(t))
    BY <1>1, <2>4, <2>5, <2>7, BetweenIs
  <2> QED BY <2>2, <2>8, <2>9 DEF Fast, Volumes
\* The baseline.
<1>6. /\ Between(BaselineStart(at), BurstStart(at), Sizes(counted)) = Volumes(events.baseline)
      /\ Between(BaselineStart(at), BurstStart(at), [i \in 1..Len(counted) |-> 1]) =
           Len(events.baseline)
  <2> DEFINE first == BaselineStart(at)
             end == BurstStart(at) + 1
             a == StaleBefore(counted, first)
             b == StaleBefore(counted, end)
             t == Slice(counted, a, b)
             ones == [i \in 1..Len(counted) |-> 1]
             some == [i \in 1..b-a |-> 1]
  <2>1. events.baseline = t
    BY <1>2 DEF CvdInv, Deques, Baseline
  <2>2. first \in Int /\ end \in Int /\ first <= end
    BY <1>4 DEF Forward
  <2>3. a \in 0..n /\ b \in a..n
    BY <1>1, <2>2, TradesAreTimed, EarlierCut DEF n
  <2>4. \A i \in 1..Len(counted) : counted[i].ts < end <=> i <= b
    BY <1>1, <2>2, TradesAreTimed, OrderedCut
  <2>5. \A i \in 1..Len(counted) : counted[i].ts <= BurstStart(at) <=> i <= b
    <3>1. BurstStart(at) \in Int
      BY <1>4
    <3>2. \A i \in 1..Len(counted) : counted[i].ts \in Int
      BY <1>3 DEF n
    <3>3. \A i \in 1..Len(counted) : counted[i].ts <= BurstStart(at) <=> counted[i].ts < end
      BY <3>1, <3>2
    <3> QED BY <2>4, <3>3
  <2> HIDE DEF a, b
  <2>6. a \in 0..Len(counted) /\ b \in a..Len(counted) /\ b - a \in Nat
    BY <1>1, <2>3 DEF n
  <2>7. t \in Seq(Trades) /\ IsSlice(Sizes(t), Sizes(counted), a, b) /\ Len(t) = b - a
    BY <1>1, <2>6, SliceIs, ValuesOfSlice DEF IsSlice
  <2> HIDE DEF t
  <2>8. /\ Sizes(counted) \in Seq(Int) /\ Len(Sizes(counted)) = Len(counted) /\ Sizes(t) \in Seq(Int)
    BY <1>1, <2>7, ValuesOf
  <2>9. Spans(counted, first, BurstStart(at), a, b)
    BY <1>4, <2>2, <2>5, <2>6 DEF Spans, a
  <2>10. Between(first, BurstStart(at), Sizes(counted)) = SumOf(Sizes(t))
    BY <1>1, <2>7, <2>8, <2>9, BetweenIs
  <2>11. /\ ones \in Seq(Int) /\ Len(ones) = Len(counted)
         /\ some \in Seq(Int) /\ Len(some) = b - a /\ SumOf(some) = b - a
    <3>1. Len(counted) \in Nat
      BY <1>1 DEF n
    <3> QED BY <2>6, <3>1, SumOfOnes
  <2>12. IsSlice(some, ones, a, b)
    <3>1. \A i \in 1..b-a : a + i \in 1..Len(counted)
      BY <1>1, <2>3 DEF n
    <3> QED BY <2>11, <3>1 DEF IsSlice
  <2> HIDE DEF ones, some
  <2>13. Between(first, BurstStart(at), ones) = SumOf(some)
    BY <1>1, <2>9, <2>11, <2>12, BetweenIs
  <2> QED BY <2>1, <2>7, <2>10, <2>11, <2>13 DEF Volumes, ones
<1>7. Len(ranges.baseline) = Len(events.baseline)
  BY DEF CvdInv, Sampled, SameTimes
\* The extremes.
<1>8. ASSUME NEW s, NEW better, LinearOrder(better), ExtremesOf(s, counted, at - StallWindow, better)
      PROVE  s[1].price \in stalled /\ \A p \in stalled : <<s[1].price, p>> \in better
  <2>1. /\ s[1] \in Trades /\ s[1].ts >= at - StallWindow
        /\ \E j \in 1..Len(counted) : s[1] = counted[j]
        /\ \A j \in 1..Len(counted) :
             counted[j].ts >= at - StallWindow => <<s[1].price, counted[j].price>> \in better
    BY <1>1, <1>4, <1>8, HeadIsExtreme
  <2> QED BY <2>1
<1>9. stalled \subseteq TradePrices
  BY <1>1 DEF n, Trades
<1>10. /\ lows.stall[1].price \in stalled /\ \A p \in stalled : lows.stall[1].price <= p
       /\ highs.stall[1].price \in stalled /\ \A p \in stalled : highs.stall[1].price >= p
  <2>1. /\ ExtremesOf(lows.stall, counted, at - StallWindow, AtMost)
        /\ ExtremesOf(highs.stall, counted, at - StallWindow, AtLeast)
    BY <1>2 DEF CvdInv, Extreme
  <2> HIDE DEF stalled
  <2>2. /\ lows.stall[1].price \in stalled /\ \A p \in stalled : <<lows.stall[1].price, p>> \in AtMost
        /\ highs.stall[1].price \in stalled /\ \A p \in stalled : <<highs.stall[1].price, p>> \in AtLeast
    BY <1>8, <2>1, PricesAreOrdered
  <2> QED BY <1>9, <2>2, PricesAreOrdered
\* Together.
<1>11. /\ sums.fast = Between(at - FastWindow, at, Flows(counted))
       /\ sums.burst = Between(BurstStart(at), at, Sizes(counted))
  BY <1>2, <1>4, <1>5 DEF CvdInv, Added, Deques
<1>12. /\ sums.baseline = Between(BaselineStart(at), BurstStart(at), Sizes(counted))
       /\ sums.range = RangesOf(ranges.baseline)
       /\ Len(ranges.baseline) =
            Between(BaselineStart(at), BurstStart(at), [i \in 1..Len(counted) |-> 1])
       /\ sums.total = Fast(counted) /\ sums.buy - sums.sell = sums.total
  BY <1>6, <1>7 DEF CvdInv, Added
<1>13. /\ cvd.fast = sums.fast
       /\ cvd.low \in stalled /\ \A p \in stalled : cvd.low <= p
       /\ cvd.high \in stalled /\ \A p \in stalled : cvd.high >= p
       /\ ~cvd.late => /\ cvd.no_new_low => cvd.price > cvd.low
                       /\ cvd.no_new_high => cvd.price < cvd.high
                       /\ cvd.buy = sums.buy /\ cvd.sell = sums.sell
  <2> HIDE DEF stalled
  <2> QED BY <1>10 DEF CvdInv, Reported
<1> QED BY <1>11, <1>12, <1>13, Zenon DEF WindowsMatchTrades, at

\* The sums and extremes of every window are those of its trades, after any number of
\* trades, late or not, for every length of the windows.
THEOREM WindowsCorrect == CvdSpec => []WindowsMatchTrades
<1>1. CvdInit => CvdInv
  BY CvdInitially
<1>2. CvdInv /\ [CvdNext]_cvd_vars => CvdInv'
  BY CvdStep
<1>3. CvdInv => WindowsMatchTrades
  BY InvMatches
<1> QED BY <1>1, <1>2, <1>3, PTL DEF CvdSpec
=============================================================================
