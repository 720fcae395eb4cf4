-------------------------- MODULE RiskEngineProofs --------------------------
(***************************************************************************)
(* The safety of the rate limiter and of the risk engine for every set of  *)
(* accounts, orders and operators, every limit and every word size.        *)
(***************************************************************************)
EXTENDS RiskEngine, SequenceTheorems, TLAPS

\* The prover of a leaf that names none.
USE ZenonT(30)

\* Position of the j-th last order in a ring whose next position is i.
Back(i, j) == (i + WindowSize - j) % WindowSize

\* The ring holds the times of the last WindowSize recorded orders.
RingHoldsLast ==
  \A t \in Trackers : \A j \in 1 .. WindowSize :
    j <= Len(passed[t]) =>
      timestamps[t][Back(index[t], j)] = passed[t][Len(passed[t]) + 1 - j].time

\* Orders are recorded in the order of their times, none in the future.
TimesInOrder ==
  \A t \in Trackers :
    /\ \A i, k \in DOMAIN passed[t] : i <= k => passed[t][i].time <= passed[t][k].time
    /\ \A k \in DOMAIN passed[t] : passed[t][k].time <= clock

\* count, which never decreases, is a limit that all recorded orders respect.
CountIsLimit ==
  \A t \in Trackers :
    /\ count[t] <= Len(passed[t])
    /\ count[t] = 0 => Len(passed[t]) = 0
    /\ \A k \in DOMAIN passed[t] :
         k > count[t] => passed[t][k].time - passed[t][k - count[t]].time >= Second

\* The inductive invariant: an order let through because count is below a
\* raised limit is late enough because of CountIsLimit, one let through by the
\* ring because of RingHoldsLast.
RateInv == LimiterTypeOK /\ RingHoldsLast /\ TimesInOrder /\ CountIsLimit /\ RateWithinLimit
-----------------------------------------------------------------------------
\* Back stays in the ring, and the write moves it by one.
LEMMA BackProperties ==
  ASSUME NEW i \in Ring, NEW j \in 1 .. WindowSize
  PROVE  /\ Back(i, j) \in Ring
         /\ Advance(i) \in Ring
         /\ Back(Advance(i), 1) = i
         /\ j > 1 => Back(Advance(i), j) = Back(i, j - 1) /\ Back(Advance(i), j) # i
<1>1. WindowSize \in Nat \ {0} /\ i \in Nat /\ i < WindowSize /\ j \in Nat /\ j >= 1 /\ j <= WindowSize
  BY RateAssumption, SMTT(30) DEF Ring
<1>2. Advance(i) = IF i + 1 < WindowSize THEN i + 1 ELSE 0
  BY <1>1, SMTT(30) DEF Advance
<1>3. ASSUME NEW a \in Ring, NEW b \in 1 .. WindowSize
      PROVE  Back(a, b) = IF a < b THEN a + WindowSize - b ELSE a - b
  <2>1. a \in Nat /\ a < WindowSize /\ b \in Nat /\ b >= 1 /\ b <= WindowSize
    BY <1>1, SMTT(30) DEF Ring
  <2>2. a + WindowSize - b \in Nat /\ a + WindowSize - b < 2 * WindowSize
    BY <1>1, <2>1, SMTT(30)
  <2>3. CASE a < b
    BY <1>1, <2>1, <2>2, <2>3, SMTT(30) DEF Back
  <2>4. CASE a >= b
    BY <1>1, <2>1, <2>2, <2>4, SMTT(30) DEF Back
  <2>. QED  BY <2>1, <2>3, <2>4, SMTT(30)
<1>4. Advance(i) \in Ring
  BY <1>1, <1>2, SMTT(30) DEF Ring
<1>5. 1 \in 1 .. WindowSize /\ (j > 1 => j - 1 \in 1 .. WindowSize)
  BY <1>1, SMTT(30)
<1>6. Back(i, j) \in Ring
  BY <1>1, <1>3, SMTT(30) DEF Ring
<1>7. Back(Advance(i), 1) = i
  <2>1. Back(Advance(i), 1) = IF Advance(i) < 1 THEN Advance(i) + WindowSize - 1 ELSE Advance(i) - 1
    BY <1>3, <1>4, <1>5
  <2>. QED  BY <1>1, <1>2, <2>1, SMTT(30)
<1>8. ASSUME j > 1
      PROVE  Back(Advance(i), j) = Back(i, j - 1) /\ Back(Advance(i), j) # i
  <2>1. Back(Advance(i), j) = IF Advance(i) < j THEN Advance(i) + WindowSize - j ELSE Advance(i) - j
    BY <1>3, <1>4
  <2>2. Back(i, j - 1) = IF i < j - 1 THEN i + WindowSize - (j - 1) ELSE i - (j - 1)
    BY <1>3, <1>5, <1>8
  <2>. QED  BY <1>1, <1>2, <1>8, <2>1, <2>2, SMTT(30)
<1>. QED  BY <1>4, <1>6, <1>7, <1>8

\* The step of check_rate that records an order.
Records(t, limit) ==
  /\ limit > 0 /\ Allowed(t, limit)
  /\ timestamps' = [timestamps EXCEPT ![t][index[t]] = clock]
  /\ index' = [index EXCEPT ![t] = Advance(@)]
  /\ count' = [count EXCEPT ![t] = IF @ < limit THEN @ + 1 ELSE @]
  /\ passed' = [passed EXCEPT ![t] = Append(@, [time |-> clock, limit |-> limit])]
  /\ UNCHANGED clock

\* check_rate that records an order keeps the invariant.
LEMMA RecordKeeps ==
  ASSUME RateInv, NEW t \in Trackers, NEW limit \in Limits, Records(t, limit)
  PROVE  RateInv'
<1> DEFINE s == passed[t]
           n == Len(s)
           e == [time |-> clock, limit |-> limit]
           c == count[t]
<1>0. /\ passed \in [Trackers -> Seq([time : Nat, limit : 1 .. WindowSize])]
      /\ count \in [Trackers -> Nat] /\ index \in [Trackers -> Ring] /\ clock \in Nat
      /\ timestamps \in [Trackers -> [Ring -> Nat]]
  BY DEF RateInv, LimiterTypeOK
<1>1. /\ WindowSize \in Nat /\ WindowSize >= 1 /\ Second \in Nat
      /\ limit \in Nat /\ limit >= 1 /\ limit <= WindowSize
      /\ clock \in Nat /\ c \in Nat /\ n \in Nat
  <2>1. limit \in 0 .. WindowSize /\ limit > 0 /\ WindowSize \in Nat \ {0} /\ Second \in Nat
    BY RateAssumption DEF Records
  <2>2. s \in Seq([time : Nat, limit : 1 .. WindowSize]) /\ c \in Nat
    BY <1>0
  <2>3. n \in Nat
    BY <2>2, LenProperties
  <2>. QED  BY <1>0, <2>1, <2>2, <2>3, SMTT(30)
<1>2. /\ e \in [time : Nat, limit : 1 .. WindowSize]
      /\ s \in Seq([time : Nat, limit : 1 .. WindowSize])
      /\ index[t] \in Ring /\ limit \in 1 .. WindowSize
  <2>1. limit \in 1 .. WindowSize
    BY <1>1, SMTT(30)
  <2>. QED  BY <1>0, <2>1
<1>3. /\ passed'[t] = Append(s, e) /\ Len(passed'[t]) = n + 1
      /\ passed'[t][n + 1] = e /\ e.time = clock /\ e.limit = limit
      /\ \A k \in 1 .. n : passed'[t][k] = s[k]
      /\ passed'[t] \in Seq([time : Nat, limit : 1 .. WindowSize])
      /\ DOMAIN s = 1 .. n /\ DOMAIN passed'[t] = 1 .. n + 1
  BY <1>0, <1>1, <1>2, AppendProperties, LenProperties, SMTT(30) DEF Records
<1>4. \A k \in 1 .. n : s[k].time \in Nat /\ s[k].limit \in 1 .. WindowSize
  <2>1. ASSUME NEW k \in 1 .. n PROVE s[k] \in [time : Nat, limit : 1 .. WindowSize]
    BY <1>2, ElementOfSeq
  <2>. QED  BY <2>1
<1>5. \A u \in Trackers \ {t} : /\ passed'[u] = passed[u] /\ timestamps'[u] = timestamps[u]
                                /\ index'[u] = index[u] /\ count'[u] = count[u]
  BY <1>0 DEF Records
<1>6. /\ clock' = clock
      /\ index'[t] = Advance(index[t])
      /\ count'[t] = IF c < limit THEN c + 1 ELSE c
      /\ timestamps'[t] = [timestamps[t] EXCEPT ![index[t]] = clock]
  BY <1>0 DEF Records
<1>7. Advance(index[t]) \in Ring
  BY <1>2, BackProperties
<1> HIDE DEF s, n, c, e
\* The order is late enough for its limit.
<1>8. n >= limit => clock - s[n + 1 - limit].time >= Second
  <2>1. SUFFICES ASSUME n >= limit PROVE clock - s[n + 1 - limit].time >= Second
    OBVIOUS
  <2>2. CASE c < limit
    <3>1. n > c /\ n \in 1 .. n /\ n - c \in 1 .. n /\ n + 1 - limit \in 1 .. n /\ n + 1 - limit <= n - c
      <4>1. c # 0
        BY <1>1, <2>1, SMTT(30) DEF RateInv, CountIsLimit, n, s, c
      <4>. QED  BY <1>1, <2>1, <2>2, <4>1, SMTT(30)
    <3>2. s[n].time - s[n - c].time >= Second
      BY <1>3, <3>1 DEF RateInv, CountIsLimit, s, c
    <3>3. s[n + 1 - limit].time <= s[n - c].time /\ s[n].time <= clock
      BY <1>3, <3>1 DEF RateInv, TimesInOrder, s
    <3>4. s[n].time \in Nat /\ s[n - c].time \in Nat /\ s[n + 1 - limit].time \in Nat
      BY <1>4, <3>1
    <3>. QED  BY <1>1, <3>2, <3>3, <3>4, SMTT(30)
  <2>3. CASE c >= limit
    <3>1. clock - timestamps[t][Back(index[t], limit)] >= Second
      BY <1>1, <2>3, SMTT(30) DEF Records, Allowed, OldestIndex, Back, c
    <3>2. timestamps[t][Back(index[t], limit)] = s[n + 1 - limit].time
      BY <1>2, <2>1 DEF RateInv, RingHoldsLast, n, s
    <3>. QED  BY <3>1, <3>2
  <2>. QED  BY <1>1, <2>2, <2>3, SMTT(30)
<1>9. LimiterTypeOK'
  <2>1. timestamps' \in [Trackers -> [Ring -> Nat]]
    BY <1>0, <1>2 DEF Records
  <2>2. index' \in [Trackers -> Ring]
    BY <1>0, <1>7 DEF Records
  <2>3. count' \in [Trackers -> Nat]
    BY <1>0, <1>1, SMTT(30) DEF Records
  <2>4. passed' \in [Trackers -> Seq([time : Nat, limit : 1 .. WindowSize])]
    BY <1>0, <1>3 DEF Records
  <2>. QED  BY <1>0, <2>1, <2>2, <2>3, <2>4 DEF Records, LimiterTypeOK
<1>10. RingHoldsLast'
  <2>1. SUFFICES ASSUME NEW j \in 1 .. WindowSize, j <= n + 1
                 PROVE  timestamps'[t][Back(index'[t], j)] = passed'[t][n + 2 - j].time
    <3>1. ASSUME NEW u \in Trackers \ {t}, NEW i \in 1 .. WindowSize, i <= Len(passed'[u])
          PROVE  timestamps'[u][Back(index'[u], i)] = passed'[u][Len(passed'[u]) + 1 - i].time
      BY <1>5, <3>1 DEF RateInv, RingHoldsLast
    <3>2. \A i \in 1 .. WindowSize : n + 2 - i = Len(passed'[t]) + 1 - i
      BY <1>1, <1>3, SMTT(30)
    <3>. QED  BY <1>3, <2>1, <3>1, <3>2 DEF RingHoldsLast, Back
  <2>2. CASE j = 1
    <3>1. Back(index'[t], 1) = index[t] /\ n + 2 - j = n + 1
      BY <1>1, <1>2, <1>6, <2>2, BackProperties, SMTT(30)
    <3>. QED  BY <1>0, <1>2, <1>3, <1>6, <2>2, <3>1, SMTT(30)
  <2>3. CASE j > 1
    <3>1. Back(index'[t], j) = Back(index[t], j - 1) /\ Back(index'[t], j) # index[t]
      BY <1>2, <1>6, <2>3, BackProperties, SMTT(30)
    <3>2. j - 1 \in 1 .. WindowSize /\ j - 1 <= n /\ n + 2 - j = n + 1 - (j - 1) /\ n + 2 - j \in 1 .. n
      BY <1>1, <2>1, <2>3, SMTT(30)
    <3>3. timestamps[t][Back(index[t], j - 1)] = s[n + 1 - (j - 1)].time
      BY <3>2 DEF RateInv, RingHoldsLast, n, s
    <3>4. Back(index[t], j - 1) \in Ring
      BY <1>2, <3>2, BackProperties
    <3>5. timestamps'[t][Back(index'[t], j)] = timestamps[t][Back(index[t], j - 1)]
      BY <1>0, <1>2, <1>6, <3>1, <3>4, SMTT(30)
    <3>. QED  BY <1>3, <3>2, <3>3, <3>5
  <2>. QED  BY <2>2, <2>3, SMTT(30)
<1>11. TimesInOrder'
  <2>1. \A u \in Trackers \ {t} :
          /\ \A i, k \in DOMAIN passed'[u] : i <= k => passed'[u][i].time <= passed'[u][k].time
          /\ \A k \in DOMAIN passed'[u] : passed'[u][k].time <= clock'
    BY <1>5, <1>6 DEF RateInv, TimesInOrder
  <2>2. \A k \in 1 .. n + 1 : passed'[t][k].time <= clock
    <3>1. \A k \in 1 .. n : s[k].time <= clock
      BY <1>3 DEF RateInv, TimesInOrder, s
    <3>2. \A k \in 1 .. n + 1 : k \in 1 .. n \/ k = n + 1
      BY <1>1, SMTT(30)
    <3>. QED  BY <1>1, <1>3, <3>1, <3>2, SMTT(30)
  <2>3. \A i, k \in 1 .. n + 1 : i <= k => passed'[t][i].time <= passed'[t][k].time
    <3>1. \A i, k \in 1 .. n : i <= k => s[i].time <= s[k].time
      BY <1>3 DEF RateInv, TimesInOrder, s
    <3>2. \A i, k \in 1 .. n + 1 : i <= k => (i \in 1 .. n /\ k \in 1 .. n) \/ k = n + 1
      BY <1>1, SMTT(30)
    <3>. QED  BY <1>3, <2>2, <3>1, <3>2
  <2>. QED  BY <1>3, <1>6, <2>1, <2>2, <2>3 DEF TimesInOrder
<1>12. CountIsLimit'
  <2> DEFINE c1 == count'[t]
  <2>1. \A u \in Trackers \ {t} :
          /\ count'[u] <= Len(passed'[u])
          /\ count'[u] = 0 => Len(passed'[u]) = 0
          /\ \A k \in DOMAIN passed'[u] :
               k > count'[u] => passed'[u][k].time - passed'[u][k - count'[u]].time >= Second
    BY <1>5 DEF RateInv, CountIsLimit, s, c
  <2>2. c <= n /\ (c = 0 => n = 0)
    BY DEF RateInv, CountIsLimit, n, s, c
  <2>3. c1 = IF c < limit THEN c + 1 ELSE c
    BY <1>6
  <2> HIDE DEF c1
  <2>4. ASSUME NEW k \in 1 .. n, k > c1
        PROVE  passed'[t][k].time - passed'[t][k - c1].time >= Second
    <3>1. k > c /\ k - c \in 1 .. n /\ k - c1 \in 1 .. n /\ k - c1 <= k - c
      BY <1>1, <2>2, <2>3, <2>4, SMTT(30)
    <3>2. s[k].time - s[k - c].time >= Second
      BY <1>3, <3>1 DEF RateInv, CountIsLimit, s, c
    <3>3. s[k - c1].time <= s[k - c].time
      BY <1>3, <3>1 DEF RateInv, TimesInOrder, s
    <3>4. s[k].time \in Nat /\ s[k - c].time \in Nat /\ s[k - c1].time \in Nat
      BY <1>4, <3>1
    <3>5. s[k].time - s[k - c1].time >= Second
      BY <1>1, <3>2, <3>3, <3>4, SMTT(30)
    <3>. QED  BY <1>3, <3>1, <3>5
  <2>5. ASSUME n + 1 > c1
        PROVE  passed'[t][n + 1].time - passed'[t][n + 1 - c1].time >= Second
    <3>1. CASE c < limit
      <4>1. c1 = c + 1 /\ c # 0 /\ n > c /\ n \in 1 .. n /\ n - c \in 1 .. n /\ n + 1 - c1 = n - c
        BY <1>1, <2>2, <2>3, <2>5, <3>1, SMTT(30)
      <4>2. s[n].time - s[n - c].time >= Second
        BY <1>3, <4>1 DEF RateInv, CountIsLimit, s, c
      <4>3. s[n].time <= clock
        BY <1>3, <4>1 DEF RateInv, TimesInOrder, s
      <4>4. s[n].time \in Nat /\ s[n - c].time \in Nat
        BY <1>4, <4>1
      <4>5. clock - s[n - c].time >= Second
        BY <1>1, <4>2, <4>3, <4>4, SMTT(30)
      <4>. QED  BY <1>3, <4>1, <4>5
    <3>2. CASE c >= limit
      <4>1. c1 = c /\ n >= limit /\ n + 1 - c \in 1 .. n /\ n + 1 - limit \in 1 .. n
            /\ n + 1 - c <= n + 1 - limit
        BY <1>1, <2>3, <2>2, <3>2, SMTT(30)
      <4>2. s[n + 1 - c].time <= s[n + 1 - limit].time
        BY <1>3, <4>1 DEF RateInv, TimesInOrder, s
      <4>3. clock - s[n + 1 - limit].time >= Second
        BY <1>8, <4>1
      <4>4. clock - s[n + 1 - c].time >= Second
        <5>1. s[n + 1 - c].time \in Nat /\ s[n + 1 - limit].time \in Nat
          BY <1>4, <4>1
        <5>. QED  BY <1>1, <4>2, <4>3, <5>1, SMTT(30)
      <4>. QED  BY <1>3, <4>1, <4>4
    <3>. QED  BY <1>1, <3>1, <3>2, SMTT(30)
  <2>6. c1 <= n + 1 /\ c1 # 0
    BY <1>1, <2>3, <2>2, SMTT(30)
  <2>7. \A k \in 1 .. n + 1 : k \in 1 .. n \/ k = n + 1
    BY <1>1, SMTT(30)
  <2>8. \A k \in 1 .. n + 1 :
          k > c1 => passed'[t][k].time - passed'[t][k - c1].time >= Second
    <3>1. SUFFICES ASSUME NEW k \in 1 .. n + 1, k > c1
                   PROVE  passed'[t][k].time - passed'[t][k - c1].time >= Second
      OBVIOUS
    <3>2. CASE k \in 1 .. n
      BY <2>4, <3>1, <3>2
    <3>3. CASE k = n + 1
      <4>1. n + 1 > c1
        BY <3>1, <3>3
      <4>2. passed'[t][n + 1].time - passed'[t][n + 1 - c1].time >= Second
        BY <2>5, <4>1
      <4>3. c1 \in Nat
        BY <1>1, <2>3, SMTT(30)
      <4>. QED  BY <1>1, <3>3, <4>2, <4>3, SMTT(30)
    <3>. QED  BY <2>7, <3>2, <3>3
  <2>9. c1 <= Len(passed'[t]) /\ DOMAIN passed'[t] = 1 .. n + 1
    BY <1>3, <2>6
  <2>. QED  BY <2>1, <2>6, <2>8, <2>9 DEF CountIsLimit, c1
<1>13. RateWithinLimit'
  <2>1. \A u \in Trackers \ {t} : \A k \in DOMAIN passed'[u] :
          k > passed'[u][k].limit =>
            passed'[u][k].time - passed'[u][k - passed'[u][k].limit].time >= Second
    BY <1>5 DEF RateInv, RateWithinLimit
  <2>2. ASSUME NEW k \in 1 .. n, k > s[k].limit
        PROVE  passed'[t][k].time - passed'[t][k - s[k].limit].time >= Second
    <3>1. k - s[k].limit \in 1 .. n
      BY <1>1, <1>4, <2>2, SMTT(30)
    <3>2. s[k].time - s[k - s[k].limit].time >= Second
      BY <1>3, <2>2 DEF RateInv, RateWithinLimit, s
    <3>. QED  BY <1>3, <3>1, <3>2
  <2>3. ASSUME n + 1 > limit
        PROVE  passed'[t][n + 1].time - passed'[t][n + 1 - limit].time >= Second
    <3>1. n >= limit /\ n + 1 - limit \in 1 .. n
      BY <1>1, <2>3, SMTT(30)
    <3>. QED  BY <1>3, <1>8, <3>1
  <2>4. \A k \in 1 .. n + 1 : k \in 1 .. n \/ k = n + 1
    BY <1>1, SMTT(30)
  <2>5. \A k \in 1 .. n + 1 :
          k > passed'[t][k].limit =>
            passed'[t][k].time - passed'[t][k - passed'[t][k].limit].time >= Second
    <3>1. SUFFICES ASSUME NEW k \in 1 .. n + 1, k > passed'[t][k].limit
                   PROVE  passed'[t][k].time - passed'[t][k - passed'[t][k].limit].time >= Second
      OBVIOUS
    <3>2. CASE k \in 1 .. n
      BY <1>3, <2>2, <3>1, <3>2
    <3>3. CASE k = n + 1
      <4>1. passed'[t][k].limit = limit
        BY <1>3, <3>3
      <4>2. n + 1 > limit
        BY <3>1, <3>3, <4>1
      <4>3. passed'[t][n + 1].time - passed'[t][n + 1 - limit].time >= Second
        BY <2>3, <4>2
      <4>. QED  BY <1>1, <3>3, <4>1, <4>3, SMTT(30)
    <3>. QED  BY <2>4, <3>2, <3>3
  <2>. QED  BY <1>3, <2>1, <2>5 DEF RateWithinLimit
<1>. QED  BY <1>9, <1>10, <1>11, <1>12, <1>13 DEF RateInv

\* The trackers as they are constructed satisfy the invariant.
LEMMA LimiterInitOK == LimiterInit => RateInv
<1>1. SUFFICES ASSUME LimiterInit PROVE RateInv
  OBVIOUS
<1>2. LimiterTypeOK
  BY <1>1, RateAssumption, SMTT(30) DEF LimiterInit, LimiterTypeOK, Ring
<1>3. \A t \in Trackers : passed[t] = <<>> /\ count[t] = 0
  BY <1>1 DEF LimiterInit
<1>. QED  BY <1>2, <1>3, RateAssumption, SMTT(30) DEF RateInv, RingHoldsLast, TimesInOrder, CountIsLimit, RateWithinLimit

\* A call of check_rate keeps the invariant.
LEMMA CheckRateKeeps ==
  ASSUME RateInv, UNCHANGED clock,
         NEW t \in Trackers, NEW limit \in Limits, NEW ok \in BOOLEAN, CheckRate(t, limit, ok)
  PROVE  RateInv'
<1>1. CASE UNCHANGED rate
  BY <1>1 DEF RateInv, LimiterTypeOK, RingHoldsLast, TimesInOrder, CountIsLimit, RateWithinLimit, rate, Back
<1>2. CASE Records(t, limit)
  BY <1>2, RecordKeeps
<1>. QED  BY <1>1, <1>2 DEF CheckRate, Records

\* reset of all trackers, and the passing of time, keep it.
LEMMA ResetKeeps ==
  ASSUME RateInv, UNCHANGED clock, ResetRate(Trackers)
  PROVE  RateInv'
<1>1. \A t \in Trackers : /\ passed'[t] = <<>> /\ count'[t] = 0 /\ index'[t] = 0
                          /\ timestamps'[t] = [i \in Ring |-> 0]
  BY DEF ResetRate
<1>2. LimiterTypeOK'
  BY RateAssumption, SMTT(30) DEF ResetRate, RateInv, LimiterTypeOK, Ring
<1>. QED  BY <1>1, <1>2, RateAssumption, SMTT(30) DEF RateInv, RingHoldsLast, TimesInOrder, CountIsLimit, RateWithinLimit

LEMMA PassTimeKeeps ==
  ASSUME RateInv, clock' = clock + 1, UNCHANGED rate
  PROVE  RateInv'
<1>1. /\ clock \in Nat /\ passed' = passed /\ count' = count /\ index' = index /\ timestamps' = timestamps
  BY DEF RateInv, LimiterTypeOK, rate
<1>2. LimiterTypeOK'
  <2>1. clock' \in Nat
    BY <1>1, SMTT(30)
  <2>. QED  BY <1>1, <2>1 DEF RateInv, LimiterTypeOK
<1>3. RingHoldsLast' /\ CountIsLimit' /\ RateWithinLimit'
  BY <1>1 DEF RateInv, RingHoldsLast, CountIsLimit, RateWithinLimit, Back
<1>4. TimesInOrder'
  <2>1. SUFFICES ASSUME NEW t \in Trackers, NEW k \in DOMAIN passed[t]
                 PROVE  passed[t][k].time <= clock + 1
    BY <1>1 DEF RateInv, TimesInOrder
  <2>2. passed[t][k].time <= clock
    BY DEF RateInv, TimesInOrder
  <2>3. passed[t] \in Seq([time : Nat, limit : 1 .. WindowSize])
    BY DEF RateInv, LimiterTypeOK
  <2>4. passed[t][k] \in [time : Nat, limit : 1 .. WindowSize]
    BY <2>3, ElementOfSeq, LenProperties
  <2>5. passed[t][k].time \in Nat
    BY <2>4
  <2>. QED  BY <1>1, <2>2, <2>5, SMTT(30)
<1>. QED  BY <1>2, <1>3, <1>4 DEF RateInv

\* No behaviour of the limiter lets an order through too early: check_rate with
\* limits that change from call to call, resets, and a clock that only advances.
THEOREM RateLimiterCorrect == LimiterSpec => [](LimiterTypeOK /\ RateWithinLimit)
<1>1. LimiterInit => RateInv
  BY LimiterInitOK
<1>2. RateInv /\ [LimiterNext]_limiter => RateInv'
  <2>1. SUFFICES ASSUME RateInv, [LimiterNext]_limiter PROVE RateInv'
    OBVIOUS
  <2>2. CASE \E t \in Trackers, limit \in Limits, ok \in BOOLEAN :
               Len(passed[t]) < MaxOrders /\ CheckRate(t, limit, ok) /\ UNCHANGED clock
    BY <2>1, <2>2, CheckRateKeeps
  <2>3. CASE ResetRate(Trackers) /\ UNCHANGED clock
    BY <2>1, <2>3, ResetKeeps
  <2>4. CASE PassTime
    BY <2>1, <2>4, PassTimeKeeps DEF PassTime
  <2>5. CASE UNCHANGED limiter
    BY <2>1, <2>5 DEF limiter, rate, RateInv, LimiterTypeOK, RingHoldsLast, TimesInOrder, CountIsLimit, RateWithinLimit, Back
  <2>. QED  BY <2>1, <2>2, <2>3, <2>4, <2>5 DEF LimiterNext
<1>3. RateInv => LimiterTypeOK /\ RateWithinLimit
  BY DEF RateInv
<1>. QED  BY <1>1, <1>2, <1>3, PTL DEF LimiterSpec
-----------------------------------------------------------------------------

\* One disjunct per kind of step, named by what it leaves alone.
LEMMA NextCases ==
  ASSUME [Next]_vars
  PROVE  \/ \E c \in Contexts : BeginValidate(c)
         \/ KillSwitchLoads \/ LoadStatus \/ RunPolicies
         \/ \E a \in Accounts, s \in Symbols, side \in Sides, q \in Qtys, p \in Prices :
              UpdateOnFill(a, s, side, q, p)
         \/ \E a \in Accounts, p \in Prices, q \in Qtys : UpdateOnCancel(a, Cost(p, q))
         \/ \E f \in Halts : SetHalt(f)
         \/ \E st \in MarketStatuses : SetStatus(st)
         \/ ConstructAnother \/ Tick \/ UNCHANGED vars
  BY DEF Next, Validate, Update, Operate

-----------------------------------------------------------------------------
\* How far validate has come tells which halts it has seen lifted.
HaltInv ==
  /\ halts \subseteq Halts
  /\ pc \in {"account", "symbol", "status", "policies"} => GlobalHalt \notin steady
  /\ pc \in {"symbol", "status", "policies"} => AccountFlag(ctx.account) \notin steady
  /\ pc \in {"status", "policies"} => SymbolFlag(ctx.symbol) \notin steady
  /\ pc = "policies" => MarketHalt \notin steady
  /\ steady \subseteq InForce(halts, status)

\* An order is accepted only if no halt that covers it was in force during the
\* whole of validate, however operators set and lift halts between its loads.
THEOREM HaltsRespected == Spec => HaltedIsRejected
<1>1. Init => HaltInv
  BY SMTT(30) DEF Init, HaltInv
<1>2. HaltInv /\ [Next]_vars => HaltInv'
  <2>1. SUFFICES ASSUME HaltInv, [Next]_vars PROVE HaltInv'
    OBVIOUS
  <2>2. ASSUME NEW c \in Contexts, BeginValidate(c) PROVE HaltInv'
    BY <2>1, <2>2 DEF BeginValidate, HaltInv, flags
  <2>3. CASE KillSwitchLoads
    <3>1. /\ GlobalHalt # MarketHalt /\ AccountFlag(ctx.account) # MarketHalt
          /\ SymbolFlag(ctx.symbol) # MarketHalt
      BY DEF GlobalHalt, MarketHalt, AccountFlag, SymbolFlag
    <3>2. \A f : f # MarketHalt /\ f \notin halts => f \notin steady
      BY <2>1 DEF HaltInv, InForce
    <3>3. CASE LoadFlag("global", GlobalHalt, "account")
      BY <2>1, <3>1, <3>2, <3>3 DEF LoadFlag, Reject, HaltInv, InForce, flags
    <3>4. CASE LoadFlag("account", AccountFlag(ctx.account), "symbol")
      BY <2>1, <3>1, <3>2, <3>4 DEF LoadFlag, Reject, HaltInv, InForce, flags
    <3>5. CASE LoadFlag("symbol", SymbolFlag(ctx.symbol), "status")
      BY <2>1, <3>1, <3>2, <3>5 DEF LoadFlag, Reject, HaltInv, InForce, flags
    <3>. QED  BY <2>3, <3>3, <3>4, <3>5 DEF KillSwitchLoads
  <2>4. CASE LoadStatus
    <3>1. MarketHalt \notin halts
      BY <2>1, RiskAssumption DEF HaltInv, MarketHalt
    <3>. QED  BY <2>1, <2>4, <3>1 DEF LoadStatus, Reject, HaltInv, InForce, flags
  <2>5. CASE RunPolicies
    BY <2>1, <2>5 DEF RunPolicies, Reject, Accept, HaltInv, flags
  <2>6. CASE UNCHANGED <<flags, pc, ctx, steady>>
    BY <2>1, <2>6 DEF HaltInv, flags, InForce
  <2>7. CASE halts' \subseteq Halts /\ steady' = steady \cap InForce(halts', status') /\ UNCHANGED <<pc, ctx>>
    BY <2>1, <2>7 DEF HaltInv
  <2>8. CASE ConstructAnother
    BY <2>8 DEF ConstructAnother, HaltInv
  <2>. QED  BY <2>1, <2>2, <2>3, <2>4, <2>5, <2>6, <2>7, <2>8, NextCases
            DEF UpdateOnFill, UpdateOnCancel, SetHalt, SetStatus, Tick, vars, InForce, HaltInv
<1>3. HaltInv /\ [Next]_vars =>
        (pc = "policies" /\ pc' = "idle" /\ decision' = "Accept" => steady \cap Covering(ctx) = {})
  BY DEF HaltInv, Covering
<1>. QED  BY <1>1, <1>2, <1>3, PTL DEF Spec, HaltedIsRejected
-----------------------------------------------------------------------------
Slots == {CreditSlot(a) : a \in Accounts}

\* Quotients and remainders of naturals are naturals.
LEMMA WordArithmetic ==
  ASSUME NEW x \in Nat
  PROVE  /\ x % Word \in Words
         /\ x \div QtyScale \in Nat
  BY RiskAssumption, SMTT(30) DEF Words

LEMMA ProductIsNat ==
  ASSUME NEW x \in Nat, NEW y \in Nat
  PROVE  x * y \in Nat
  BY SMTT(30)

LEMMA CostIsNat ==
  ASSUME NEW p \in Prices, NEW q \in Qtys
  PROVE  /\ Cost(p, q) \in Nat
         /\ (q * p) % Word \in Words /\ (q * p) \div QtyScale \in Nat
<1>1. p \in Nat /\ q \in Nat
  BY RiskAssumption
<1>2. p * q \in Nat /\ q * p \in Nat
  BY <1>1, ProductIsNat
<1>3. (p * q) % Word \in Nat
  BY <1>2, WordArithmetic, SMTT(30) DEF Words
<1>. QED  BY <1>2, <1>3, WordArithmetic DEF Cost

\* The amounts of an account are words, and they sum up to no more than the
\* account started with.
Solvent(acc) ==
  /\ acc \in AccountStates
  /\ acc.available + acc.reserved <= InitialPower

LEMMA SettleKeepsSolvent ==
  ASSUME NEW acc, Solvent(acc), NEW cost \in Nat
  PROVE  Solvent(SettleFill(acc, cost))
<1>1. /\ acc.available \in Words /\ acc.reserved \in Words /\ acc.used \in Words /\ acc.exposure \in Words
      /\ acc.available + acc.reserved <= InitialPower
  BY DEF Solvent, AccountStates
<1>2. (acc.used + cost) % Word \in Words /\ (acc.exposure + cost) % Word \in Words
  BY <1>1, WordArithmetic, SMTT(30) DEF Words
<1> DEFINE short == IF cost > acc.reserved THEN cost - acc.reserved ELSE 0
           av == IF acc.available >= short THEN acc.available - short ELSE acc.available
           re == IF cost > acc.reserved THEN 0 ELSE acc.reserved - cost
<1>3. av \in Words /\ re \in Words /\ av + re <= InitialPower
  BY <1>1, RiskAssumption, SMTT(30) DEF Words
<1>4. SettleFill(acc, cost) =
        [available |-> av, reserved |-> re, used |-> (acc.used + cost) % Word,
         exposure |-> (acc.exposure + cost) % Word]
  BY DEF SettleFill
<1> HIDE DEF av, re, short
<1>. QED  BY <1>2, <1>3, <1>4, SMTT(30) DEF Solvent, AccountStates

LEMMA MoveKeepsSolvent ==
  ASSUME NEW acc, Solvent(acc), NEW cost \in Nat
  PROVE  /\ Solvent(Release(acc, cost))
         /\ acc.available >= cost => Solvent(Earmark(acc, cost))
<1>1. /\ acc.available \in Nat /\ acc.available < Word /\ acc.reserved \in Nat /\ acc.reserved < Word
      /\ acc.used \in Words /\ acc.exposure \in Words
      /\ acc.available + acc.reserved <= InitialPower
      /\ InitialPower \in Nat /\ InitialPower < Word /\ Word \in Nat
  BY RiskAssumption, SMTT(30) DEF Solvent, AccountStates, Words
<1>2. ASSUME acc.reserved >= cost PROVE Solvent(Earmark(acc, -cost))
  <2>1. /\ acc.available - (-cost) \in Words /\ acc.reserved + (-cost) \in Words
        /\ acc.available - (-cost) + (acc.reserved + (-cost)) <= InitialPower
    BY <1>1, <1>2, SMTT(30) DEF Words
  <2>. QED  BY <1>1, <2>1 DEF Solvent, AccountStates, Earmark
<1>3. ASSUME acc.available >= cost PROVE Solvent(Earmark(acc, cost))
  <2>1. /\ acc.available - cost \in Words /\ acc.reserved + cost \in Words
        /\ acc.available - cost + (acc.reserved + cost) <= InitialPower
    BY <1>1, <1>3, SMTT(30) DEF Words
  <2>. QED  BY <1>1, <2>1 DEF Solvent, AccountStates, Earmark
<1>. QED  BY <1>2, <1>3 DEF Release

\* The inductive invariant of the accounting.
AccountInv ==
  /\ ctx \in Contexts
  /\ account \in [Slots -> AccountStates]
  /\ \A i \in Slots : Solvent(account[i])

LEMMA AccountStep ==
  ASSUME AccountInv, NEW a \in Accounts, NEW new, Solvent(new),
         account' = [account EXCEPT ![CreditSlot(a)] = new], ctx' = ctx
  PROVE  AccountInv'
<1>1. CreditSlot(a) \in Slots
  BY DEF Slots
<1>. QED  BY <1>1 DEF AccountInv, Solvent

LEMMA AccountInvInductive ==
  /\ Init => AccountInv
  /\ AccountInv /\ [Next]_vars => AccountInv'
<1>1. ASSUME Init PROVE AccountInv
  <2>1. ctx \in Contexts
    <3>1. Contexts # {}
      <4>1. PICK i \in Ids, a \in Accounts, s \in Symbols, p \in Prices, q \in Qtys : TRUE
        BY RiskAssumption
      <4>2. [id |-> i, account |-> a, symbol |-> s, side |-> "Buy", price |-> p, qty |-> q] \in Contexts
        BY DEF Contexts, Sides
      <4>. QED  BY <4>2
    <3>. QED  BY <1>1, <3>1 DEF Init
  <2>2. Solvent(NewAccount)
    BY RiskAssumption, SMTT(30) DEF Solvent, NewAccount, AccountStates, Words
  <2>. QED  BY <1>1, <2>1, <2>2 DEF Init, AccountInv, Slots, Solvent
<1>2. ASSUME AccountInv, [Next]_vars PROVE AccountInv'
  <2>1. CASE account' = account /\ ctx' = ctx
    BY <1>2, <2>1 DEF AccountInv
  <2>2. ASSUME NEW c \in Contexts, BeginValidate(c) PROVE AccountInv'
    BY <1>2, <2>2 DEF BeginValidate, AccountInv, books
  <2>3. CASE RunPolicies
    <3>1. CASE Accept(ctx) /\ ctx' = ctx
      <4>1. /\ ctx.account \in Accounts /\ ctx.price \in Prices /\ ctx.qty \in Qtys
        BY <1>2 DEF AccountInv, Contexts
      <4> DEFINE cost == Cost(ctx.price, ctx.qty)
                 old == account[CreditSlot(ctx.account)]
                 new == IF old.available >= cost THEN Earmark(old, cost) ELSE old
      <4>2. cost \in Nat
        BY <4>1, CostIsNat
      <4>3. CreditSlot(ctx.account) \in Slots
        BY <4>1 DEF Slots
      <4>4. Solvent(old)
        BY <1>2, <4>3 DEF AccountInv
      <4>5. Solvent(new)
        BY <4>2, <4>4, MoveKeepsSolvent
      <4>6. account' = [account EXCEPT ![CreditSlot(ctx.account)] = new]
        BY <3>1 DEF Accept, Reserve
      <4> HIDE DEF new
      <4>. QED  BY <1>2, <3>1, <4>1, <4>5, <4>6, AccountStep
    <3>. QED  BY <2>1, <2>3, <3>1 DEF RunPolicies
  <2>4. ASSUME NEW a \in Accounts, NEW s \in Symbols, NEW side \in Sides, NEW q \in Qtys,
               NEW p \in Prices, UpdateOnFill(a, s, side, q, p)
        PROVE  AccountInv'
    <3>1. (q * p) % Word \in Nat
      BY CostIsNat, SMTT(30) DEF Words
    <3>2. Solvent(account[CreditSlot(a)])
      BY <1>2 DEF AccountInv, Slots
    <3>3. Solvent(SettleFill(account[CreditSlot(a)], (q * p) % Word))
      BY <3>1, <3>2, SettleKeepsSolvent
    <3>. QED  BY <1>2, <2>4, <3>3, AccountStep DEF UpdateOnFill
  <2>5. ASSUME NEW a \in Accounts, NEW p \in Prices, NEW q \in Qtys, UpdateOnCancel(a, Cost(p, q))
        PROVE  AccountInv'
    <3>1. Solvent(account[CreditSlot(a)])
      BY <1>2 DEF AccountInv, Slots
    <3>2. Solvent(Release(account[CreditSlot(a)], Cost(p, q)))
      BY <3>1, CostIsNat, MoveKeepsSolvent
    <3>. QED  BY <1>2, <2>5, <3>2, AccountStep DEF UpdateOnCancel
  <2>. QED  BY <1>2, <2>1, <2>2, <2>3, <2>4, <2>5, NextCases
            DEF KillSwitchLoads, LoadFlag, LoadStatus, SetHalt, SetStatus, ConstructAnother, Tick, vars, books
<1>. QED  BY <1>1, <1>2

\* Reservations, fills and releases, whatever they are called with, never give
\* an account more buying power than it started with.
THEOREM BuyingPowerSafe == Spec => []BuyingPowerNeverCreated
<1>1. AccountInv => BuyingPowerNeverCreated
  BY DEF AccountInv, Solvent, BuyingPowerNeverCreated
<1>. QED  BY <1>1, AccountInvInductive, PTL DEF Spec
-----------------------------------------------------------------------------
\* What an order is known to be when it has been accepted.
LEMMA AcceptMeans ==
  ASSUME RunPolicies, pc' = "idle", decision' = "Accept"
  PROVE  Accept(ctx) /\ Refusal(ctx) = "None" /\ ctx' = ctx
<1>1. Refusal(ctx) # "Accept"
  BY DEF Refusal
<1>. QED  BY <1>1 DEF RunPolicies, Reject

\* An accepted order has taken from the buying power, and added to what is
\* reserved, the cost that validate had found affordable, also when the product
\* of its price and quantity does not fit a word.
THEOREM ReservationComplete == Spec => ReservesCheckedCost
<1> DEFINE i == CreditSlot(ctx.account)
           cost == Cost(ctx.price, ctx.qty)
           Moved == /\ account'[i].reserved = account[i].reserved + cost
                    /\ account'[i].available = account[i].available - cost
                    /\ cost <= account[i].available
<1>1. ASSUME AccountInv, [Next]_vars, pc = "policies", pc' = "idle", decision' = "Accept"
      PROVE  Moved
  <2>1. Accept(ctx) /\ Refusal(ctx) = "None"
    <3>1. RunPolicies
      BY <1>1, NextCases DEF BeginValidate, KillSwitchLoads, LoadFlag, LoadStatus, UpdateOnFill,
         UpdateOnCancel, SetHalt, SetStatus, ConstructAnother, Tick, vars
    <3>. QED  BY <1>1, <3>1, AcceptMeans
  <2>2. /\ ctx.account \in Accounts /\ ctx.price \in Prices /\ ctx.qty \in Qtys
    BY <1>1 DEF AccountInv, Contexts
  <2>3. i \in Slots /\ account[i].available \in Nat /\ cost \in Nat
    BY <1>1, <2>2, CostIsNat, SMTT(30) DEF AccountInv, AccountStates, Words, Slots
  <2>4. ~(cost > account[i].available)
    BY <2>1 DEF Refusal, CreditExceeded
  <2>5. account[i].available >= cost /\ cost <= account[i].available
    BY <2>3, <2>4, SMTT(30)
  <2>6. account'[i] = Earmark(account[i], cost)
    BY <1>1, <2>1, <2>3, <2>5 DEF Accept, Reserve, AccountInv
  <2>7. /\ Earmark(account[i], cost).reserved = account[i].reserved + cost
        /\ Earmark(account[i], cost).available = account[i].available - cost
    BY DEF Earmark
  <2> HIDE DEF cost, i
  <2>8. /\ account'[i].reserved = account[i].reserved + cost
        /\ account'[i].available = account[i].available - cost
    BY <2>6, <2>7
  <2>. QED  BY <2>5, <2>8
<1>2. AccountInv /\ [Next]_vars =>
        (pc = "policies" /\ pc' = "idle" /\ decision' = "Accept" => Moved)
  BY <1>1
<1>. QED  BY <1>2, AccountInvInductive, PTL DEF Spec, ReservesCheckedCost
-----------------------------------------------------------------------------
\* An id that was let through is still in its slot, or another one took it.
StillHeld(i) == seen_ids[IdSlot(marked[i])] = marked[i]
DisplacedBefore(i, k) ==
  \E j \in i + 1 .. k : marked[j] # marked[i] /\ IdSlot(marked[j]) = IdSlot(marked[i])

DuplicateInv ==
  /\ ctx \in Contexts
  /\ seen_ids \in [0 .. MapSize - 1 -> Nat]
  /\ marked \in Seq(Nat)
  /\ \A i \in 1 .. Len(marked) : StillHeld(i) \/ DisplacedBefore(i, Len(marked))
  /\ DuplicateOnlyIfDisplaced

\* An id taking its slot keeps the invariant.
LEMMA MarkKeeps ==
  ASSUME DuplicateInv, ctx' = ctx, ctx.id # 0, ~IsDuplicate(ctx.id), MarkSeen(ctx.id),
         marked' = Append(marked, ctx.id)
  PROVE  DuplicateInv'
<1> DEFINE n == Len(marked)
           x == ctx.id
           HeldNow(i) == seen_ids'[IdSlot(marked'[i])] = marked'[i]
           DisplacedNow(i, k) ==
             \E j \in i + 1 .. k : marked'[j] # marked'[i] /\ IdSlot(marked'[j]) = IdSlot(marked'[i])
<1>1. x \in Nat /\ n \in Nat /\ marked \in Seq(Nat) /\ DOMAIN marked = 1 .. n
  <2>1. ctx \in Contexts /\ marked \in Seq(Nat)
    BY DEF DuplicateInv
  <2>2. ctx.id \in Ids
    BY <2>1 DEF Contexts
  <2>3. ctx.id \in Nat
    BY <2>2, RiskAssumption
  <2>4. Len(marked) \in Nat /\ DOMAIN marked = 1 .. Len(marked)
    BY <2>1, SMTT(30)
  <2>. QED  BY <2>1, <2>3, <2>4
<1>2. /\ marked' \in Seq(Nat) /\ Len(marked') = n + 1 /\ DOMAIN marked' = 1 .. n + 1
      /\ \A i \in 1 .. n : marked'[i] = marked[i] /\ marked[i] \in Nat
      /\ marked'[n + 1] = x
  BY <1>1, SMTT(30)
<1>3. \A id \in Nat : IdSlot(id) \in 0 .. MapSize - 1
  BY RiskAssumption, SMTT(30) DEF IdSlot
<1>4. /\ seen_ids' \in [0 .. MapSize - 1 -> Nat]
      /\ seen_ids'[IdSlot(x)] = x /\ seen_ids[IdSlot(x)] # x
      /\ \A id \in Nat : IdSlot(id) # IdSlot(x) => seen_ids'[IdSlot(id)] = seen_ids[IdSlot(id)]
  BY <1>1, <1>3 DEF MarkSeen, IsDuplicate, DuplicateInv
<1> HIDE DEF n, x
<1>5. ASSUME NEW i \in 1 .. n, NEW k \in 1 .. n, DisplacedBefore(i, k)
      PROVE  DisplacedNow(i, k)
  <2>1. PICK j \in i + 1 .. k : marked[j] # marked[i] /\ IdSlot(marked[j]) = IdSlot(marked[i])
    BY <1>5 DEF DisplacedBefore
  <2>2. j \in 1 .. n
    BY <1>1, SMTT(30)
  <2>. QED  BY <1>2, <2>1, <2>2
<1>6. \A i \in 1 .. n : StillHeld(i) \/ DisplacedBefore(i, n)
  BY DEF DuplicateInv, n
<1>7. ASSUME NEW i \in 1 .. n PROVE HeldNow(i) \/ DisplacedNow(i, n + 1)
  <2>1. marked'[i] = marked[i] /\ marked[i] \in Nat
    BY <1>2
  <2>2. CASE DisplacedBefore(i, n)
    <3>1. n \in 1 .. n /\ \A j \in i + 1 .. n : j \in i + 1 .. n + 1
      BY <1>1, SMTT(30)
    <3>. QED  BY <1>5, <2>2, <3>1
  <2>3. CASE StillHeld(i) /\ IdSlot(marked[i]) = IdSlot(x)
    <3>1. n + 1 \in i + 1 .. n + 1 /\ x # marked[i]
      BY <1>1, <1>4, <2>3, SMTT(30) DEF StillHeld
    <3>. QED  BY <1>2, <2>1, <2>3, <3>1
  <2>4. CASE StillHeld(i) /\ IdSlot(marked[i]) # IdSlot(x)
    BY <1>4, <2>1, <2>4 DEF StillHeld
  <2>. QED  BY <1>6, <2>2, <2>3, <2>4
<1>8. ASSUME NEW i \in 1 .. n, marked[i] = x PROVE DisplacedBefore(i, n)
  BY <1>4, <1>6, <1>8 DEF StillHeld
<1>9. DuplicateOnlyIfDisplaced'
  <2>1. SUFFICES ASSUME NEW i \in 1 .. n + 1, NEW k \in 1 .. n + 1, i < k, marked'[i] = marked'[k]
                 PROVE  DisplacedNow(i, k - 1)
    BY <1>2 DEF DuplicateOnlyIfDisplaced, IdSlot
  <2>2. i \in 1 .. n /\ (k = n + 1 \/ k \in 1 .. n) /\ (k \in 1 .. n => k - 1 \in 1 .. n)
    BY <1>1, <2>1, SMTT(30)
  <2>3. CASE k \in 1 .. n
    <3>1. DisplacedBefore(i, k - 1)
      BY <1>1, <1>2, <2>1, <2>2, <2>3 DEF DuplicateInv, DuplicateOnlyIfDisplaced, DisplacedBefore
    <3>. QED  BY <1>5, <2>2, <2>3, <3>1
  <2>4. CASE k = n + 1
    <3>1. DisplacedBefore(i, n)
      BY <1>2, <1>8, <2>1, <2>2, <2>4
    <3>2. n \in 1 .. n /\ k - 1 = n
      BY <1>1, <2>2, <2>4, SMTT(30)
    <3>. QED  BY <1>5, <2>2, <3>1, <3>2
  <2>. QED  BY <2>2, <2>3, <2>4
<1>10. \A i \in 1 .. n + 1 : HeldNow(i) \/ DisplacedNow(i, n + 1)
  <2>1. \A i \in 1 .. n + 1 : i \in 1 .. n \/ i = n + 1
    BY <1>1, SMTT(30)
  <2>2. HeldNow(n + 1)
    BY <1>2, <1>4 DEF StillHeld
  <2>. QED  BY <1>7, <2>1, <2>2
<1>11. \A i \in 1 .. Len(marked') : StillHeld(i)' \/ DisplacedBefore(i, Len(marked))'
  BY <1>2, <1>10 DEF StillHeld, DisplacedBefore, IdSlot
<1>. QED  BY <1>2, <1>4, <1>9, <1>11 DEF DuplicateInv

\* However many ids share a slot, an id passes the duplicate check again only
\* after another id of its slot has passed it.
THEOREM DuplicatesRefused == Spec => []DuplicateOnlyIfDisplaced
<1>1. ASSUME Init PROVE DuplicateInv
  <2>1. ctx \in Contexts
    BY <1>1, AccountInvInductive DEF AccountInv
  <2>2. marked = <<>> /\ seen_ids = [i \in 0 .. MapSize - 1 |-> 0]
    BY <1>1 DEF Init
  <2>3. seen_ids \in [0 .. MapSize - 1 -> Nat]
    BY <2>2, SMTT(30)
  <2>4. marked \in Seq(Nat) /\ 1 .. Len(marked) = {} /\ DOMAIN marked = {}
    BY <2>2, SMTT(30)
  <2>. QED  BY <2>1, <2>3, <2>4 DEF DuplicateInv, DuplicateOnlyIfDisplaced
<1>2. DuplicateInv /\ [Next]_vars => DuplicateInv'
  <2>1. SUFFICES ASSUME DuplicateInv, [Next]_vars PROVE DuplicateInv'
    OBVIOUS
  <2>2. ASSUME UNCHANGED <<seen_ids, marked>>, ctx' \in Contexts PROVE DuplicateInv'
    BY <2>1, <2>2 DEF DuplicateInv, StillHeld, DisplacedBefore, DuplicateOnlyIfDisplaced, IdSlot
  <2>3. ctx \in Contexts
    BY <2>1 DEF DuplicateInv
  <2>4. ASSUME NEW c \in Contexts, BeginValidate(c) PROVE DuplicateInv'
    BY <2>2, <2>4 DEF BeginValidate
  <2>5. CASE RunPolicies
    <3>1. ctx' = ctx
      BY <2>5 DEF RunPolicies
    <3>2. CASE UNCHANGED <<seen_ids, marked>>
      BY <2>2, <2>3, <3>1, <3>2
    <3>3. CASE ~IsDuplicate(ctx.id) /\ MarkSeen(ctx.id)
               /\ marked' = IF ctx.id = 0 THEN marked ELSE Append(marked, ctx.id)
      <4>1. CASE ctx.id = 0
        BY <3>2, <3>3, <4>1 DEF MarkSeen
      <4>2. CASE ctx.id # 0
        BY <2>1, <3>1, <3>3, <4>2, MarkKeeps
      <4>. QED  BY <4>1, <4>2
    <3>. QED  BY <2>5, <3>2, <3>3 DEF RunPolicies
  <2>. QED  BY <2>1, <2>2, <2>3, <2>4, <2>5, NextCases
            DEF KillSwitchLoads, LoadFlag, LoadStatus, UpdateOnFill, UpdateOnCancel,
                SetHalt, SetStatus, ConstructAnother, Tick, vars
<1>3. DuplicateInv => DuplicateOnlyIfDisplaced
  BY DEF DuplicateInv
<1>. QED  BY <1>1, <1>2, <1>3, PTL DEF Spec
-----------------------------------------------------------------------------
\* The sliding window holds inside the pipeline, where other policies may still
\* refuse an order that the limiter has counted.
THEOREM PipelineRateSafe == Spec => []RateWithinLimit
<1>1. Init => RateInv
  BY LimiterInitOK, SMTT(30) DEF Init
<1>2. ASSUME RateInv, AccountInv, [Next]_vars PROVE RateInv'
  <2>1. CASE UNCHANGED limiter
    BY <1>2, <2>1 DEF limiter, rate, RateInv, LimiterTypeOK, RingHoldsLast, TimesInOrder,
       CountIsLimit, RateWithinLimit, Back
  <2>2. CASE Tick
    BY <1>2, <2>2, PassTimeKeeps DEF Tick, PassTime
  <2>3. CASE RunPolicies
    <3>1. ctx.account \in Accounts
      BY <1>2 DEF AccountInv, Contexts
    <3>2. CreditSlot(ctx.account) \in Trackers
      BY <3>1, RiskAssumption DEF CreditSlot
    <3>3. ASSUME NEW limit \in Limits, NEW ok \in BOOLEAN, UNCHANGED clock,
                 CheckRate(CreditSlot(ctx.account), limit, ok)
          PROVE  RateInv'
      BY <1>2, <3>2, <3>3, CheckRateKeeps
    <3>. QED  BY <2>1, <2>3, <3>3 DEF RunPolicies
  <2>. QED  BY <1>2, <2>1, <2>2, <2>3, NextCases
            DEF BeginValidate, KillSwitchLoads, LoadFlag, LoadStatus, UpdateOnFill, UpdateOnCancel,
                SetHalt, SetStatus, ConstructAnother, vars
<1>3. RateInv => RateWithinLimit
  BY DEF RateInv
<1>. QED  BY <1>1, <1>2, <1>3, AccountInvInductive, PTL DEF Spec
=============================================================================
