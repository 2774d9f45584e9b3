------------------------- MODULE RateLimiterProofs --------------------------
(***************************************************************************)
(* BurstBound and DeniedOnlyAtTheRate for every rate, window length, clock *)
(* bound and set of keys.                                                  *)
(*                                                                         *)
(* Both speak of times the limiter has forgotten: the map keeps a count    *)
(* and the end of one window.  Remembers and Counted say what those two    *)
(* numbers still imply about the whole history of a key: the first how old *)
(* all but the counted grants are, the second how recent those are.        *)
(***************************************************************************)
EXTENDS RateLimiter, LimiterEntryProofs, SequenceTheorems

(* l: the times of the grants to a key, e: its entry, t: the time.  The    *)
(* window holds the last e.count grants and no earlier one, and the Rps    *)
(* grants before those are all that the second before the window can hold. *)
Remembers(l, e, t) ==
    /\ e.count <= Len(l)
    /\ e.windowEnd <= t + Second
    /\ \A i \in 1..Len(l) : l[i] <= t /\ l[i] <= e.windowEnd
    /\ \A i \in 1..Len(l) :
          i + e.count <= Len(l) => l[i] < e.windowEnd - Second
    /\ \A i \in 1..Len(l) :
          i + e.count + Rps <= Len(l) => l[i] < e.windowEnd - 2 * Second

(* Whatever is counted was granted in the window, which lasts a second.    *)
Counted(l, e) ==
    \A i \in 1..Len(l) :
        i + e.count > Len(l) => l[i] >= e.windowEnd - Second

(* BurstBound of one key. *)
Spread(l) ==
    \A i \in 1..Len(l) :
        i + 2 * Rps <= Len(l) => l[i + 2 * Rps] - l[i] > Second

IInv ==
    /\ TypeOK
    /\ \A ip \in IPs : /\ Remembers(log[ip], entries[ip], now)
                       /\ Counted(log[ip], entries[ip])
                       /\ Spread(log[ip])

-----------------------------------------------------------------------------
(* Every variable keeps its type: the limiter never grants at a time the   *)
(* clock has not reached and never loses the record of a key.              *)
THEOREM TypeCorrect == Spec => []TypeOK
<1> USE LimiterAssumption, RateLimiterAssumption
<1>1. Init => TypeOK
  BY RpsPositive DEF Init, TypeOK, Entry, NoEntry
<1>2. TypeOK /\ [Next]_vars => TypeOK'
  <2> SUFFICES ASSUME TypeOK, [Next]_vars PROVE TypeOK'
    OBVIOUS
  <2>1. ASSUME NEW ip \in IPs, Grant(ip) PROVE TypeOK'
    <3>1. Charge(entries[ip], now) \in Entry
      BY <2>1, ChargeType DEF TypeOK, Grant
    <3>2. entries' \in [IPs -> Entry]
      BY <2>1, <3>1 DEF TypeOK, Grant
    <3>3. log' \in [IPs -> Seq(0..MaxTime)]
      BY <2>1 DEF TypeOK, Grant
    <3>4. verdict' \in [IPs -> {"none", "granted", "denied"}]
      BY <2>1 DEF TypeOK, Grant
    <3> QED
      BY <2>1, <3>2, <3>3, <3>4 DEF TypeOK, Grant
  <2>2. ASSUME NEW ip \in IPs, Deny(ip) PROVE TypeOK'
    BY <2>2 DEF TypeOK, Deny
  <2>3. CASE Tick
    BY <2>3 DEF TypeOK, Tick
  <2>4. CASE UNCHANGED vars
    BY <2>4 DEF TypeOK, vars
  <2> QED
    BY <2>1, <2>2, <2>3, <2>4 DEF Next
<1> QED
  BY <1>1, <1>2, PTL DEF Spec

-----------------------------------------------------------------------------
(* One grant.  In a new window, the window that ends held at most Rps      *)
(* grants and ended before t; in the same window t is at most a second     *)
(* after its start, and the grant 2*Rps places back is older than the      *)
(* second before that start.                                               *)
LEMMA GrantKeepsHistory ==
  ASSUME NEW l \in Seq(Nat), NEW e \in Entry, NEW t \in Nat,
         Remembers(l, e, t), Spread(l), Admits(e, t)
  PROVE  /\ Remembers(Append(l, t), Charge(e, t), t)
         /\ Spread(Append(l, t))
<1> DEFINE m == Append(l, t)
           n == Len(l)
           f == Charge(e, t)
<1>1. /\ n \in Nat
      /\ Len(m) = n + 1
      /\ \A i \in 1..n : m[i] = l[i]
      /\ m[n + 1] = t
      /\ \A i \in 1..(n + 1) : i \in 1..n \/ i = n + 1
  OBVIOUS
<1>2. /\ Second \in Nat \ {0}
      /\ Rps \in Nat \ {0}
      /\ e.count \in 0..Rps
      /\ e.windowEnd \in Int
      /\ \A i \in 1..n : l[i] \in Nat
  BY LimiterAssumption, RpsPositive DEF Entry
<1>3. /\ e.count <= n
      /\ e.windowEnd <= t + Second
      /\ \A i \in 1..n : l[i] <= t /\ l[i] <= e.windowEnd
      /\ \A i \in 1..n : i + e.count <= n => l[i] < e.windowEnd - Second
      /\ \A i \in 1..n :
            i + e.count + Rps <= n => l[i] < e.windowEnd - 2 * Second
  BY DEF Remembers
<1>4. \A i \in 1..n : i + 2 * Rps <= n => l[i + 2 * Rps] - l[i] > Second
  BY DEF Spread
<1>5. ASSUME \A i \in 1..n : i + 2 * Rps = n + 1 => t - l[i] > Second
      PROVE  Spread(m)
  <2> SUFFICES ASSUME NEW i \in 1..(n + 1), i + 2 * Rps <= n + 1
               PROVE  m[i + 2 * Rps] - m[i] > Second
    BY <1>1 DEF Spread
  <2> HIDE DEF m, n
  <2>1. i \in 1..n /\ m[i] = l[i]
    BY <1>1, <1>2
  <2>2. CASE i + 2 * Rps = n + 1
    BY <1>1, <1>5, <2>1, <2>2
  <2>3. CASE i + 2 * Rps <= n
    BY <1>1, <1>2, <1>4, <2>1, <2>3
  <2> QED
    BY <1>1, <1>2, <2>2, <2>3
<1>6. CASE WindowOver(e, t)
  <2>1. f.count = 1 /\ f.windowEnd = t + Second
    BY <1>6 DEF Charge
  <2>2. t > e.windowEnd
    BY <1>6 DEF WindowOver
  <2> HIDE DEF m, n, f
  <2>3. /\ f.count <= Rps
        /\ f.count <= n + 1
        /\ f.windowEnd <= t + Second
    BY <1>1, <1>2, <2>1
  <2>4. \A i \in 1..(n + 1) : m[i] <= t /\ m[i] <= f.windowEnd
    BY <1>1, <1>2, <1>3, <2>1
  <2>5. \A i \in 1..(n + 1) :
           i + f.count <= n + 1 => m[i] < f.windowEnd - Second
    BY <1>1, <1>2, <1>3, <2>1, <2>2
  <2>6. ASSUME NEW i \in 1..(n + 1), i + f.count + Rps <= n + 1
        PROVE  m[i] < f.windowEnd - 2 * Second
    <3>1. i \in 1..n /\ i + e.count <= n
      BY <1>1, <1>2, <1>3, <2>1, <2>2, <2>6
    <3>2. m[i] = l[i] /\ l[i] \in Nat /\ l[i] < e.windowEnd - Second
      BY <1>1, <1>2, <1>3, <3>1
    <3> QED
      BY <1>2, <2>1, <2>2, <3>2
  <2>7. ASSUME NEW i \in 1..n, i + 2 * Rps = n + 1
        PROVE  t - l[i] > Second
    <3>1. i + e.count <= n
      BY <1>1, <1>2, <1>3, <2>2, <2>7
    <3>2. l[i] \in Nat /\ l[i] < e.windowEnd - Second
      BY <1>2, <1>3, <3>1
    <3> QED
      BY <1>2, <2>2, <3>2
  <2>8. Spread(m)
    BY <1>5, <2>7
  <2> QED
    BY <1>1, <2>3, <2>4, <2>5, <2>6, <2>8 DEF Remembers, m, f
<1>7. CASE ~WindowOver(e, t)
  <2>1. f.count = e.count + 1 /\ f.windowEnd = e.windowEnd
    BY <1>7 DEF Charge, Entry
  <2>2. t <= e.windowEnd /\ e.count < Rps
    BY <1>2, <1>7 DEF WindowOver, Admits
  <2> HIDE DEF m, n, f
  <2>3. /\ f.count <= Rps
        /\ f.count <= n + 1
        /\ f.windowEnd <= t + Second
    BY <1>1, <1>2, <1>3, <2>1, <2>2
  <2>4. ASSUME NEW i \in 1..(n + 1)
        PROVE  m[i] <= t /\ m[i] <= f.windowEnd
    <3>1. CASE i \in 1..n
      BY <1>1, <1>3, <2>1, <3>1
    <3>2. CASE i = n + 1
      BY <1>1, <2>1, <2>2, <3>2
    <3> QED
      BY <1>1, <3>1, <3>2
  <2>5. ASSUME NEW i \in 1..(n + 1), i + f.count <= n + 1
        PROVE  m[i] < f.windowEnd - Second
    <3>1. i \in 1..n /\ i + e.count <= n
      BY <1>1, <1>2, <2>1, <2>5
    <3> QED
      BY <1>1, <1>2, <1>3, <2>1, <3>1
  <2>6. ASSUME NEW i \in 1..(n + 1), i + f.count + Rps <= n + 1
        PROVE  m[i] < f.windowEnd - 2 * Second
    <3>1. i \in 1..n /\ i + e.count + Rps <= n
      BY <1>1, <1>2, <1>3, <2>1, <2>2, <2>6
    <3>2. m[i] = l[i] /\ l[i] < e.windowEnd - 2 * Second
      BY <1>1, <1>2, <1>3, <3>1
    <3> QED
      BY <2>1, <3>2
  <2>7. ASSUME NEW i \in 1..n, i + 2 * Rps = n + 1
        PROVE  t - l[i] > Second
    <3>1. i + e.count + Rps <= n
      BY <1>1, <1>2, <1>3, <2>2, <2>7
    <3>2. l[i] \in Nat /\ l[i] < e.windowEnd - 2 * Second
      BY <1>2, <1>3, <3>1
    <3> QED
      BY <1>2, <1>3, <3>2
  <2>8. Spread(m)
    BY <1>5, <2>7
  <2> QED
    BY <1>1, <2>3, <2>4, <2>5, <2>6, <2>8 DEF Remembers, m, f
<1> QED
  BY <1>6, <1>7

(* One grant.  A new window starts at t with this grant alone in it; in    *)
(* the same window the grant joins those counted, and it is later than     *)
(* they are.                                                               *)
LEMMA GrantKeepsCounted ==
  ASSUME NEW l \in Seq(Nat), NEW e \in Entry, NEW t \in Nat,
         Remembers(l, e, t), Counted(l, e), Admits(e, t)
  PROVE  Counted(Append(l, t), Charge(e, t))
<1> DEFINE m == Append(l, t)
           n == Len(l)
           f == Charge(e, t)
<1>1. /\ n \in Nat
      /\ Len(m) = n + 1
      /\ \A i \in 1..n : m[i] = l[i]
      /\ m[n + 1] = t
  OBVIOUS
<1>2. /\ Second \in Nat
      /\ e.count \in Nat /\ e.windowEnd \in Int /\ e.windowEnd <= t + Second
      /\ \A i \in 1..n : i + e.count > n => l[i] >= e.windowEnd - Second
  BY LimiterAssumption, RpsPositive DEF Entry, Remembers, Counted
<1> SUFFICES ASSUME NEW i \in 1..(n + 1), i + f.count > n + 1
             PROVE  m[i] >= f.windowEnd - Second
  BY <1>1 DEF Counted
<1>3. CASE WindowOver(e, t)
  <2>1. f.count = 1 /\ f.windowEnd = t + Second
    BY <1>3 DEF Charge
  <2> HIDE DEF m, n, f
  <2>2. i = n + 1
    BY <1>1, <2>1
  <2> QED
    BY <1>1, <1>2, <2>1, <2>2
<1>4. CASE ~WindowOver(e, t)
  <2>1. f.count = e.count + 1 /\ f.windowEnd = e.windowEnd
    BY <1>4 DEF Charge, Entry
  <2> HIDE DEF m, n, f
  <2>2. CASE i = n + 1
    BY <1>1, <1>2, <2>1, <2>2
  <2>3. CASE i \in 1..n
    <3>1. i + e.count > n
      BY <1>1, <1>2, <2>1
    <3>2. m[i] = l[i] /\ l[i] >= e.windowEnd - Second
      BY <1>1, <1>2, <2>3, <3>1
    <3> QED
      BY <2>1, <3>2
  <2> QED
    BY <1>1, <2>2, <2>3
<1> QED
  BY <1>3, <1>4

(* The clock's advance takes nothing from what is remembered.              *)
LEMMA TickKeepsHistory ==
  ASSUME NEW l \in Seq(Nat), NEW e \in Entry, NEW t \in Nat,
         Remembers(l, e, t)
  PROVE  Remembers(l, e, t + 1)
<1>1. /\ Second \in Nat
      /\ e.windowEnd \in Int
      /\ \A i \in 1..Len(l) : l[i] \in Nat
  BY LimiterAssumption DEF Entry
<1> QED
  BY <1>1 DEF Remembers

-----------------------------------------------------------------------------
(* What the two numbers of an entry still say of the grants to its key,    *)
(* and the spread of those grants, survive every answer of Allow and every *)
(* tick of the clock.                                                      *)
THEOREM HistoryInvariant == Spec => []IInv
<1> USE LimiterAssumption, RateLimiterAssumption
<1> DEFINE Known(l, e, t) == Remembers(l, e, t) /\ Counted(l, e) /\ Spread(l)
<1>1. Init => \A ip \in IPs : Known(log[ip], entries[ip], now)
  BY RpsPositive DEF Init, NoEntry, Remembers, Counted, Spread
<1>2. IInv /\ TypeOK' /\ [Next]_vars => IInv'
  <2> SUFFICES ASSUME IInv, TypeOK', [Next]_vars,
                      NEW ip \in IPs
               PROVE  Known(log'[ip], entries'[ip], now')
    BY DEF IInv
  <2>1. /\ log[ip] \in Seq(Nat)
        /\ entries[ip] \in Entry
        /\ now \in Nat
        /\ Known(log[ip], entries[ip], now)
    <3>1. log[ip] \in Seq(0..MaxTime) /\ 0..MaxTime \subseteq Nat
      BY DEF IInv, TypeOK
    <3> QED
      BY <3>1 DEF IInv, TypeOK
  <2>2. ASSUME NEW k \in IPs, Grant(k)
        PROVE  Known(log'[ip], entries'[ip], now')
    <3>1. CASE k = ip
      <4>1. /\ Admits(entries[ip], now)
            /\ log'[ip] = Append(log[ip], now)
            /\ entries'[ip] = Charge(entries[ip], now)
            /\ now' = now
        BY <2>2, <3>1 DEF Grant, IInv, TypeOK
      <4> QED
        BY <2>1, <4>1, GrantKeepsHistory, GrantKeepsCounted
    <3>2. CASE k # ip
      <4>1. /\ log'[ip] = log[ip]
            /\ entries'[ip] = entries[ip]
            /\ now' = now
        BY <2>2, <3>2 DEF Grant, IInv, TypeOK
      <4> QED
        BY <2>1, <4>1
    <3> QED
      BY <3>1, <3>2
  <2>3. ASSUME NEW k \in IPs, Deny(k)
        PROVE  Known(log'[ip], entries'[ip], now')
    BY <2>1, <2>3 DEF Deny
  <2>4. CASE Tick
    BY <2>1, <2>4, TickKeepsHistory DEF Tick
  <2>5. CASE UNCHANGED vars
    BY <2>1, <2>5 DEF vars
  <2> QED
    BY <2>2, <2>3, <2>4, <2>5 DEF Next
<1>3. Spec => []TypeOK
  BY TypeCorrect
<1>4. Init /\ TypeOK => IInv
  BY <1>1 DEF IInv
<1> QED
  BY <1>2, <1>3, <1>4, PTL DEF Spec

(* Whatever the rate and the window, no key is ever granted 2*Rps + 1      *)
(* token exchanges within one second.                                      *)
THEOREM BurstBounded == Spec => []BurstBound
<1>1. IInv => BurstBound
  BY DEF IInv, Spread, BurstBound
<1> QED
  BY <1>1, HistoryInvariant, PTL

(* Whatever the rate and the window, Allow turns a key away only when that *)
(* key has had Rps token exchanges within the last second: the count that  *)
(* denies it is Rps, and everything counted is that recent.                *)
THEOREM DeniedFairly == Spec => DeniedOnlyAtTheRate
<1> DEFINE AtTheRate(ip) == /\ Len(log[ip]) >= Rps
                           /\ now - log[ip][Len(log[ip]) - Rps + 1] <= Second
<1>1. ASSUME IInv, NEW ip \in IPs, Deny(ip)
      PROVE  AtTheRate(ip)
  <2> DEFINE l == log[ip]
             e == entries[ip]
             i == Len(l) - Rps + 1
  <2>1. /\ Rps \in Nat \ {0} /\ Second \in Nat /\ now \in Nat
        /\ e.count \in 0..Rps /\ e.windowEnd \in Int
        /\ Len(l) \in Nat
        /\ e.count <= Len(l)
        /\ \A j \in 1..Len(l) :
              j + e.count > Len(l) => l[j] >= e.windowEnd - Second
    BY <1>1, RpsPositive, LimiterAssumption, RateLimiterAssumption
       DEF IInv, TypeOK, Entry, Remembers, Counted
  <2>2. now <= e.windowEnd /\ e.count = Rps
    BY <1>1, <2>1 DEF Deny, Admits, WindowOver
  <2>3. l[i] \in Nat
    <3>1. l \in Seq(0..MaxTime) /\ 0..MaxTime \subseteq Nat
      BY <1>1, RateLimiterAssumption DEF IInv, TypeOK
    <3>2. i \in 1..Len(l)
      BY <2>1, <2>2
    <3>3. l[i] \in 0..MaxTime
      BY <3>1, <3>2, ElementOfSeq
    <3> QED
      BY <3>1, <3>3
  <2> HIDE DEF l, e
  <2>4. i \in 1..Len(l) /\ i + e.count > Len(l)
    BY <2>1, <2>2
  <2>5. Len(l) >= Rps /\ l[i] >= e.windowEnd - Second
    BY <2>1, <2>2, <2>4
  <2>6. now - l[i] <= Second
    BY <2>1, <2>2, <2>3, <2>5
  <2> QED
    BY <2>5, <2>6 DEF l
<1>2. ASSUME IInv, [Next]_vars, NEW ip \in IPs,
             verdict[ip] # "denied", verdict'[ip] = "denied"
      PROVE  Deny(ip)
  <2>1. verdict \in [IPs -> {"none", "granted", "denied"}]
    BY <1>2 DEF IInv, TypeOK
  <2>2. ASSUME NEW k \in IPs, Grant(k) PROVE FALSE
    BY <1>2, <2>1, <2>2 DEF Grant
  <2>3. ASSUME NEW k \in IPs, Deny(k) PROVE k = ip
    BY <1>2, <2>1, <2>3 DEF Deny
  <2>4. ~Tick /\ ~UNCHANGED vars
    BY <1>2 DEF Tick, vars
  <2> QED
    BY <1>2, <2>2, <2>3, <2>4 DEF Next
<1> HIDE DEF AtTheRate
<1>3. IInv /\ [Next]_vars =>
        \A ip \in IPs :
           verdict[ip] # "denied" /\ verdict'[ip] = "denied" => AtTheRate(ip)
  BY <1>1, <1>2
<1>4. IInv /\ [Next]_vars =>
        [\A ip \in IPs :
           verdict[ip] # "denied" /\ verdict'[ip] = "denied" =>
              /\ Len(log[ip]) >= Rps
              /\ now - log[ip][Len(log[ip]) - Rps + 1] <= Second]_vars
  BY <1>3 DEF AtTheRate
<1> QED
  BY <1>4, HistoryInvariant, PTL DEF Spec, DeniedOnlyAtTheRate
=============================================================================
