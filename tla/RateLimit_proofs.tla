-------------------------- MODULE RateLimit_proofs --------------------------
(* Proofs about RateLimit: what a window lets through is bounded on either   *)
(* store, a refusal is deserved and Retry-After is close. A bucket is        *)
(* related to what was let through since its window began, a sum.            *)
EXTENDS RateLimit, JsMap_proofs

(* The requests let through less than n units ago.                           *)
Within(f, n) == SumFunctionOnSet(f, 0..(n - 1))

(* The window of a bucket is over, or there is none: less than the limit was *)
(* let through in the last one. It is not: what was let through since it     *)
(* began is its count, up to the limit, and includes its first request.      *)
Closed(f) == f[0] = 0 /\ Within(f, Window) < Limit
Opened(f, b) ==
    LET since == Window - b.left
    IN  /\ Within(f, since + 1) = Lesser(b.count, Limit)
        /\ f[since] > 0
        /\ Within(f, Window) < Within(f, since + 1) + Limit
----------------------------------------------------------------------------
USE BoundsPositive, CommandsQuick

LEMMA Numbers ==
    /\ Limit \in Nat /\ Limit > 0 /\ Window \in Nat /\ Window > 0
    /\ Second \in Nat /\ Second > 0 /\ MaxEntries \in Nat /\ MaxEntries > 0
    /\ ScanLimit \in Nat /\ ScanLimit > 0 /\ Timeout \in Nat /\ Delay \in Nat
    /\ Timeout <= Delay /\ Timeout + Delay < Window
    /\ MaxCount \in Nat /\ MaxCount > Limit
    /\ Ages = 0..(Window - 1) /\ 0 \in Ages
  BY DEF Ages

(* Induction over the ages.                                                  *)
LEMMA UpToWindow ==
    ASSUME NEW T, 0 \in T, \A n \in Ages : n \in T => n + 1 \in T
    PROVE  \A n \in 0..Window : n \in T
  <1> DEFINE R == {n \in Nat : n <= Window /\ n \notin T}
  <1> SUFFICES ASSUME R # {} PROVE FALSE
    BY Numbers
  <1>1. PICK n \in R : \A y \in R : n <= y
    <2>1. R \in SUBSET Nat
      OBVIOUS
    <2> HIDE DEF R
    <2> QED  BY <2>1, LeastOf
  <1>2. n # 0 /\ n \in Nat /\ n <= Window /\ n \notin T
    BY <1>1
  <1>3. n - 1 \in Ages /\ n - 1 \notin R
    BY <1>1, <1>2, Numbers
  <1>4. n - 1 \in T
    BY <1>2, <1>3, Numbers
  <1>5. (n - 1) + 1 \in T
    BY <1>3, <1>4
  <1> QED  BY <1>2, <1>5

LEMMA WithinIs ==
    ASSUME NEW f \in [Ages -> Nat]
    PROVE  /\ Within(f, 0) = 0
           /\ \A n \in Ages : Within(f, n + 1) = Within(f, n) + f[n]
           /\ \A n \in 0..Window : Within(f, n) \in Nat
           /\ Within(f, Window) = SumFunctionOnSet(f, Ages)
  <1>1. Within(f, 0) = 0
    <2>1. 0..(0 - 1) = {}
      OBVIOUS
    <2> QED  BY <2>1, SumIs, FS_EmptySet DEF Within
  <1>2. ASSUME NEW n \in Ages
        PROVE  Within(f, n + 1) = Within(f, n) + f[n]
    <2>1. n \in Nat /\ n <= Window - 1
      BY Numbers
    <2>2. 0..((n + 1) - 1) = 0..n /\ (0..n) \ {n} = 0..(n - 1) /\ n \in 0..n
      BY <2>1
    <2>3. IsFiniteSet(0..n) /\ IsFiniteSet(0..(n - 1))
      <3>1. 0 \in Int /\ n \in Int /\ n - 1 \in Int
        BY <2>1
      <3> QED  BY <3>1, FS_Interval
    <2>4. \A x \in 0..n : f[x] \in Nat
      BY <2>1, Numbers
    <2>5. SumFunctionOnSet(f, 0..n) = f[n] + SumFunctionOnSet(f, (0..n) \ {n})
      <3> DEFINE S == 0..n
      <3>1. IsFiniteSet(S) /\ n \in S /\ \A x \in S : f[x] \in Nat
        BY <2>2, <2>3, <2>4
      <3> HIDE DEF S
      <3>2. SumFunctionOnSet(f, S) = f[n] + SumFunctionOnSet(f, S \ {n})
        BY <3>1, SumSplit
      <3> QED  BY <3>2 DEF S
    <2>6. \A x \in 0..(n - 1) : f[x] \in Nat
      BY <2>1, <2>4
    <2>7. SumFunctionOnSet(f, 0..(n - 1)) \in Nat /\ f[n] \in Nat
      BY <2>3, <2>6, SumNat
    <2>8. SumFunctionOnSet(f, 0..n) = f[n] + SumFunctionOnSet(f, 0..(n - 1))
      BY <2>2, <2>5
    <2>9. SumFunctionOnSet(f, 0..n) = SumFunctionOnSet(f, 0..(n - 1)) + f[n]
      BY <2>7, <2>8
    <2> QED  BY <2>2, <2>9 DEF Within
  <1>3. \A n \in 0..Window : Within(f, n) \in Nat
    <2> SUFFICES ASSUME NEW n \in 0..Window PROVE Within(f, n) \in Nat
      OBVIOUS
    <2>1. 0 \in Int /\ n - 1 \in Int /\ \A x \in 0..(n - 1) : f[x] \in Nat
      BY Numbers
    <2>2. IsFiniteSet(0..(n - 1))
      BY <2>1, FS_Interval
    <2> QED  BY <2>1, <2>2, SumNat DEF Within
  <1>4. Within(f, Window) = SumFunctionOnSet(f, Ages)
    BY DEF Within, Ages
  <1> QED  BY <1>1, <1>2, <1>3, <1>4

LEMMA WithinMore ==
    ASSUME NEW f \in [Ages -> Nat], NEW m \in 0..Window, NEW n \in 0..Window, m <= n
    PROVE  Within(f, m) <= Within(f, n)
  <1> DEFINE T == {k \in 0..Window : m <= k => Within(f, m) <= Within(f, k)}
  <1>1. 0 \in T
    BY WithinIs, Numbers
  <1>2. ASSUME NEW k \in Ages, k \in T PROVE k + 1 \in T
    <2>1. k \in Nat /\ k + 1 \in 0..Window /\ k \in 0..Window
      BY Numbers
    <2>2. /\ Within(f, k + 1) = Within(f, k) + f[k] /\ f[k] \in Nat
          /\ Within(f, k) \in Nat /\ Within(f, m) \in Nat
      BY <2>1, WithinIs
    <2>3. m <= k + 1 => Within(f, m) <= Within(f, k + 1)
      <3>1. CASE m = k + 1
        BY <2>1, <2>2, <3>1
      <3>2. CASE m <= k
        BY <1>2, <2>2, <3>2
      <3>3. m \in Nat
        BY Numbers
      <3> QED  BY <2>1, <3>1, <3>2, <3>3
    <2> QED  BY <2>1, <2>3
  <1> HIDE DEF T
  <1>3. n \in T
    BY <1>1, <1>2, UpToWindow
  <1> QED  BY <1>3 DEF T

(* Time goes on by a unit.                                                   *)
LEMMA WithinShifted ==
    ASSUME NEW f \in [Ages -> Nat]
    PROVE  /\ Shifted(f) \in [Ages -> Nat] /\ Shifted(f)[0] = 0
           /\ \A n \in Ages : Within(Shifted(f), n + 1) = Within(f, n)
           /\ \A n \in Ages : n > 0 => Shifted(f)[n] = f[n - 1]
  <1> DEFINE g == Shifted(f)
  <1>1. \A n \in Ages : n > 0 => n - 1 \in Ages
    BY Numbers
  <1>2. g \in [Ages -> Nat] /\ g[0] = 0 /\ \A n \in Ages : n > 0 => g[n] = f[n - 1]
    BY <1>1, Numbers DEF Shifted
  <1> HIDE DEF g
  <1> DEFINE T == {n \in 0..Window : n \in Ages => Within(g, n + 1) = Within(f, n)}
  <1>3. 0 \in T
    <2>1. Within(g, 0 + 1) = Within(g, 0) + g[0] /\ Within(g, 0) = 0 /\ Within(f, 0) = 0
      BY <1>2, WithinIs, Numbers
    <2> QED  BY <1>2, <2>1, Numbers
  <1>4. ASSUME NEW n \in Ages, n \in T PROVE n + 1 \in T
    <2>1. n \in Nat /\ n + 1 \in 0..Window /\ (n + 1) - 1 = n /\ n + 1 > 0
      BY Numbers
    <2>2. ASSUME n + 1 \in Ages PROVE Within(g, (n + 1) + 1) = Within(f, n + 1)
      <3>1. Within(g, (n + 1) + 1) = Within(g, n + 1) + g[n + 1]
        BY <1>2, <2>2, WithinIs
      <3>2. Within(f, n + 1) = Within(f, n) + f[n]
        BY WithinIs
      <3>3. g[n + 1] = f[n]
        BY <1>2, <2>1, <2>2
      <3> QED  BY <1>4, <3>1, <3>2, <3>3
    <2> QED  BY <2>1, <2>2
  <1> HIDE DEF T
  <1>5. \A n \in 0..Window : n \in T
    BY <1>3, <1>4, UpToWindow
  <1>6. \A n \in Ages : Within(g, n + 1) = Within(f, n)
    BY <1>5, Numbers DEF T
  <1> QED  BY <1>2, <1>6 DEF g

(* A request is let through.                                                 *)
LEMMA WithinOneMore ==
    ASSUME NEW f \in [Ages -> Nat], NEW g \in [Ages -> Nat],
           g[0] = f[0] + 1, \A a \in Ages : a # 0 => g[a] = f[a]
    PROVE  \A n \in 1..Window : Within(g, n) = Within(f, n) + 1
  <1> DEFINE T == {n \in 0..Window : n > 0 => Within(g, n) = Within(f, n) + 1}
  <1>1. 0 \in T
    BY Numbers
  <1>2. ASSUME NEW n \in Ages, n \in T PROVE n + 1 \in T
    <2>1. n \in Nat /\ n + 1 \in 0..Window /\ n \in 0..Window
      BY Numbers
    <2>2. /\ Within(g, n + 1) = Within(g, n) + g[n]
          /\ Within(f, n + 1) = Within(f, n) + f[n]
          /\ Within(f, n) \in Nat /\ f[n] \in Nat
          /\ Within(f, 0) = 0 /\ Within(g, 0) = 0
      BY <2>1, WithinIs
    <2>3. CASE n = 0
      BY <2>1, <2>2, <2>3
    <2>4. CASE n # 0
      BY <1>2, <2>1, <2>2, <2>4
    <2> QED  BY <2>3, <2>4
  <1> HIDE DEF T
  <1>3. \A n \in 0..Window : n \in T
    BY <1>1, <1>2, UpToWindow
  <1> QED  BY <1>3, Numbers DEF T

LEMMA WithinNothing ==
    Nothing \in [Ages -> Nat] /\ Nothing[0] = 0 /\ \A n \in 0..Window : Within(Nothing, n) = 0
  <1>1. Nothing \in [Ages -> Nat] /\ Nothing[0] = 0 /\ \A n \in Ages : Nothing[n] = 0
    BY Numbers DEF Nothing
  <1> DEFINE T == {n \in 0..Window : Within(Nothing, n) = 0}
  <1>2. 0 \in T
    BY <1>1, WithinIs, Numbers
  <1>3. ASSUME NEW n \in Ages, n \in T PROVE n + 1 \in T
    <2>1. n + 1 \in 0..Window /\ Within(Nothing, n + 1) = Within(Nothing, n) + 0
      BY <1>1, WithinIs, Numbers
    <2> QED  BY <1>3, <2>1
  <1> HIDE DEF T
  <1>4. \A n \in 0..Window : n \in T
    BY <1>2, <1>3, UpToWindow
  <1> QED  BY <1>1, <1>4 DEF T
----------------------------------------------------------------------------
(* A bucket whose window is not over, a request and a unit of time.          *)
LEMMA PlusIs ==
    ASSUME NEW b \in Entries
    PROVE  /\ Plus(b) \in Entries /\ Plus(b).ip = b.ip /\ Plus(b).left = b.left
           /\ Plus(b).count = Lesser(b.count + 1, MaxCount)
           /\ Plus(b).count > 1
           /\ b.count < Limit => Plus(b).count = b.count + 1
           /\ b.count >= Limit => Plus(b).count > Limit
  <1>1. b.count \in Nat /\ b.count > 0 /\ b.count <= MaxCount
    BY DEF Entries
  <1>2. Lesser(b.count + 1, MaxCount) \in 1..MaxCount
    BY <1>1, Numbers DEF Lesser
  <1>3. LET c == [b EXCEPT !.count = Lesser(b.count + 1, MaxCount)]
        IN  /\ c \in Entries /\ c.ip = b.ip /\ c.left = b.left
            /\ c.count = Lesser(b.count + 1, MaxCount)
    BY <1>2 DEF Entries
  <1>4. Plus(b) = [b EXCEPT !.count = Lesser(b.count + 1, MaxCount)]
    BY DEF Plus
  <1>5. /\ Lesser(b.count + 1, MaxCount) > 1
        /\ b.count < Limit => Lesser(b.count + 1, MaxCount) = b.count + 1
        /\ b.count >= Limit => Lesser(b.count + 1, MaxCount) > Limit
    BY <1>1, Numbers DEF Lesser
  <1> QED  BY <1>3, <1>4, <1>5

(* A window is open: the request that is let through counts, ...             *)
LEMMA OpenedCounts ==
    ASSUME NEW f \in [Ages -> Nat], NEW g \in [Ages -> Nat],
           g[0] = f[0] + 1, \A a \in Ages : a # 0 => g[a] = f[a],
           NEW b \in Entries, ~Expired(b), Opened(f, b), b.count < Limit
    PROVE  Opened(g, Plus(b))
  <1> DEFINE s == Window - b.left
  <1>1. s \in Ages /\ s + 1 \in 1..Window /\ b.count \in Nat /\ b.count > 0
    BY Numbers DEF Entries, Expired
  <1>2. /\ Within(f, s + 1) = b.count /\ f[s] > 0
        /\ Within(f, Window) < Within(f, s + 1) + Limit
    BY <1>1, Numbers DEF Opened, Lesser
  <1>3. Plus(b).left = b.left /\ Plus(b).count = b.count + 1
    BY PlusIs
  <1> HIDE DEF s
  <1>4. /\ Within(g, s + 1) = Within(f, s + 1) + 1
        /\ Within(g, Window) = Within(f, Window) + 1
    <2>1. \A n \in 1..Window : Within(g, n) = Within(f, n) + 1
      BY WithinOneMore
    <2>2. Window \in 1..Window
      BY Numbers
    <2> QED  BY <1>1, <2>1, <2>2
  <1>5. g[s] > 0
    BY <1>1, <1>2
  <1>6. Lesser(b.count + 1, Limit) = b.count + 1
    BY <1>1, Numbers DEF Lesser
  <1>7. Within(f, s + 1) \in Nat /\ Within(f, Window) \in Nat
    BY <1>1, WithinIs, Numbers
  <1>8. Within(g, Window) < Within(g, s + 1) + Limit
    BY <1>2, <1>4, <1>7, Numbers
  <1>9. Within(g, s + 1) = b.count + 1
    BY <1>2, <1>4
  <1> QED  BY <1>3, <1>5, <1>6, <1>8, <1>9 DEF Opened, s

(* ... the refused one does not matter, ...                                  *)
LEMMA OpenedRefuses ==
    ASSUME NEW f \in [Ages -> Nat], NEW b \in Entries, Opened(f, b), b.count >= Limit
    PROVE  Opened(f, Plus(b)) /\ (~Expired(b) => Within(f, Window) >= Limit)
  <1>1. b.count \in Nat
    BY DEF Entries
  <1>2. /\ Plus(b).left = b.left /\ Plus(b).count > Limit /\ Plus(b).count \in Nat
    BY PlusIs DEF Entries
  <1>3. Lesser(b.count, Limit) = Limit /\ Lesser(Plus(b).count, Limit) = Limit
    BY <1>1, <1>2, Numbers DEF Lesser
  <1>4. ASSUME ~Expired(b) PROVE Within(f, Window) >= Limit
    <2>1. Window - b.left + 1 \in 0..Window /\ Window \in 0..Window
      BY <1>4, Numbers DEF Entries, Expired
    <2>2. Within(f, Window - b.left + 1) = Limit
      BY <1>3 DEF Opened
    <2>3. Within(f, Window - b.left + 1) <= Within(f, Window)
      BY <2>1, WithinMore, Numbers
    <2>4. Within(f, Window) \in Nat
      BY <2>1, WithinIs
    <2> QED  BY <2>2, <2>3, <2>4, Numbers
  <1> QED  BY <1>2, <1>3, <1>4 DEF Opened

(* ... and the time until it is over.                                        *)
LEMMA OpenedAges ==
    ASSUME NEW f \in [Ages -> Nat], NEW b \in Entries, ~Expired(b), Opened(f, b),
           NEW c \in Entries, c.left = b.left - 1, c.count = b.count
    PROVE  /\ ~Expired(c) => Opened(Shifted(f), c)
           /\ Expired(c) => Closed(Shifted(f))
  <1> DEFINE s == Window - b.left
             g == Shifted(f)
  <1>1. s \in Ages /\ s + 1 \in 1..Window /\ b.count \in Nat /\ b.left \in 1..Window
    BY Numbers DEF Entries, Expired
  <1>2. /\ Within(f, s + 1) = Lesser(b.count, Limit) /\ f[s] > 0
        /\ Within(f, Window) < Within(f, s + 1) + Limit
    BY DEF Opened
  <1>3. /\ g \in [Ages -> Nat] /\ g[0] = 0
        /\ \A n \in Ages : Within(g, n + 1) = Within(f, n)
        /\ \A n \in Ages : n > 0 => g[n] = f[n - 1]
    BY WithinShifted
  <1>4. \A n \in 0..Window : Within(f, n) \in Nat
    BY WithinIs
  <1>5. Within(f, Window) = Within(f, Window - 1) + f[Window - 1]
    <2>1. Window - 1 \in Ages /\ (Window - 1) + 1 = Window
      BY Numbers
    <2> QED  BY <2>1, WithinIs
  <1>6. Within(g, Window) = Within(f, Window - 1)
    <2>1. Window - 1 \in Ages /\ (Window - 1) + 1 = Window
      BY Numbers
    <2> QED  BY <1>3, <2>1
  <1>7. ASSUME ~Expired(c) PROVE Opened(g, c)
    <2>1. Window - c.left = s + 1 /\ s + 1 \in Ages
      BY <1>1, <1>7, Numbers DEF Expired
    <2>2. Within(g, (s + 1) + 1) = Within(f, s + 1)
      BY <1>3, <2>1
    <2>3. g[s + 1] = f[s]
      <3>1. s + 1 > 0 /\ (s + 1) - 1 = s
        BY <1>1, Numbers
      <3> QED  BY <1>3, <2>1, <3>1
    <2>4. Within(g, Window) <= Within(f, Window)
      <3>1. f[Window - 1] \in Nat /\ Within(f, Window - 1) \in Nat
        BY <1>4, Numbers
      <3> QED  BY <1>5, <1>6, <3>1
    <2>5. Within(g, Window) < Within(f, s + 1) + Limit
      <3>1. s + 1 \in 0..Window /\ Window \in 0..Window /\ Window - 1 \in 0..Window
        BY <1>1, Numbers
      <3>2. Within(f, s + 1) \in Nat /\ Within(f, Window) \in Nat /\ Within(g, Window) \in Nat
        BY <1>4, <1>6, <3>1
      <3> QED  BY <1>2, <2>4, <3>2, Numbers
    <2> HIDE DEF s, g
    <2> QED  BY <1>2, <2>1, <2>2, <2>3, <2>5 DEF Opened
  <1>8. ASSUME Expired(c) PROVE Closed(g)
    <2>1. s = Window - 1 /\ s + 1 = Window
      BY <1>1, <1>8, Numbers DEF Expired
    <2>2. Within(f, Window) <= Limit
      BY <1>1, <1>2, <2>1, Numbers DEF Lesser
    <2>3. f[Window - 1] > 0 /\ f[Window - 1] \in Nat /\ Within(f, Window - 1) \in Nat
      BY <1>2, <1>4, <2>1, Numbers
    <2>4. Within(g, Window) < Limit
      BY <1>5, <1>6, <2>2, <2>3, Numbers
    <2> QED  BY <1>3, <2>4 DEF Closed
  <1> QED  BY <1>7, <1>8

(* No window is open: one is opened, or time goes on.                        *)
LEMMA ClosedOpens ==
    ASSUME NEW f \in [Ages -> Nat], Closed(f), NEW g \in [Ages -> Nat],
           g[0] = f[0] + 1, \A a \in Ages : a # 0 => g[a] = f[a],
           NEW b \in Entries, b.count = 1, b.left = Window
    PROVE  Opened(g, b)
  <1>1. Window - b.left = 0 /\ 0 + 1 = 1 /\ Lesser(1, Limit) = 1 /\ 1 \in 1..Window
    BY Numbers DEF Lesser
  <1>2. f[0] = 0 /\ g[0] = 1 /\ Within(f, Window) < Limit /\ Within(f, Window) \in Nat
    BY WithinIs, Numbers DEF Closed
  <1>3. Within(g, 1) = 1
    <2>1. Within(g, 0 + 1) = Within(g, 0) + g[0] /\ Within(g, 0) = 0
      BY WithinIs, Numbers
    <2> QED  BY <1>2, <2>1
  <1>4. Within(g, Window) = Within(f, Window) + 1
    BY WithinOneMore, Numbers
  <1>5. Within(g, Window) < 1 + Limit
    BY <1>2, <1>4, Numbers
  <1> QED  BY <1>1, <1>2, <1>3, <1>5 DEF Opened

LEMMA ClosedAges ==
    ASSUME NEW f \in [Ages -> Nat], Closed(f)
    PROVE  Closed(Shifted(f))
  <1>1. Window - 1 \in Ages /\ (Window - 1) + 1 = Window /\ Window \in 0..Window
    BY Numbers
  <1>2. Within(Shifted(f), Window) = Within(f, Window - 1) /\ Shifted(f)[0] = 0
    BY <1>1, WithinShifted
  <1>3. Within(f, Window - 1) <= Within(f, Window)
    BY <1>1, WithinMore, Numbers
  <1>4. Within(f, Window - 1) \in Nat /\ Within(f, Window) \in Nat
    BY <1>1, WithinIs, Numbers
  <1> QED  BY <1>2, <1>3, <1>4, Numbers DEF Closed

(* Either way, two limits less one have been let through.                    *)
LEMMA MapBurst ==
    ASSUME NEW f \in [Ages -> Nat], NEW b \in Entries, Closed(f) \/ Opened(f, b)
    PROVE  Within(f, Window) <= 2 * Limit - 1
  <1>1. Within(f, Window) \in Nat
    BY WithinIs, Numbers
  <1>2. CASE Closed(f)
    BY <1>1, <1>2, Numbers DEF Closed
  <1>3. CASE Opened(f, b)
    <2>1. Within(f, Window - b.left + 1) <= Limit /\ Within(f, Window - b.left + 1) \in Nat
      BY <1>3, Numbers DEF Opened, Lesser, Entries
    <2>2. Within(f, Window) < Within(f, Window - b.left + 1) + Limit
      BY <1>3 DEF Opened
    <2> QED  BY <1>1, <2>1, <2>2, Numbers
  <1> QED  BY <1>2, <1>3
----------------------------------------------------------------------------
(* The Map: at most one bucket for each IP.                                  *)
MapShape(m) ==
    /\ m \in Seq(Entries) /\ Len(m) <= MaxEntries
    /\ \A i, j \in DOMAIN m : m[i].ip = m[j].ip => i = j

LEMMA BucketsAre ==
    ASSUME NEW m, MapShape(m)
    PROVE  /\ DOMAIN m = 1..Len(m) /\ Len(m) \in Nat
           /\ \A i \in DOMAIN m : m[i] \in Entries /\ m[i] \in BucketsOf(m, m[i].ip)
           /\ \A ip : \A b \in BucketsOf(m, ip) :
                b \in Entries /\ b.ip = ip /\ \E i \in DOMAIN m : b = m[i]
           /\ \A ip : \A b, c \in BucketsOf(m, ip) : b = c
           /\ ToSet(m) = {m[i] : i \in DOMAIN m}
  BY DEF MapShape, BucketsOf, ToSet

(* A full Map: the bucket that makes room.                                   *)
LEMMA VictimIs ==
    ASSUME NEW m, MapShape(m), Len(m) >= MaxEntries
    PROVE  /\ Victim(m) \in DOMAIN m
           /\ Over(m) # {} => Expired(m[Victim(m)])
  <1>1. DOMAIN m = 1..Len(m) /\ Len(m) \in Nat /\ Len(m) > 0
    BY BucketsAre, Numbers
  <1>2. 1..Lesser(ScanLimit, Len(m)) \subseteq DOMAIN m
    BY <1>1, Numbers DEF Lesser
  <1>3. Over(m) \subseteq DOMAIN m /\ Over(m) \subseteq Nat
    BY <1>1, <1>2 DEF Over
  <1>4. CASE Over(m) = {}
    BY <1>1, <1>4 DEF Victim
  <1>5. CASE Over(m) # {}
    <2>1. \E x \in Over(m) : \A y \in Over(m) : x <= y
      BY <1>3, <1>5, LeastOf
    <2>2. Min(Over(m)) \in Over(m)
      BY <2>1 DEF Min
    <2>3. Victim(m) = Min(Over(m))
      BY <1>5 DEF Victim
    <2>4. Victim(m) \in DOMAIN m
      BY <1>3, <2>2, <2>3
    <2> QED  BY <2>2, <2>3, <2>4 DEF Over
  <1> QED  BY <1>4, <1>5

LEMMA KeptBuckets ==
    ASSUME NEW m, MapShape(m), NEW K
    PROVE  LET t == Kept(m, K)
           IN  /\ MapShape(t)
               /\ (\E j \in DOMAIN m : m[j] \notin K) => Len(t) < Len(m)
               /\ \A ip : BucketsOf(t, ip) = BucketsOf(m, ip) \intersect K
  <1> DEFINE t == Kept(m, K)
  <1>1. /\ m \in Seq(Entries) /\ Len(m) <= MaxEntries
        /\ \A i, j \in DOMAIN m : m[i].ip = m[j].ip => i = j
        /\ DOMAIN m = 1..Len(m) /\ Len(m) \in Nat
    BY BucketsAre DEF MapShape
  <1>2. /\ t \in Seq(Entries) /\ Len(t) <= Len(m)
        /\ (\E j \in 1..Len(m) : m[j] \notin K) => Len(t) < Len(m)
        /\ \E place : Places(m, K, t, Len(m), place)
    BY <1>1, KeptPlaces
  <1>3. PICK place : Places(m, K, t, Len(m), place)
    BY <1>2
  <1> HIDE DEF t
  <1>4. DOMAIN t = 1..Len(t) /\ Len(t) \in Nat
    BY <1>2
  <1>5. \A i \in DOMAIN t : place[i] \in DOMAIN m /\ t[i] = m[place[i]] /\ t[i] \in K
    BY <1>1, <1>3, <1>4 DEF Places
  <1>6. \A j \in DOMAIN m : m[j] \in K => \E i \in DOMAIN t : t[i] = m[j]
    <2> SUFFICES ASSUME NEW j \in DOMAIN m, m[j] \in K PROVE \E i \in DOMAIN t : t[i] = m[j]
      OBVIOUS
    <2>1. PICK i \in DOMAIN t : place[i] = j
      BY <1>1, <1>3, <1>4 DEF Places
    <2> QED  BY <1>5, <2>1
  <1>7. ASSUME NEW i \in DOMAIN t, NEW j \in DOMAIN t, t[i].ip = t[j].ip
        PROVE  i = j
    <2>1. place[i] = place[j] /\ place[i] \in Nat
      BY <1>1, <1>5, <1>7
    <2>2. (i < j => place[i] < place[j]) /\ (j < i => place[j] < place[i])
      BY <1>3, <1>4 DEF Places
    <2> QED  BY <1>4, <2>1, <2>2
  <1>8. MapShape(t)
    <2>1. Len(t) <= MaxEntries
      BY <1>1, <1>2, <1>4, Numbers
    <2> QED  BY <1>2, <1>7, <2>1 DEF MapShape
  <1>9. ToSet(t) = ToSet(m) \intersect K
    BY <1>5, <1>6 DEF ToSet
  <1>10. \A ip : BucketsOf(t, ip) = BucketsOf(m, ip) \intersect K
    BY <1>9 DEF BucketsOf
  <1> QED  BY <1>1, <1>2, <1>8, <1>10 DEF t

(* The Map with one bucket less for a new IP, if it has to be.               *)
LEMMA RoomIs ==
    ASSUME NEW m, MapShape(m), NEW ip \in Ips, BucketsOf(m, ip) = {}
    PROVE  LET t == Room(m, ip)
           IN  /\ MapShape(t) /\ Len(t) < MaxEntries /\ BucketsOf(t, ip) = {}
               /\ ip \notin Forgotten(m, ip)
               /\ \A i \in Ips :
                    /\ i \in Forgotten(m, ip) => BucketsOf(t, i) = {}
                    /\ i \notin Forgotten(m, ip) =>
                         \/ BucketsOf(t, i) = BucketsOf(m, i)
                         \/ /\ BucketsOf(t, i) = {}
                            /\ \A b \in BucketsOf(m, i) : Expired(b)
  <1>1. Len(m) \in Nat /\ Len(m) <= MaxEntries
    BY BucketsAre DEF MapShape
  <1>2. CASE ~Displaces(m, ip)
    <2>1. Room(m, ip) = m /\ Forgotten(m, ip) = {}
      BY <1>2 DEF Room, Forgotten
    <2>2. Len(m) < MaxEntries
      BY <1>1, <1>2, Numbers DEF Displaces
    <2> QED  BY <2>1, <2>2
  <1>3. CASE Displaces(m, ip)
    <2> DEFINE v == m[Victim(m)]
               K == ToSet(m) \ {v}
               t == Kept(m, K)
    <2>1. Len(m) >= MaxEntries
      BY <1>3 DEF Displaces
    <2>2. Victim(m) \in DOMAIN m /\ (Over(m) # {} => Expired(v))
      BY <2>1, VictimIs
    <2>3. v \in BucketsOf(m, v.ip) /\ v \in Entries /\ v \notin K
      BY <2>2, BucketsAre
    <2>4. Room(m, ip) = t
      BY <1>3 DEF Room
    <2>5. Forgotten(m, ip) = IF Over(m) = {} THEN {v.ip} ELSE {}
      BY <1>3 DEF Forgotten
    <2>6. \A i : BucketsOf(m, i) \subseteq ToSet(m)
      BY DEF BucketsOf
    <2>7. \A i : i # v.ip => v \notin BucketsOf(m, i)
      BY DEF BucketsOf
    <2>8. \A b \in BucketsOf(m, v.ip) : b = v
      BY <2>3, BucketsAre
    <2>9. /\ MapShape(t) /\ Len(t) < Len(m)
          /\ \A i : BucketsOf(t, i) = BucketsOf(m, i) \intersect K
      BY <2>2, <2>3, KeptBuckets
    <2>10. \A i : i # v.ip => BucketsOf(t, i) = BucketsOf(m, i)
      BY <2>6, <2>7, <2>9
    <2>11. BucketsOf(t, v.ip) = {}
      BY <2>8, <2>9
    <2>12. v.ip # ip
      BY <2>3
    <2> HIDE DEF v, K, t
    <2>13. Len(t) < MaxEntries
      BY <1>1, <2>9, Numbers, BucketsAre
    <2>14. BucketsOf(t, ip) = {}
      BY <2>10, <2>12
    <2>15. CASE Over(m) = {}
      BY <2>4, <2>5, <2>9, <2>10, <2>11, <2>12, <2>13, <2>14, <2>15
    <2>16. CASE Over(m) # {}
      <3>1. Forgotten(m, ip) = {} /\ Expired(v)
        BY <2>2, <2>5, <2>16
      <3>2. \A b \in BucketsOf(m, v.ip) : Expired(b)
        BY <2>8, <3>1
      <3> QED  BY <2>4, <2>9, <2>10, <2>11, <2>13, <2>14, <3>1, <3>2
    <2> QED  BY <2>15, <2>16
  <1> QED  BY <1>2, <1>3

(* A bucket of an IP, new or after its window.                               *)
LEMMA FreshIs ==
    ASSUME NEW ip \in Ips
    PROVE  /\ Plus(Fresh(ip)) \in Entries /\ Plus(Fresh(ip)).ip = ip
           /\ Plus(Fresh(ip)).count = 1 /\ Plus(Fresh(ip)).left = Window
  <1>1. Lesser(0 + 1, MaxCount) = 1 /\ 1 \in 1..MaxCount /\ Window \in 0..Window
    BY Numbers DEF Lesser
  <1>2. Plus(Fresh(ip)) = [ip |-> ip, count |-> Lesser(0 + 1, MaxCount), left |-> Window]
    BY DEF Plus, Fresh
  <1> QED  BY <1>1, <1>2 DEF Entries

LEMMA CountedIs ==
    ASSUME NEW b \in Entries
    PROVE  /\ Counted(b) \in Entries /\ Counted(b).ip = b.ip
           /\ Expired(b) => Counted(b) = Plus(Fresh(b.ip))
           /\ ~Expired(b) => Counted(b) = Plus(b)
  <1>1. b.ip \in Ips
    BY DEF Entries
  <1> QED  BY <1>1, PlusIs, FreshIs DEF Counted

LEMMA IncrementedIs ==
    ASSUME NEW m, MapShape(m), NEW ip \in Ips
    PROVE  LET t == Incremented(m, ip)
           IN  /\ MapShape(t) /\ ip \notin Forgotten(m, ip)
               /\ BucketsOf(m, ip) = {} => BucketsOf(t, ip) = {Plus(Fresh(ip))}
               /\ \A b \in BucketsOf(m, ip) : BucketsOf(t, ip) = {Counted(b)}
               /\ \A i \in Ips : i # ip =>
                    /\ i \in Forgotten(m, ip) => BucketsOf(t, i) = {}
                    /\ i \notin Forgotten(m, ip) =>
                         \/ BucketsOf(t, i) = BucketsOf(m, i)
                         \/ /\ BucketsOf(t, i) = {}
                            /\ \A b \in BucketsOf(m, i) : Expired(b)
  <1> DEFINE t == Incremented(m, ip)
  <1>1. CASE BucketsOf(m, ip) = {}
    <2> DEFINE room == Room(m, ip)
               new == Plus(Fresh(ip))
    <2>1. t = Append(room, new)
      BY <1>1 DEF Incremented
    <2>2. /\ MapShape(room) /\ Len(room) < MaxEntries /\ BucketsOf(room, ip) = {}
          /\ ip \notin Forgotten(m, ip)
          /\ \A i \in Ips :
               /\ i \in Forgotten(m, ip) => BucketsOf(room, i) = {}
               /\ i \notin Forgotten(m, ip) =>
                    \/ BucketsOf(room, i) = BucketsOf(m, i)
                    \/ /\ BucketsOf(room, i) = {}
                       /\ \A b \in BucketsOf(m, i) : Expired(b)
      BY <1>1, RoomIs
    <2>3. new \in Entries /\ new.ip = ip
      BY FreshIs
    <2> HIDE DEF room, new, t
    <2>4. room \in Seq(Entries) /\ Len(room) \in Nat /\ DOMAIN room = 1..Len(room)
      BY <2>2, BucketsAre DEF MapShape
    <2>5. /\ t \in Seq(Entries) /\ Len(t) = Len(room) + 1
          /\ DOMAIN t = 1..(Len(room) + 1) /\ t[Len(room) + 1] = new
          /\ \A i \in DOMAIN room : i \in DOMAIN t /\ t[i] = room[i]
          /\ \A i \in DOMAIN t : i = Len(room) + 1 \/ i \in DOMAIN room
      BY <2>1, <2>3, <2>4
    <2>6. ToSet(t) = ToSet(room) \union {new}
      <3>1. Len(room) + 1 \in DOMAIN t
        BY <2>4, <2>5
      <3> QED  BY <2>5, <3>1 DEF ToSet
    <2>7. \A i \in DOMAIN room : room[i].ip # ip
      BY <2>2, BucketsAre
    <2>8. \A i, j \in DOMAIN t : t[i].ip = t[j].ip => i = j
      BY <2>2, <2>3, <2>5, <2>7 DEF MapShape
    <2>9. Len(t) <= MaxEntries
      BY <2>2, <2>4, <2>5, Numbers
    <2>10. MapShape(t)
      BY <2>5, <2>8, <2>9 DEF MapShape
    <2>11. BucketsOf(t, ip) = {new}
      BY <2>2, <2>3, <2>6 DEF BucketsOf
    <2>12. \A i : i # ip => BucketsOf(t, i) = BucketsOf(room, i)
      BY <2>3, <2>6 DEF BucketsOf
    <2> QED  BY <1>1, <2>2, <2>10, <2>11, <2>12 DEF t, new
  <1>2. CASE BucketsOf(m, ip) # {}
    <2> DEFINE W(i) == IF m[i].ip = ip THEN Counted(m[i]) ELSE m[i]
    <2>1. t = [i \in DOMAIN m |-> W(i)]
      BY <1>2 DEF Incremented
    <2>2. /\ m \in Seq(Entries) /\ Len(m) \in Nat /\ DOMAIN m = 1..Len(m)
          /\ Len(m) <= MaxEntries /\ \A i \in DOMAIN m : m[i] \in Entries
      BY BucketsAre DEF MapShape
    <2>3. \A i \in DOMAIN m : W(i) \in Entries /\ W(i).ip = m[i].ip
      BY <2>2, CountedIs
    <2>4. \A i \in DOMAIN m : /\ m[i].ip = ip => W(i) = Counted(m[i])
                              /\ m[i].ip # ip => W(i) = m[i]
      OBVIOUS
    <2> HIDE DEF W, t
    <2>5. /\ t \in Seq(Entries) /\ DOMAIN t = DOMAIN m /\ Len(t) = Len(m)
          /\ \A i \in DOMAIN m : t[i] = W(i)
      BY <2>1, <2>2, <2>3
    <2>6. MapShape(t)
      BY <2>2, <2>3, <2>5 DEF MapShape
    <2>7. \A b \in BucketsOf(m, ip) : BucketsOf(t, ip) = {Counted(b)}
      <3> SUFFICES ASSUME NEW b \in BucketsOf(m, ip) PROVE BucketsOf(t, ip) = {Counted(b)}
        OBVIOUS
      <3>1. PICK i \in DOMAIN m : b = m[i] /\ m[i].ip = ip
        BY BucketsAre
      <3>2. t[i] = Counted(b) /\ t[i].ip = ip
        BY <2>3, <2>4, <2>5, <3>1
      <3>3. t[i] \in BucketsOf(t, ip)
        BY <2>5, <2>6, <3>2, BucketsAre
      <3>4. \A c \in BucketsOf(t, ip) : c = t[i]
        BY <2>6, <3>3, BucketsAre
      <3> QED  BY <3>2, <3>3, <3>4
    <2>8. ASSUME NEW i, i # ip PROVE BucketsOf(t, i) = BucketsOf(m, i)
      <3>1. \A b \in BucketsOf(t, i) : b \in BucketsOf(m, i)
        <4> SUFFICES ASSUME NEW b \in BucketsOf(t, i) PROVE b \in BucketsOf(m, i)
          OBVIOUS
        <4>1. PICK k \in DOMAIN t : b = t[k] /\ t[k].ip = i
          BY <2>6, BucketsAre
        <4>2. b = m[k] /\ m[k].ip = i
          BY <2>3, <2>4, <2>5, <2>8, <4>1
        <4>3. m[k] \in BucketsOf(m, m[k].ip)
          BY <2>5, <4>1, BucketsAre
        <4> QED  BY <4>2, <4>3
      <3>2. \A b \in BucketsOf(m, i) : b \in BucketsOf(t, i)
        <4> SUFFICES ASSUME NEW b \in BucketsOf(m, i) PROVE b \in BucketsOf(t, i)
          OBVIOUS
        <4>1. PICK k \in DOMAIN m : b = m[k] /\ m[k].ip = i
          BY BucketsAre
        <4>2. b = t[k] /\ k \in DOMAIN t
          BY <2>4, <2>5, <2>8, <4>1
        <4>3. t[k] \in BucketsOf(t, t[k].ip)
          BY <2>6, <4>2, BucketsAre
        <4> QED  BY <4>1, <4>2, <4>3
      <3> QED  BY <3>1, <3>2
    <2>9. Forgotten(m, ip) = {}
      BY <1>2 DEF Forgotten, Displaces
    <2> QED  BY <1>2, <2>6, <2>7, <2>8, <2>9 DEF t
  <1> QED  BY <1>1, <1>2
----------------------------------------------------------------------------
(* The invariant of the Map, and of what is told to those it refuses.        *)
Fits(bs, f) ==
    /\ \A b \in bs : ~Expired(b) => Opened(f, b)
    /\ (\A b \in bs : Expired(b)) => Closed(f)
MapInv ==
    /\ MapShape(map) /\ byMap \in [Ips -> [Ages -> Nat]]
    /\ \A ip \in Ips : Fits(BucketsOf(map, ip), byMap[ip])

Close(left, wait) == left < wait + Second /\ wait <= left + Second
RefusalInv ==
    /\ store \in {"memory", "redis"} /\ clock \in 0..(Second - 1)
    /\ told \in [Ips -> Int] /\ refusedAt \in 0..Limit
    /\ store = "memory" =>
         /\ refusedAt = Limit
         /\ \A ip \in Ips : \A b \in BucketsOf(map, ip) :
              ~Expired(b) /\ b.count > Limit => Close(b.left, told[ip])

(* Both times are cut to seconds.                                            *)
LEMMA RetryAfterIs ==
    ASSUME clock \in 0..(Second - 1), NEW left \in 1..Window
    PROVE  RetryAfter(left) * Second \in Int /\ Close(left, RetryAfter(left) * Second)
  <1> DEFINE q == (clock + left) \div Second
  <1>1. clock + left \in Nat /\ clock \in Nat /\ clock < Second /\ left > 0
    BY Numbers
  <1>2. q \in Nat /\ q * Second <= clock + left /\ clock + left < q * Second + Second
    <2>1. \A x \in Nat : /\ x \div Second \in Nat
                         /\ (x \div Second) * Second <= x
                         /\ x < (x \div Second) * Second + Second
      BY Numbers
    <2> QED  BY <1>1, <2>1
  <1>3. RetryAfter(left) = Greater(1, q)
    BY DEF RetryAfter
  <1> HIDE DEF q
  <1>4. CASE q = 0
    <2>1. RetryAfter(left) = 1 /\ 1 * Second = Second
      BY <1>3, <1>4, Numbers DEF Greater
    <2>2. left < Second
      BY <1>1, <1>2, <1>4, Numbers
    <2> QED  BY <2>1, <2>2, Numbers DEF Close
  <1>5. CASE q # 0
    <2>1. RetryAfter(left) = q
      BY <1>2, <1>3, <1>5 DEF Greater
    <2> DEFINE p == q * Second
    <2>2. p \in Int /\ p <= clock + left /\ clock + left < p + Second
      BY <1>2, Numbers
    <2> HIDE DEF p
    <2>3. Close(left, p)
      BY <1>1, <2>2, Numbers DEF Close
    <2> QED  BY <2>1, <2>2, <2>3 DEF p
  <1> QED  BY <1>4, <1>5

(* What the Map decides on a request is right for the IP ...                 *)
LEMMA FitsCounted ==
    ASSUME NEW ip \in Ips, NEW f \in [Ages -> Nat], NEW g \in [Ages -> Nat],
           g[0] = f[0] + 1, \A a \in Ages : a # 0 => g[a] = f[a],
           NEW bs, Fits(bs, f), \A b, c \in bs : b = c, \A b \in bs : b \in Entries /\ b.ip = ip,
           NEW cs, bs = {} => cs = {Plus(Fresh(ip))}, \A b \in bs : cs = {Counted(b)}
    PROVE  \E c \in Entries :
             /\ cs = {c} /\ ~Expired(c) /\ c.left \in 1..Window /\ c.ip = ip
             /\ c.count > Limit => Fits(cs, f) /\ Within(f, Window) >= Limit
             /\ ~(c.count > Limit) => Fits(cs, g)
  <1>1. CASE \A b \in bs : Expired(b)
    <2> DEFINE c == Plus(Fresh(ip))
    <2>1. cs = {c}
      BY <1>1, CountedIs
    <2>2. c \in Entries /\ c.count = 1 /\ c.left = Window /\ c.ip = ip
      BY FreshIs
    <2> HIDE DEF c
    <2>3. ~Expired(c) /\ c.left \in 1..Window /\ ~(c.count > Limit)
      BY <2>2, Numbers DEF Expired
    <2>4. Opened(g, c)
      BY <1>1, <2>2, ClosedOpens DEF Fits
    <2>5. Fits(cs, g)
      BY <2>1, <2>3, <2>4 DEF Fits
    <2> QED  BY <2>1, <2>2, <2>3, <2>5
  <1>2. CASE ~\A b \in bs : Expired(b)
    <2>1. PICK b \in bs : ~Expired(b)
      BY <1>2
    <2> DEFINE c == Plus(b)
    <2>2. b \in Entries /\ Opened(f, b) /\ b.ip = ip /\ b.count \in Nat
      BY <2>1 DEF Fits, Entries
    <2>3. cs = {c}
      BY <2>1, <2>2, CountedIs
    <2>4. /\ c \in Entries /\ c.left = b.left /\ c.ip = ip
          /\ b.count < Limit => c.count = b.count + 1
          /\ b.count >= Limit => c.count > Limit
      BY <2>2, PlusIs
    <2> HIDE DEF c
    <2>5. ~Expired(c) /\ c.left \in 1..Window
      BY <2>1, <2>2, <2>4, Numbers DEF Expired, Entries
    <2>6. CASE b.count < Limit
      <3>1. Opened(g, c)
        BY <2>1, <2>2, <2>6, OpenedCounts DEF c
      <3>2. Fits(cs, g)
        BY <2>3, <2>5, <3>1 DEF Fits
      <3>3. ~(c.count > Limit)
        BY <2>2, <2>4, <2>6, Numbers
      <3> QED  BY <2>3, <2>4, <2>5, <3>2, <3>3
    <2>7. CASE b.count >= Limit
      <3>1. Opened(f, c) /\ Within(f, Window) >= Limit
        BY <2>1, <2>2, <2>7, OpenedRefuses DEF c
      <3>2. Fits(cs, f)
        BY <2>3, <2>5, <3>1 DEF Fits
      <3> QED  BY <2>3, <2>4, <2>5, <2>7, <3>1, <3>2
    <2> QED  BY <2>2, <2>6, <2>7, Numbers
  <1> QED  BY <1>1, <1>2

LEMMA FitsNothing ==
    ASSUME NEW f \in [Ages -> Nat], f = Nothing
    PROVE  Fits({}, f)
  BY WithinNothing, Numbers DEF Fits, Closed

(* ... and leaves the other IPs what they have.                              *)
LEMMA DecideStep ==
    ASSUME MapInv, RefusalInv, byRedis \in [Ips -> [Ages -> Nat]], NEW ip \in Ips,
           DecidedByMap(ip), store' = store, clock' = clock
    PROVE  MapInv' /\ RefusalInv'
  <1> DEFINE m == Incremented(map, ip)
             gone == Forgotten(map, ip)
             F == [i \in Ips |-> IF i \in gone THEN Nothing ELSE byMap[i]]
             f == byMap[ip]
             g == [f EXCEPT ![0] = @ + 1]
  <1>1. /\ MapShape(map) /\ byMap \in [Ips -> [Ages -> Nat]]
        /\ \A i \in Ips : Fits(BucketsOf(map, i), byMap[i]) /\ byMap[i] \in [Ages -> Nat]
    BY DEF MapInv
  <1>2. /\ MapShape(m) /\ ip \notin gone
        /\ BucketsOf(map, ip) = {} => BucketsOf(m, ip) = {Plus(Fresh(ip))}
        /\ \A b \in BucketsOf(map, ip) : BucketsOf(m, ip) = {Counted(b)}
    BY <1>1, IncrementedIs
  <1>3. \A i \in Ips : i # ip =>
          /\ i \in gone => BucketsOf(m, i) = {}
          /\ i \notin gone =>
               \/ BucketsOf(m, i) = BucketsOf(map, i)
               \/ BucketsOf(m, i) = {} /\ \A b \in BucketsOf(map, i) : Expired(b)
    BY <1>1, IncrementedIs
  <1>4. map' = m /\ byRedis' = byRedis
    BY DEF DecidedByMap
  <1>5. /\ g \in [Ages -> Nat] /\ g[0] = f[0] + 1 /\ \A a \in Ages : a # 0 => g[a] = f[a]
        /\ f \in [Ages -> Nat]
    BY <1>1, Numbers
  <1>6. /\ \A b, c \in BucketsOf(map, ip) : b = c
        /\ \A b \in BucketsOf(map, ip) : b \in Entries /\ b.ip = ip
    BY <1>1, BucketsAre
  <1>7. Fits(BucketsOf(map, ip), f)
    BY <1>1
  <1> HIDE DEF m, gone, f, g
  <1>8. PICK c \in Entries :
          /\ BucketsOf(m, ip) = {c} /\ ~Expired(c) /\ c.left \in 1..Window /\ c.ip = ip
          /\ c.count > Limit => Fits(BucketsOf(m, ip), f) /\ Within(f, Window) >= Limit
          /\ ~(c.count > Limit) => Fits(BucketsOf(m, ip), g)
    BY <1>2, <1>5, <1>6, <1>7, FitsCounted
  <1>9. \/ /\ c.count > Limit /\ byMap' = byMap /\ Refuse(ip, c.left)
        \/ /\ ~(c.count > Limit) /\ byMap' = OneMore(F, ip)
           /\ told' = told /\ refusedAt' = refusedAt
    BY <1>4, <1>8 DEF DecidedByMap, gone
  (* a Map of the histories that fits, but for the IP's own                   *)
  <1>10. /\ F \in [Ips -> [Ages -> Nat]]
         /\ \A i \in Ips : i # ip => Fits(BucketsOf(m, i), F[i])
    <2> SUFFICES ASSUME NEW i \in Ips
                 PROVE  F[i] \in [Ages -> Nat] /\ (i # ip => Fits(BucketsOf(m, i), F[i]))
      OBVIOUS
    <2>1. CASE i \in gone
      <3>1. F[i] = Nothing
        BY <2>1
      <3> QED  BY <1>3, <2>1, <3>1, FitsNothing, WithinNothing
    <2>2. CASE i \notin gone
      <3>1. F[i] = byMap[i] /\ F[i] \in [Ages -> Nat] /\ Fits(BucketsOf(map, i), F[i])
        BY <1>1, <2>2
      <3>2. ASSUME BucketsOf(m, i) = {}, \A b \in BucketsOf(map, i) : Expired(b)
            PROVE  Fits(BucketsOf(m, i), F[i])
        BY <3>1, <3>2 DEF Fits
      <3> QED  BY <1>3, <2>2, <3>1, <3>2
    <2> QED  BY <2>1, <2>2
  <1>11. \A i \in Ips : i \notin gone => F[i] = byMap[i]
    OBVIOUS
  <1> HIDE DEF F
  <1>12. MapInv'
    <2>1. CASE c.count > Limit
      <3>1. byMap' = byMap /\ Fits(BucketsOf(m, ip), f)
        BY <1>8, <1>9, <2>1
      <3>2. ASSUME NEW i \in Ips PROVE Fits(BucketsOf(m, i), byMap[i])
        <4>1. CASE i = ip
          BY <3>1, <4>1 DEF f
        <4>2. CASE i # ip /\ i \notin gone
          BY <1>10, <1>11, <4>2
        <4>3. CASE i # ip /\ i \in gone
          (* a bucket makes room only for a new one, which has count 1        *)
          <5>1. BucketsOf(map, ip) = {}
            BY <4>3 DEF gone, Forgotten, Displaces
          <5>2. c = Plus(Fresh(ip))
            BY <1>2, <1>8, <5>1
          <5>3. ~(c.count > Limit)
            BY <5>2, FreshIs, Numbers
          <5> QED  BY <2>1, <5>3
        <4> QED  BY <4>1, <4>2, <4>3
      <3> QED  BY <1>1, <1>2, <1>4, <3>1, <3>2 DEF MapInv
    <2>2. CASE ~(c.count > Limit)
      <3>1. byMap' = OneMore(F, ip) /\ Fits(BucketsOf(m, ip), g)
        BY <1>8, <1>9, <2>2
      <3>2. F[ip] = f
        BY <1>2, <1>11 DEF f
      <3>3. byMap' = [F EXCEPT ![ip] = g]
        <4>1. OneMore(F, ip) = [F EXCEPT ![ip] = [F[ip] EXCEPT ![0] = @ + 1]]
          BY <1>10 DEF OneMore
        <4> QED  BY <3>1, <3>2, <4>1 DEF g
      <3>4. /\ byMap' \in [Ips -> [Ages -> Nat]] /\ byMap'[ip] = g
            /\ \A i \in Ips : i # ip => byMap'[i] = F[i]
        BY <1>5, <1>10, <3>3
      <3>5. ASSUME NEW i \in Ips PROVE Fits(BucketsOf(m, i), byMap'[i])
        BY <1>10, <3>1, <3>4
      <3> QED  BY <1>2, <1>4, <3>4, <3>5 DEF MapInv
    <2> QED  BY <2>1, <2>2
  <1>13. ASSUME NEW i \in Ips, i # ip
         PROVE  BucketsOf(m, i) = {} \/ BucketsOf(m, i) = BucketsOf(map, i)
    BY <1>3, <1>13
  <1>14. RefusalInv'
    <2>0. /\ store \in {"memory", "redis"} /\ clock \in 0..(Second - 1)
          /\ told \in [Ips -> Int] /\ refusedAt \in 0..Limit
          /\ store = "memory" =>
               /\ refusedAt = Limit
               /\ \A i \in Ips : \A b \in BucketsOf(map, i) :
                    ~Expired(b) /\ b.count > Limit => Close(b.left, told[i])
      BY DEF RefusalInv
    <2>1. CASE c.count > Limit /\ store = "memory"
      <3>1. /\ told' = [told EXCEPT ![ip] = RetryAfter(c.left) * Second]
            /\ refusedAt' = Lesser(refusedAt, LetThrough(ip))
        BY <1>9, <2>1 DEF Refuse
      <3>2. RetryAfter(c.left) * Second \in Int /\ Close(c.left, RetryAfter(c.left) * Second)
        BY <1>8, <2>0, RetryAfterIs
      <3>3. /\ told' \in [Ips -> Int] /\ told'[ip] = RetryAfter(c.left) * Second
            /\ \A i \in Ips : i # ip => told'[i] = told[i]
        BY <2>0, <3>1, <3>2
      <3>4. refusedAt' = Limit
        <4>1. /\ SumFunctionOnSet(byMap[ip], Ages) >= Limit
              /\ SumFunctionOnSet(byMap[ip], Ages) \in Nat
          <5>1. Window \in 0..Window
            BY Numbers
          <5>2. Within(f, Window) = SumFunctionOnSet(f, Ages) /\ Within(f, Window) \in Nat
            BY <1>5, <5>1, WithinIs
          <5>3. Within(f, Window) >= Limit
            BY <1>8, <2>1
          <5> QED  BY <5>2, <5>3 DEF f
        <4>2. SumFunctionOnSet(byRedis[ip], Ages) \in Nat
          <5>1. byRedis[ip] \in [Ages -> Nat] /\ Window \in 0..Window
            BY Numbers
          <5> QED  BY <5>1, WithinIs
        <4>3. LetThrough(ip) \in Nat /\ LetThrough(ip) >= Limit
          BY <4>1, <4>2, Numbers DEF LetThrough
        <4> QED  BY <2>0, <2>1, <3>1, <4>3, Numbers DEF Lesser
      <3>5. ASSUME NEW i \in Ips, NEW b \in BucketsOf(m, i), ~Expired(b), b.count > Limit
            PROVE  Close(b.left, told'[i])
        <4>1. CASE i = ip
          BY <1>8, <3>2, <3>3, <4>1
        <4>2. CASE i # ip
          BY <1>13, <2>0, <2>1, <3>3, <3>5, <4>2
        <4> QED  BY <4>1, <4>2
      <3>6. refusedAt' \in 0..Limit
        BY <3>4, Numbers
      <3> QED  BY <1>4, <2>0, <3>3, <3>4, <3>5, <3>6 DEF RefusalInv
    <2>2. CASE ~(c.count > Limit /\ store = "memory")
      <3>1. told' = told /\ refusedAt' = refusedAt
        BY <1>9, <2>2 DEF Refuse
      <3>2. ASSUME store = "memory", NEW i \in Ips, NEW b \in BucketsOf(m, i),
                   ~Expired(b), b.count > Limit
            PROVE  Close(b.left, told[i])
        <4>1. i # ip
          BY <1>8, <2>2, <3>2
        <4> QED  BY <1>13, <2>0, <3>2, <4>1
      <3> QED  BY <1>4, <2>0, <3>1, <3>2 DEF RefusalInv
    <2> QED  BY <2>1, <2>2
  <1> QED  BY <1>12, <1>14
----------------------------------------------------------------------------
(* The invariant of Redis. A script counts on at a window that began up to   *)
(* Delay too early, and its reply is let through up to Timeout after it was  *)
(* sent: h, the hash of ip, f, what was let through for it, and q, requests. *)
Executed(q, ip) ==
    {r \in Requests : q[r] # Idle /\ q[r].phase = "executed" /\ q[r].ip = ip}
Passing(q, ip) == {r \in Executed(q, ip) : q[r].bucket.count <= Limit}
Later(q, ip, h) ==
    {r \in Passing(q, ip) : q[r].bucket.count > 1 /\ q[r].bucket.left = h.left}
Used(h) == IF h = NoBucket THEN Limit ELSE Lesser(h.count, Limit)

(* A reply tells a window that is not over, which is that of the hash or one *)
(* before, and the request that opened the hash's is as old as that.         *)
CallFits(c, h) ==
    /\ c.bucket.count > 0 /\ c.bucket.left > -c.lag /\ c.bucket.left <= h.left
    /\ c.bucket.left < h.left => c.lag >= Window - h.left - Delay
    /\ c.bucket.left = h.left /\ c.bucket.count = 1 => c.lag = Window - h.left

(* What the last n units and the replies that are under way have let through *)
(* is of the hash's window and of the j windows before it.                   *)
WindowsFit(q, ip, h, f) ==
    \A n \in 0..Window, j \in 0..2 :
        n - (Window - h.left) + Timeout + Delay < j * Window =>
            Within(f, n) + Cardinality(Passing(q, ip)) < Used(h) + j * Limit

HashFits(q, ip, h, f) ==
    /\ h.left > -Delay => h.count > 0
    /\ h.left = -Delay => h = NoBucket /\ Executed(q, ip) = {}
    /\ \A r \in Executed(q, ip) : CallFits(q[r], h)
    /\ Cardinality(Later(q, ip, h)) < Used(h)
    /\ WindowsFit(q, ip, h, f)

Abort(c) == IF c.phase = "abandoned" THEN Delay ELSE Timeout
CallsFit(q) ==
    /\ q \in [Requests -> {Idle} \union Calls]
    /\ \A r \in Requests : q[r] # Idle => q[r].lag <= Abort(q[r])

LEMMA CallsAre ==
    ASSUME NEW q, CallsFit(q)
    PROVE  \A r \in Requests : q[r] # Idle =>
             /\ q[r] \in Calls /\ q[r].phase \in {"sent", "executed", "abandoned"}
             /\ q[r].ip \in Ips /\ q[r].lag \in 0..Delay
             /\ q[r].bucket \in Buckets /\ q[r].bucket.count \in 0..MaxCount
             /\ q[r].bucket.left \in (-Delay)..Window
             /\ q[r].phase # "abandoned" => q[r].lag <= Timeout
  <1> SUFFICES ASSUME NEW r \in Requests, q[r] # Idle
               PROVE  /\ q[r] \in Calls /\ q[r].phase \in {"sent", "executed", "abandoned"}
                      /\ q[r].ip \in Ips /\ q[r].lag \in 0..Delay
                      /\ q[r].bucket \in Buckets /\ q[r].bucket.count \in 0..MaxCount
                      /\ q[r].bucket.left \in (-Delay)..Window
                      /\ q[r].phase # "abandoned" => q[r].lag <= Timeout
    OBVIOUS
  <1>1. q[r] \in Calls
    BY DEF CallsFit
  <1>2. /\ q[r].phase \in {"sent", "executed", "abandoned"} /\ q[r].ip \in Ips
        /\ q[r].lag \in 0..Delay /\ q[r].bucket \in Buckets
    BY <1>1 DEF Calls
  <1>3. q[r].bucket.count \in 0..MaxCount /\ q[r].bucket.left \in (-Delay)..Window
    BY <1>2 DEF Buckets, Left
  <1>4. q[r].phase # "abandoned" => q[r].lag <= Timeout
    BY DEF CallsFit, Abort
  <1> QED  BY <1>1, <1>2, <1>3, <1>4

LEMMA UsedIs ==
    ASSUME NEW h \in Buckets, h.left > -Delay => h.count > 0, h.left = -Delay => h = NoBucket
    PROVE  /\ h.count \in Nat /\ h.left \in Int /\ h.left >= -Delay /\ h.left <= Window
           /\ Used(h) \in 1..Limit
           /\ h.left > -Delay => Used(h) = Lesser(h.count, Limit)
  <1>1. h.count \in Nat /\ h.left \in Int /\ h.left >= -Delay /\ h.left <= Window
    BY Numbers DEF Buckets, Left
  <1>2. CASE h = NoBucket
    BY <1>1, <1>2, Numbers DEF Used, NoBucket
  <1>3. CASE h # NoBucket
    <2>1. h.count > 0 /\ Used(h) = Lesser(h.count, Limit)
      BY <1>1, <1>3, Numbers DEF Used
    <2> QED  BY <1>1, <2>1, Numbers DEF Lesser
  <1> QED  BY <1>1, <1>2, <1>3

(* The sets of requests are finite, and smaller sets have fewer elements.    *)
LEMMA SetsOfRequests ==
    ASSUME NEW A, A \subseteq Requests, NEW B, B \subseteq Requests, NEW r
    PROVE  /\ Cardinality(A) \in Nat /\ Cardinality(B) \in Nat
           /\ A \subseteq B => Cardinality(A) <= Cardinality(B)
           /\ A \subseteq B \union {r} => Cardinality(A) <= Cardinality(B) + 1
           /\ A \subseteq B \ {r} /\ r \in B => Cardinality(A) <= Cardinality(B) - 1
  <1>1. IsFiniteSet(A) /\ IsFiniteSet(B)
    BY FS_Subset
  <1>2. Cardinality(A) \in Nat /\ Cardinality(B) \in Nat
    BY <1>1, FS_CardinalityType
  <1>3. A \subseteq B => Cardinality(A) <= Cardinality(B)
    BY <1>1, FS_Subset
  <1>4. ASSUME A \subseteq B \union {r} PROVE Cardinality(A) <= Cardinality(B) + 1
    <2>1. /\ IsFiniteSet(B \union {r})
          /\ \/ Cardinality(B \union {r}) = Cardinality(B)
             \/ Cardinality(B \union {r}) = Cardinality(B) + 1
      BY <1>1, FS_AddElement
    <2>2. Cardinality(A) <= Cardinality(B \union {r})
      BY <1>4, <2>1, FS_Subset
    <2> QED  BY <1>2, <2>1, <2>2
  <1>5. ASSUME A \subseteq B \ {r}, r \in B PROVE Cardinality(A) <= Cardinality(B) - 1
    <2>1. IsFiniteSet(B \ {r}) /\ Cardinality(B \ {r}) = Cardinality(B) - 1
      BY <1>1, <1>5, FS_RemoveElement
    <2> QED  BY <1>5, <2>1, FS_Subset
  <1> QED  BY <1>2, <1>3, <1>4, <1>5

(* Fewer replies are under way.                                              *)
LEMMA RedisLoses ==
    ASSUME NEW ip \in Ips, NEW h \in Buckets, NEW f \in [Ages -> Nat],
           NEW q, NEW p, CallsFit(q), CallsFit(p), HashFits(q, ip, h, f),
           Executed(p, ip) \subseteq Executed(q, ip),
           \A r \in Executed(p, ip) : p[r] = q[r]
    PROVE  HashFits(p, ip, h, f)
  <1>1. Passing(p, ip) \subseteq Passing(q, ip) /\ Later(p, ip, h) \subseteq Later(q, ip, h)
    BY DEF Passing, Later
  <1>2. /\ Passing(q, ip) \subseteq Requests /\ Passing(p, ip) \subseteq Requests
        /\ Later(q, ip, h) \subseteq Requests /\ Later(p, ip, h) \subseteq Requests
    BY DEF Passing, Later, Executed
  <1>3. /\ Cardinality(Passing(p, ip)) <= Cardinality(Passing(q, ip))
        /\ Cardinality(Passing(p, ip)) \in Nat /\ Cardinality(Passing(q, ip)) \in Nat
    BY <1>1, <1>2, SetsOfRequests
  <1>4. /\ Cardinality(Later(p, ip, h)) <= Cardinality(Later(q, ip, h))
        /\ Cardinality(Later(p, ip, h)) \in Nat /\ Cardinality(Later(q, ip, h)) \in Nat
    BY <1>1, <1>2, SetsOfRequests
  <1>5. Used(h) \in Nat
    BY UsedIs, Numbers DEF HashFits
  <1>6. Cardinality(Later(p, ip, h)) < Used(h)
    BY <1>4, <1>5 DEF HashFits
  <1>7. ASSUME NEW n \in 0..Window, NEW j \in 0..2,
               n - (Window - h.left) + Timeout + Delay < j * Window
        PROVE  Within(f, n) + Cardinality(Passing(p, ip)) < Used(h) + j * Limit
    <2>1. Within(f, n) + Cardinality(Passing(q, ip)) < Used(h) + j * Limit
      BY <1>7 DEF HashFits, WindowsFit
    <2>2. Within(f, n) \in Nat /\ j * Limit \in Nat
      BY WithinIs, Numbers
    <2> QED  BY <1>3, <1>5, <2>1, <2>2
  <1>8. h.left = -Delay => Executed(p, ip) = {}
    BY DEF HashFits
  <1>9. \A r \in Executed(p, ip) : CallFits(p[r], h)
    BY DEF HashFits
  <1> QED  BY <1>6, <1>7, <1>8, <1>9 DEF HashFits, WindowsFit

(* A script counts on: its request is one more of the hash's window.         *)
LEMMA RedisCounts ==
    ASSUME NEW ip \in Ips, NEW h \in Buckets, NEW f \in [Ages -> Nat], NEW q, NEW p,
           CallsFit(q), CallsFit(p), HashFits(q, ip, h, f),
           NEW r \in Requests, r \notin Executed(q, ip),
           Executed(p, ip) \subseteq Executed(q, ip) \union {r},
           \A x \in Executed(q, ip) : x \in Executed(p, ip) => p[x] = q[x],
           NEW lag \in 0..Delay, h.left > -lag,
           r \in Executed(p, ip) => p[r].lag = lag /\ p[r].bucket = Plus(h)
    PROVE  Plus(h) \in Buckets /\ HashFits(p, ip, Plus(h), f)
  <1> DEFINE g == Plus(h)
  <1>1. /\ h.count \in Nat /\ h.count > 0 /\ h.count <= MaxCount
        /\ h.left \in Int /\ h.left > -Delay /\ Used(h) = Lesser(h.count, Limit)
    BY UsedIs, Numbers DEF HashFits, Buckets
  <1>2. g \in Buckets /\ g.left = h.left /\ g.count = Lesser(h.count + 1, MaxCount)
    <2>1. Lesser(h.count + 1, MaxCount) \in 0..MaxCount
      BY <1>1, Numbers DEF Lesser
    <2>2. LET c == [h EXCEPT !.count = Lesser(h.count + 1, MaxCount)]
          IN  c \in Buckets /\ c.left = h.left /\ c.count = Lesser(h.count + 1, MaxCount)
      BY <2>1 DEF Buckets
    <2>3. g = [h EXCEPT !.count = Lesser(h.count + 1, MaxCount)]
      BY DEF Plus
    <2> QED  BY <2>2, <2>3
  <1> HIDE DEF g
  <1>3. /\ g.count > 1 /\ Used(g) = Lesser(g.count, Limit) /\ g.count \in Nat
        /\ Used(h) \in Nat /\ Used(g) \in Nat /\ Used(h) <= Used(g)
        /\ g.count <= Limit => Used(g) = Used(h) + 1
    <2>1. g.count > 1 /\ g.count \in Nat
      BY <1>1, <1>2, Numbers DEF Lesser
    <2>2. g # NoBucket
      BY <1>1, <1>2, Numbers DEF NoBucket
    <2>3. Used(g) = Lesser(g.count, Limit)
      BY <2>2 DEF Used
    <2> QED  BY <1>1, <1>2, <2>1, <2>3, Numbers DEF Lesser
  <1>4. /\ Passing(q, ip) \subseteq Requests /\ Passing(p, ip) \subseteq Requests
        /\ Later(q, ip, h) \subseteq Requests /\ Later(p, ip, g) \subseteq Requests
    BY DEF Passing, Later, Executed
  <1>5. /\ Passing(p, ip) \subseteq Passing(q, ip) \union {r}
        /\ Later(p, ip, g) \subseteq Later(q, ip, h) \union {r}
    BY <1>2 DEF Passing, Later
  <1>6. g.count > Limit =>
          Passing(p, ip) \subseteq Passing(q, ip) /\ Later(p, ip, g) \subseteq Later(q, ip, h)
    <2> SUFFICES ASSUME g.count > Limit PROVE r \notin Passing(p, ip)
      BY <1>5 DEF Later
    <2> QED  BY <1>3, Numbers DEF Passing, g
  <1>7. /\ Cardinality(Passing(p, ip)) \in Nat /\ Cardinality(Passing(q, ip)) \in Nat
        /\ Cardinality(Later(p, ip, g)) \in Nat /\ Cardinality(Later(q, ip, h)) \in Nat
        /\ Cardinality(Passing(p, ip)) - Used(g) <= Cardinality(Passing(q, ip)) - Used(h)
        /\ Cardinality(Later(p, ip, g)) - Used(g) <= Cardinality(Later(q, ip, h)) - Used(h)
    <2>1. /\ Cardinality(Passing(p, ip)) \in Nat /\ Cardinality(Passing(q, ip)) \in Nat
          /\ Cardinality(Passing(p, ip)) <= Cardinality(Passing(q, ip)) + 1
          /\ g.count > Limit => Cardinality(Passing(p, ip)) <= Cardinality(Passing(q, ip))
      BY <1>4, <1>5, <1>6, SetsOfRequests
    <2>2. /\ Cardinality(Later(p, ip, g)) \in Nat /\ Cardinality(Later(q, ip, h)) \in Nat
          /\ Cardinality(Later(p, ip, g)) <= Cardinality(Later(q, ip, h)) + 1
          /\ g.count > Limit => Cardinality(Later(p, ip, g)) <= Cardinality(Later(q, ip, h))
      BY <1>4, <1>5, <1>6, SetsOfRequests
    <2>3. CASE g.count <= Limit
      BY <1>3, <2>1, <2>2, <2>3
    <2>4. CASE g.count > Limit
      BY <1>3, <2>1, <2>2, <2>4
    <2>5. g.count <= Limit \/ g.count > Limit
      BY <1>3, Numbers
    <2> QED  BY <2>3, <2>4, <2>5
  <1>8. \A x \in Executed(p, ip) : CallFits(p[x], g)
    <2> SUFFICES ASSUME NEW x \in Executed(p, ip) PROVE CallFits(p[x], g)
      OBVIOUS
    <2>1. CASE x = r
      <3>1. p[x].lag = lag /\ p[x].bucket = g
        BY <2>1 DEF g
      <3> QED  BY <1>1, <1>2, <1>3, <3>1, Numbers DEF CallFits
    <2>2. CASE x # r
      <3>1. p[x] = q[x] /\ CallFits(q[x], h)
        BY <2>2 DEF HashFits
      <3> QED  BY <1>2, <3>1 DEF CallFits
    <2> QED  BY <2>1, <2>2
  <1>9. ASSUME NEW n \in 0..Window, NEW j \in 0..2,
               n - (Window - g.left) + Timeout + Delay < j * Window
        PROVE  Within(f, n) + Cardinality(Passing(p, ip)) < Used(g) + j * Limit
    <2>1. Within(f, n) + Cardinality(Passing(q, ip)) < Used(h) + j * Limit
      BY <1>2, <1>9 DEF HashFits, WindowsFit
    <2>2. Within(f, n) \in Nat /\ j * Limit \in Nat
      BY WithinIs, Numbers
    <2> QED  BY <1>3, <1>7, <2>1, <2>2
  <1>10. Cardinality(Later(p, ip, g)) < Used(g)
    BY <1>3, <1>7 DEF HashFits
  <1>11. g.left # -Delay /\ g.count > 0
    BY <1>1, <1>2, <1>3
  <1>12. HashFits(p, ip, g, f)
    BY <1>8, <1>9, <1>10, <1>11 DEF HashFits, WindowsFit
  <1> QED  BY <1>2, <1>12 DEF g

(* A script opens a window: all that went before is of those before it.      *)
LEMMA RedisOpens ==
    ASSUME NEW ip \in Ips, NEW h \in Buckets, NEW f \in [Ages -> Nat], NEW q, NEW p,
           CallsFit(q), CallsFit(p), HashFits(q, ip, h, f),
           NEW r \in Requests, r \notin Executed(q, ip),
           Executed(p, ip) \subseteq Executed(q, ip) \union {r},
           \A x \in Executed(q, ip) : x \in Executed(p, ip) => p[x] = q[x],
           NEW lag \in 0..Delay, h.left <= -lag, NEW g, g = [count |-> 1, left |-> Window - lag],
           r \in Executed(p, ip) => p[r].lag = lag /\ p[r].bucket = g
    PROVE  g \in Buckets /\ HashFits(p, ip, g, f)
  <1>1. /\ h.left \in Int /\ Used(h) \in Nat /\ Used(h) <= Limit
    BY UsedIs, Numbers DEF HashFits
  <1>2. /\ g \in Buckets /\ g.left = Window - lag /\ g.count = 1 /\ g.left > 0
        /\ g.left \in Int /\ lag \in Nat /\ lag <= Delay /\ Used(g) = 1
    <2>1. /\ g.left = Window - lag /\ g.count = 1 /\ Window - lag \in (-Delay)..Window
          /\ lag \in Nat /\ lag <= Delay /\ Window - lag > 0 /\ 1 \in 0..MaxCount
      BY Numbers
    <2>2. g \in Buckets
      BY <2>1 DEF Buckets, Left
    <2>3. g # NoBucket
      BY <2>1 DEF NoBucket
    <2>4. Used(g) = 1
      BY <2>1, <2>3, Numbers DEF Used, Lesser
    <2> QED  BY <2>1, <2>2, <2>4
  <1>3. \A x \in Executed(p, ip) : x # r =>
          /\ p[x] = q[x] /\ p[x].bucket.left \in Int /\ p[x].lag \in Nat
          /\ p[x].bucket.count > 0 /\ p[x].bucket.left > -p[x].lag /\ p[x].bucket.left < g.left
    <2> SUFFICES ASSUME NEW x \in Executed(p, ip), x # r
                 PROVE  /\ p[x] = q[x] /\ p[x].bucket.left \in Int /\ p[x].lag \in Nat
                        /\ p[x].bucket.count > 0 /\ p[x].bucket.left > -p[x].lag
                        /\ p[x].bucket.left < g.left
      OBVIOUS
    <2>1. x \in Executed(q, ip) /\ p[x] = q[x] /\ x \in Requests /\ q[x] # Idle
      BY DEF Executed
    <2>2. CallFits(q[x], h)
      BY <2>1 DEF HashFits
    <2>3. q[x].bucket.left \in (-Delay)..Window /\ q[x].lag \in 0..Delay
      BY <2>1, CallsAre
    <2>4. q[x].bucket.left \in Int /\ q[x].lag \in Nat
      BY <2>3, Numbers
    <2>5. q[x].bucket.left <= h.left
      BY <2>2 DEF CallFits
    <2>6. q[x].bucket.left < g.left
      BY <1>1, <1>2, <2>4, <2>5
    <2> QED  BY <2>1, <2>2, <2>4, <2>6 DEF CallFits
  <1>4. \A x \in Executed(p, ip) : CallFits(p[x], g)
    <2> SUFFICES ASSUME NEW x \in Executed(p, ip) PROVE CallFits(p[x], g)
      OBVIOUS
    <2>1. CASE x = r
      <3>1. p[x].lag = lag /\ p[x].bucket = g
        BY <2>1
      <3> QED  BY <1>2, <3>1, Numbers DEF CallFits
    <2>2. CASE x # r
      <3> DEFINE left == p[x].bucket.left
                 late == p[x].lag
      <3>1. left \in Int /\ late \in Nat /\ left < g.left /\ left > -late /\ p[x].bucket.count > 0
        BY <1>3, <2>2
      <3> HIDE DEF left, late
      <3>2. late >= Window - g.left - Delay /\ left <= g.left /\ left # g.left
        BY <1>2, <3>1, Numbers
      <3> QED  BY <3>1, <3>2 DEF CallFits, left, late
    <2> QED  BY <2>1, <2>2
  <1>5. Later(p, ip, g) = {}
    <2> SUFFICES ASSUME NEW x \in Later(p, ip, g) PROVE FALSE
      OBVIOUS
    <2>1. x \in Executed(p, ip) /\ p[x].bucket.count > 1 /\ p[x].bucket.left = g.left
      BY DEF Later, Passing
    <2>2. CASE x = r
      BY <1>2, <2>1, <2>2
    <2>3. CASE x # r
      BY <1>2, <1>3, <2>1, <2>3
    <2> QED  BY <2>2, <2>3
  <1>6. /\ Cardinality(Passing(p, ip)) \in Nat /\ Cardinality(Passing(q, ip)) \in Nat
        /\ Cardinality(Passing(p, ip)) <= Cardinality(Passing(q, ip)) + 1
    <2>1. /\ Passing(q, ip) \subseteq Requests /\ Passing(p, ip) \subseteq Requests
          /\ Passing(p, ip) \subseteq Passing(q, ip) \union {r}
      BY DEF Passing, Executed
    <2> QED  BY <2>1, SetsOfRequests
  <1>7. ASSUME NEW n \in 0..Window, NEW j \in 0..2,
               n - (Window - g.left) + Timeout + Delay < j * Window
        PROVE  Within(f, n) + Cardinality(Passing(p, ip)) < Used(g) + j * Limit
    <2>1. j # 0
      BY <1>2, <1>7, Numbers
    <2>2. j - 1 \in 0..2 /\ (j - 1) * Window = j * Window - Window
          /\ (j - 1) * Limit = j * Limit - Limit /\ j * Window \in Nat /\ j * Limit \in Nat
      BY <2>1, Numbers
    <2>3. n - (Window - h.left) + Timeout + Delay < (j - 1) * Window
      <3> DEFINE w == j * Window
      <3>1. w \in Nat /\ n - (Window - g.left) + Timeout + Delay < w
        BY <1>7, <2>2
      <3> HIDE DEF w
      <3>2. n - (Window - h.left) + Timeout + Delay < w - Window
        BY <1>1, <1>2, <3>1, Numbers
      <3> QED  BY <2>2, <3>2 DEF w
    <2>4. Within(f, n) + Cardinality(Passing(q, ip)) < Used(h) + (j - 1) * Limit
      BY <2>2, <2>3 DEF HashFits, WindowsFit
    <2>5. Within(f, n) \in Nat
      BY WithinIs
    <2> DEFINE l == j * Limit
    <2>6. l \in Nat /\ (j - 1) * Limit = l - Limit
      BY <2>2
    <2> HIDE DEF l
    <2>7. Within(f, n) + Cardinality(Passing(p, ip)) < Used(g) + l
      BY <1>1, <1>2, <1>6, <2>4, <2>5, <2>6, Numbers
    <2> QED  BY <2>7 DEF l
  <1>8. Cardinality(Later(p, ip, g)) < Used(g)
    BY <1>2, <1>5, FS_EmptySet
  <1>9. g.left # -Delay /\ g.count > 0
    BY <1>2, Numbers
  <1> QED  BY <1>2, <1>4, <1>7, <1>8, <1>9 DEF HashFits, WindowsFit

(* A reply arrives: what was on its way is let through.                      *)
LEMMA RedisReplies ==
    ASSUME NEW ip \in Ips, NEW h \in Buckets, NEW f \in [Ages -> Nat], NEW q, NEW p,
           CallsFit(q), CallsFit(p), HashFits(q, ip, h, f), NEW r \in Executed(q, ip),
           Executed(p, ip) \subseteq Executed(q, ip) \ {r},
           \A x \in Executed(p, ip) : p[x] = q[x],
           NEW g \in [Ages -> Nat],
           \/ g = f
           \/ /\ g[0] = f[0] + 1 /\ \A a \in Ages : a # 0 => g[a] = f[a]
              /\ q[r].bucket.count <= Limit
    PROVE  HashFits(p, ip, h, g)
  <1>1. HashFits(p, ip, h, f)
    BY RedisLoses
  <1>2. /\ Passing(p, ip) \subseteq Requests /\ Passing(q, ip) \subseteq Requests
        /\ q[r].bucket.count <= Limit =>
             Passing(p, ip) \subseteq Passing(q, ip) \ {r} /\ r \in Passing(q, ip)
    BY DEF Passing, Executed
  <1>3. /\ Cardinality(Passing(p, ip)) \in Nat /\ Cardinality(Passing(q, ip)) \in Nat
        /\ q[r].bucket.count <= Limit =>
             Cardinality(Passing(p, ip)) <= Cardinality(Passing(q, ip)) - 1
    BY <1>2, SetsOfRequests
  <1>4. Used(h) \in Nat
    BY UsedIs, Numbers DEF HashFits
  <1>5. CASE g = f
    BY <1>1, <1>5
  <1>6. CASE /\ g[0] = f[0] + 1 /\ \A a \in Ages : a # 0 => g[a] = f[a]
             /\ q[r].bucket.count <= Limit
    <2>1. \A n \in 0..Window : Within(g, n) <= Within(f, n) + 1
      <3> SUFFICES ASSUME NEW n \in 0..Window PROVE Within(g, n) <= Within(f, n) + 1
        OBVIOUS
      <3>1. CASE n = 0
        BY <3>1, WithinIs
      <3>2. CASE n # 0
        <4>1. n \in 1..Window
          BY <3>2, Numbers
        <4>2. Within(g, n) = Within(f, n) + 1
          BY <1>6, <4>1, WithinOneMore
        <4>3. Within(f, n) \in Nat
          BY WithinIs
        <4> QED  BY <4>2, <4>3
      <3> QED  BY <3>1, <3>2
    <2>2. ASSUME NEW n \in 0..Window, NEW j \in 0..2,
                 n - (Window - h.left) + Timeout + Delay < j * Window
          PROVE  Within(g, n) + Cardinality(Passing(p, ip)) < Used(h) + j * Limit
      <3>1. Within(f, n) + Cardinality(Passing(q, ip)) < Used(h) + j * Limit
        BY <2>2 DEF HashFits, WindowsFit
      <3>2. Within(f, n) \in Nat /\ Within(g, n) \in Nat /\ j * Limit \in Nat
        BY WithinIs, Numbers
      <3>3. Within(g, n) <= Within(f, n) + 1
        BY <2>1
      <3>4. Cardinality(Passing(p, ip)) <= Cardinality(Passing(q, ip)) - 1
        BY <1>3, <1>6
      <3> QED  BY <1>3, <1>4, <3>1, <3>2, <3>3, <3>4
    <2> QED  BY <1>1, <2>2 DEF HashFits, WindowsFit
  <1> QED  BY <1>5, <1>6

(* Nothing is under way.                                                     *)
LEMMA RedisRests ==
    ASSUME NEW ip \in Ips, NEW q, Executed(q, ip) = {}, NEW f \in [Ages -> Nat],
           \A n \in 0..Window, j \in 0..2 :
             n - (Window + Delay) + Timeout + Delay < j * Window =>
               Within(f, n) < Limit + j * Limit
    PROVE  NoBucket \in Buckets /\ HashFits(q, ip, NoBucket, f)
  <1>1. /\ NoBucket \in Buckets /\ NoBucket.left = -Delay /\ Used(NoBucket) = Limit
        /\ Window - NoBucket.left = Window + Delay
    <2>1. -Delay \in (-Delay)..Window /\ 0 \in 0..MaxCount /\ Window - (-Delay) = Window + Delay
      BY Numbers
    <2> QED  BY <2>1 DEF NoBucket, Buckets, Left, Used
  <1>2. Passing(q, ip) = {} /\ Later(q, ip, NoBucket) = {} /\ Cardinality({}) = 0
    BY FS_EmptySet DEF Passing, Later
  <1>3. ASSUME NEW n \in 0..Window, NEW j \in 0..2,
               n - (Window - NoBucket.left) + Timeout + Delay < j * Window
        PROVE  Within(f, n) + Cardinality(Passing(q, ip)) < Used(NoBucket) + j * Limit
    <2>1. Within(f, n) \in Nat
      BY WithinIs
    <2>2. Within(f, n) < Limit + j * Limit
      BY <1>1, <1>3
    <2>3. Within(f, n) + 0 = Within(f, n)
      BY <2>1
    <2> QED  BY <1>1, <1>2, <2>2, <2>3
  <1>4. Cardinality(Later(q, ip, NoBucket)) < Used(NoBucket)
    BY <1>1, <1>2, Numbers
  <1>5. ~(NoBucket.left > -Delay)
    BY <1>1, Numbers
  <1> QED  BY <1>1, <1>3, <1>4, <1>5 DEF HashFits, WindowsFit

(* Time goes on by a unit, and nothing is past its abort.                    *)
Aged(h) == IF h.left <= 1 - Delay THEN NoBucket ELSE Older(h, -Delay)
AgedCall(c) == IF c = Idle THEN Idle
               ELSE [c EXCEPT !.lag = @ + 1, !.bucket = Older(@, -Delay)]
AllAged(q) == [r \in Requests |-> AgedCall(q[r])]
InTime(q) == \A r \in Requests : q[r] # Idle => q[r].lag < Abort(q[r])

LEMMA OlderIs ==
    ASSUME NEW b \in Buckets
    PROVE  /\ Older(b, -Delay) \in Buckets /\ Older(b, -Delay).count = b.count
           /\ b.left > -Delay => Older(b, -Delay).left = b.left - 1
  <1>1. b.left \in Int /\ -Delay <= b.left /\ b.left <= Window /\ b.count \in 0..MaxCount
    BY Numbers DEF Buckets, Left
  <1>2. /\ Greater(b.left - 1, -Delay) \in (-Delay)..Window
        /\ b.left > -Delay => Greater(b.left - 1, -Delay) = b.left - 1
    BY <1>1, Numbers DEF Greater
  <1>3. LET c == [b EXCEPT !.left = Greater(b.left - 1, -Delay)]
        IN  c \in Buckets /\ c.count = b.count /\ c.left = Greater(b.left - 1, -Delay)
    BY <1>2 DEF Buckets, Left
  <1>4. Older(b, -Delay) = [b EXCEPT !.left = Greater(b.left - 1, -Delay)]
    BY DEF Older
  <1> QED  BY <1>2, <1>3, <1>4

LEMMA CallsAge ==
    ASSUME NEW q, CallsFit(q), InTime(q), NEW p, p = AllAged(q)
    PROVE  /\ CallsFit(p)
           /\ \A ip : Executed(p, ip) = Executed(q, ip)
           /\ \A r \in Requests : q[r] # Idle =>
                p[r].lag = q[r].lag + 1 /\ p[r].bucket = Older(q[r].bucket, -Delay)
  <1>1. ASSUME NEW r \in Requests, q[r] # Idle
        PROVE  /\ p[r] \in Calls /\ p[r] # Idle /\ p[r].phase = q[r].phase /\ p[r].ip = q[r].ip
               /\ p[r].lag = q[r].lag + 1 /\ p[r].bucket = Older(q[r].bucket, -Delay)
               /\ p[r].lag <= Abort(p[r])
    <2> DEFINE c == q[r]
    <2>1. /\ c \in Calls /\ c.phase \in {"sent", "executed", "abandoned"} /\ c.ip \in Ips
          /\ c.lag \in 0..Delay /\ c.bucket \in Buckets
      BY <1>1, CallsAre
    <2>2. c.lag < Abort(c) /\ Abort(c) \in Nat /\ Abort(c) <= Delay
      BY <1>1, Numbers DEF Abort, InTime
    <2>3. p[r] = [c EXCEPT !.lag = c.lag + 1, !.bucket = Older(c.bucket, -Delay)]
      BY <1>1 DEF AgedCall, AllAged
    <2> HIDE DEF c
    <2>4. c.lag + 1 \in 0..Delay /\ c.lag + 1 <= Abort(c)
      BY <2>1, <2>2, Numbers
    <2>5. Older(c.bucket, -Delay) \in Buckets
      BY <2>1, OlderIs
    <2>6. LET d == [c EXCEPT !.lag = c.lag + 1, !.bucket = Older(c.bucket, -Delay)]
          IN  /\ d \in Calls /\ d.phase = c.phase /\ d.ip = c.ip
              /\ d.lag = c.lag + 1 /\ d.bucket = Older(c.bucket, -Delay)
      BY <2>1, <2>4, <2>5 DEF Calls
    <2>7. p[r] # Idle
      <3>1. p[r].phase # Idle.phase
        BY <2>1, <2>3, <2>6 DEF Idle
      <3> QED  BY <3>1
    <2>8. Abort(p[r]) = Abort(c)
      BY <2>3, <2>6 DEF Abort
    <2> QED  BY <2>3, <2>4, <2>6, <2>7, <2>8 DEF c
  <1>2. ASSUME NEW r \in Requests, q[r] = Idle PROVE p[r] = Idle
    BY <1>2 DEF AgedCall, AllAged
  <1>3. CallsFit(p)
    <2>1. \A r \in Requests : p[r] \in {Idle} \union Calls
      BY <1>1, <1>2
    <2>2. \A r \in Requests : p[r] # Idle => p[r].lag <= Abort(p[r])
      BY <1>1, <1>2
    <2> QED  BY <2>1, <2>2 DEF CallsFit, AllAged
  <1>4. \A ip : Executed(p, ip) = Executed(q, ip)
    BY <1>1, <1>2 DEF Executed
  <1> QED  BY <1>1, <1>3, <1>4

LEMMA RedisAges ==
    ASSUME NEW ip \in Ips, NEW h \in Buckets, NEW f \in [Ages -> Nat], NEW q,
           CallsFit(q), InTime(q), HashFits(q, ip, h, f), NEW p, p = AllAged(q)
    PROVE  Aged(h) \in Buckets /\ HashFits(p, ip, Aged(h), Shifted(f))
  <1> DEFINE g == Shifted(f)
  <1>1. /\ CallsFit(p) /\ Executed(p, ip) = Executed(q, ip)
        /\ \A r \in Requests : q[r] # Idle =>
             p[r].lag = q[r].lag + 1 /\ p[r].bucket = Older(q[r].bucket, -Delay)
    BY CallsAge
  <1>2. /\ h.left \in Int /\ h.left >= -Delay /\ h.left <= Window /\ h.count \in Nat
        /\ Used(h) \in 1..Limit /\ (h.left > -Delay => Used(h) = Lesser(h.count, Limit))
    BY UsedIs DEF HashFits
  <1>0. h.left \in Int /\ h.left >= -Delay /\ h.left <= Window
    BY <1>2
  <1>3. g \in [Ages -> Nat] /\ \A n \in Ages : Within(g, n + 1) = Within(f, n)
    BY WithinShifted
  <1>4. \A n \in 0..Window : Within(f, n) \in Nat /\ Within(g, n) \in Nat
    BY <1>3, WithinIs
  <1>5. Within(g, 0) = 0 /\ Within(f, 0) = 0
    BY <1>3, WithinIs
  <1>6. ASSUME NEW n \in 0..Window, n # 0
        PROVE  n - 1 \in 0..Window /\ Within(g, n) = Within(f, n - 1)
    <2>1. n - 1 \in Ages /\ (n - 1) + 1 = n /\ n - 1 \in 0..Window
      BY <1>6, Numbers
    <2> QED  BY <1>3, <2>1
  <1> HIDE DEF g
  <1>7. ASSUME NEW r \in Executed(q, ip)
        PROVE  /\ CallFits(q[r], h)
               /\ q[r].bucket.left \in Int /\ q[r].lag \in Nat /\ q[r].lag < Timeout
               /\ q[r].bucket.left > 1 - Delay /\ h.left > 1 - Delay
               /\ p[r].lag = q[r].lag + 1 /\ p[r].bucket.left = q[r].bucket.left - 1
               /\ p[r].bucket.count = q[r].bucket.count
    <2>1. CallFits(q[r], h) /\ r \in Requests /\ q[r] # Idle /\ q[r].phase = "executed"
      BY DEF HashFits, Executed
    <2>2. /\ q[r].bucket \in Buckets /\ q[r].bucket.left \in (-Delay)..Window
          /\ q[r].lag \in 0..Delay
      BY <2>1, CallsAre
    <2>3. q[r].lag < Timeout
      BY <2>1 DEF Abort, InTime
    <2>4. q[r].bucket.left > -q[r].lag /\ q[r].bucket.left <= h.left
      BY <2>1 DEF CallFits
    <2>5. q[r].bucket.left \in Int /\ q[r].lag \in Nat
      BY <2>2, Numbers
    <2> DEFINE left == q[r].bucket.left
               late == q[r].lag
    <2>6. left \in Int /\ late \in Nat /\ late < Timeout /\ left > -late /\ left <= h.left
      BY <2>3, <2>4, <2>5
    <2> HIDE DEF left, late
    <2>7. left > 1 - Delay /\ h.left > 1 - Delay /\ left > -Delay
      BY <1>2, <2>6, Numbers
    <2>8. /\ Older(q[r].bucket, -Delay).left = q[r].bucket.left - 1
          /\ Older(q[r].bucket, -Delay).count = q[r].bucket.count
      BY <2>2, <2>7, OlderIs DEF left
    <2>9. p[r].lag = q[r].lag + 1 /\ p[r].bucket = Older(q[r].bucket, -Delay)
      BY <1>1, <2>1
    <2> QED  BY <2>1, <2>3, <2>5, <2>7, <2>8, <2>9 DEF left
  (* the hash is forgotten                                                    *)
  <1>8. CASE h.left <= 1 - Delay
    <2>1. Aged(h) = NoBucket
      BY <1>8 DEF Aged
    <2>2. Executed(p, ip) = {}
      <3> SUFFICES ASSUME NEW r \in Executed(q, ip) PROVE FALSE
        BY <1>1
      <3> QED  BY <1>2, <1>7, <1>8, Numbers
    <2>3. ASSUME NEW n \in 0..Window, NEW j \in 0..2,
                 n - (Window + Delay) + Timeout + Delay < j * Window
          PROVE  Within(g, n) < Limit + j * Limit
      <3>1. j * Limit \in Nat /\ j * Window \in Nat
        BY Numbers
      <3>2. CASE n = 0
        BY <1>5, <3>1, <3>2, Numbers
      <3>3. CASE n # 0
        <4>1. (n - 1) - (Window - h.left) + Timeout + Delay < j * Window
          <5> DEFINE w == j * Window
          <5>1. w \in Nat /\ n - (Window + Delay) + Timeout + Delay < w
            BY <2>3, <3>1
          <5> HIDE DEF w
          <5>2. (n - 1) - (Window - h.left) + Timeout + Delay < w
            BY <1>0, <1>8, <5>1, Numbers
          <5> QED  BY <5>2 DEF w
        <4>2. n - 1 \in 0..Window /\ Within(g, n) = Within(f, n - 1)
          BY <1>6, <3>3
        <4>3. Within(f, n - 1) + Cardinality(Passing(q, ip)) < Used(h) + j * Limit
          BY <4>1, <4>2 DEF HashFits, WindowsFit
        <4>4. Cardinality(Passing(q, ip)) \in Nat
          <5>1. Passing(q, ip) \subseteq Requests
            BY DEF Passing, Executed
          <5> QED  BY <5>1, SetsOfRequests
        <4>5. Within(f, n - 1) \in Nat
          BY <1>4, <4>2
        <4> QED  BY <1>2, <3>1, <4>2, <4>3, <4>4, <4>5, Numbers
      <3> QED  BY <3>2, <3>3
    <2> QED  BY <1>3, <2>1, <2>2, <2>3, RedisRests DEF g
  (* its window and the lag of all requests are a unit longer                 *)
  <1>9. CASE h.left > 1 - Delay
    <2>1. PICK k \in Buckets :
            /\ k = Aged(h) /\ k.left = h.left - 1 /\ k.count = h.count
            /\ k.left > -Delay /\ h.count > 0
      <3>1. /\ Aged(h) = Older(h, -Delay) /\ h.left > -Delay /\ h.left - 1 > -Delay
        BY <1>2, <1>9, Numbers DEF Aged
      <3>2. h.count > 0
        BY <3>1 DEF HashFits
      <3> QED  BY <3>1, <3>2, OlderIs
    <2> DEFINE x == h.left
               y == k.left
    <2>0. x \in Int /\ y \in Int /\ y = x - 1 /\ x <= Window
      BY <1>0, <2>1
    <2> HIDE DEF x, y
    <2>2. Used(k) = Used(h)
      <3>1. Used(h) = Lesser(h.count, Limit)
        BY <1>2, <1>9, Numbers
      <3>2. k # NoBucket
        BY <2>1, Numbers DEF NoBucket
      <3> QED  BY <2>1, <3>1, <3>2 DEF Used
    <2>3. Passing(p, ip) = Passing(q, ip)
      BY <1>1, <1>7 DEF Passing
    <2>4. Later(p, ip, k) = Later(q, ip, h)
      <3>1. \A r \in Passing(q, ip) :
              /\ p[r].bucket.count = q[r].bucket.count
              /\ p[r].bucket.left = k.left <=> q[r].bucket.left = h.left
        <4> SUFFICES ASSUME NEW r \in Passing(q, ip)
                     PROVE  /\ p[r].bucket.count = q[r].bucket.count
                            /\ p[r].bucket.left = k.left <=> q[r].bucket.left = h.left
          OBVIOUS
        <4>1. r \in Executed(q, ip)
          BY DEF Passing
        <4> QED  BY <1>2, <1>7, <2>1, <4>1
      <3> QED  BY <2>3, <3>1 DEF Later
    <2>5. \A r \in Executed(p, ip) : CallFits(p[r], k)
      <3> SUFFICES ASSUME NEW r \in Executed(q, ip) PROVE CallFits(p[r], k)
        BY <1>1
      <3> DEFINE left == q[r].bucket.left
                 late == q[r].lag
                 count == q[r].bucket.count
      <3>1. /\ left \in Int /\ late \in Nat /\ count > 0 /\ left > -late /\ left <= x
            /\ left < x => late >= Window - x - Delay
            /\ left = x /\ count = 1 => late = Window - x
        BY <1>7 DEF CallFits, x
      <3>2. /\ p[r].lag = late + 1 /\ p[r].bucket.left = left - 1 /\ p[r].bucket.count = count
        BY <1>7
      <3> HIDE DEF left, late, count
      <3>3. /\ left - 1 > -(late + 1) /\ left - 1 <= y
            /\ left - 1 < y => late + 1 >= Window - y - Delay
            /\ left - 1 = y /\ count = 1 => late + 1 = Window - y
        BY <2>0, <3>1, Numbers
      <3> QED  BY <3>1, <3>2, <3>3 DEF CallFits, y
    <2>6. /\ Passing(q, ip) \subseteq Requests /\ Later(q, ip, h) \subseteq Requests
          /\ Cardinality(Passing(q, ip)) \in Nat /\ Cardinality(Later(q, ip, h)) \in Nat
      <3>1. Passing(q, ip) \subseteq Requests /\ Later(q, ip, h) \subseteq Requests
        BY DEF Passing, Executed, Later
      <3> QED  BY <3>1, SetsOfRequests
    <2>7. Cardinality(Later(q, ip, h)) < Used(h)
      BY DEF HashFits
    (* no reply of an earlier window, nor of the one that opened this, is left*)
    <2>8. ASSUME Window - h.left = Timeout + Delay
          PROVE  Cardinality(Passing(q, ip)) < Used(h)
      <3>1. ASSUME NEW r \in Passing(q, ip) PROVE r \in Later(q, ip, h)
        <4> DEFINE c == q[r]
        <4>1. /\ r \in Executed(q, ip) /\ c.bucket.left \in Int /\ c.lag \in Nat
              /\ c.lag < Timeout /\ c.bucket.count > 0 /\ c.bucket.left <= h.left
              /\ c.bucket.left < h.left => c.lag >= Window - h.left - Delay
              /\ c.bucket.left = h.left /\ c.bucket.count = 1 => c.lag = Window - h.left
          BY <1>7 DEF CallFits, Passing
        <4>2. c.bucket.count \in Nat
          <5>1. r \in Requests /\ q[r] # Idle
            BY <4>1 DEF Executed
          <5>2. c.bucket.count \in 0..MaxCount
            BY <5>1, CallsAre
          <5> QED  BY <5>2, Numbers
        <4> HIDE DEF c
        <4>3. c.bucket.left = h.left
          BY <1>0, <2>8, <4>1, Numbers
        <4>4. c.bucket.count > 1
          BY <1>0, <2>8, <4>1, <4>2, <4>3, Numbers
        <4> QED  BY <4>3, <4>4 DEF Later, c
      <3>2. Cardinality(Passing(q, ip)) <= Cardinality(Later(q, ip, h))
        BY <2>6, <3>1, SetsOfRequests
      <3> QED  BY <1>2, <2>6, <2>7, <3>2
    <2>9. ASSUME NEW n \in 0..Window, NEW j \in 0..2,
                 n - (Window - k.left) + Timeout + Delay < j * Window
          PROVE  Within(g, n) + Cardinality(Passing(p, ip)) < Used(k) + j * Limit
      <3>1. j * Limit \in Nat /\ j * Window \in Nat
        BY Numbers
      <3>2. CASE n # 0
        <4>1. n - 1 \in 0..Window /\ Within(g, n) = Within(f, n - 1)
          BY <1>6, <3>2
        <4>2. (n - 1) - (Window - h.left) + Timeout + Delay < j * Window
          <5>1. (n - 1) - (Window - x) = n - (Window - y)
            BY <2>0, Numbers
          <5> QED  BY <2>9, <5>1 DEF x, y
        <4> QED  BY <2>2, <2>3, <4>1, <4>2 DEF HashFits, WindowsFit
      <3>3. CASE n = 0 /\ 0 - (Window - h.left) + Timeout + Delay < j * Window
        <4>1. Within(f, 0) + Cardinality(Passing(q, ip)) < Used(h) + j * Limit
          BY <3>3, Numbers DEF HashFits, WindowsFit
        <4> QED  BY <1>5, <2>2, <2>3, <3>3, <4>1
      <3>4. CASE n = 0 /\ ~(0 - (Window - h.left) + Timeout + Delay < j * Window)
        <4> DEFINE w == j * Window
        <4>1. 0 - (Window - h.left) + Timeout + Delay = w
          <5>1. w \in Nat /\ 0 - (Window - y) + Timeout + Delay < w
            BY <2>9, <3>1, <3>4 DEF y
          <5>2. ~(0 - (Window - x) + Timeout + Delay < w)
            BY <3>4 DEF x
          <5> HIDE DEF w
          <5>3. 0 - (Window - x) + Timeout + Delay = w
            BY <2>0, <5>1, <5>2, Numbers
          <5> QED  BY <5>3 DEF x
        <4>2. j = 0
          <5>1. w < Window
            <6> HIDE DEF w
            <6> QED  BY <1>2, <4>1, Numbers
          <5>2. CASE j = 1
            BY <5>1, <5>2, Numbers
          <5>3. CASE j = 2
            BY <5>1, <5>3, Numbers
          <5> QED  BY <5>2, <5>3
        <4>3. Window - h.left = Timeout + Delay
          BY <1>0, <4>1, <4>2, Numbers
        <4>4. Cardinality(Passing(q, ip)) < Used(h)
          BY <2>8, <4>3
        <4>5. j * Limit = 0
          BY <4>2, Numbers
        <4> QED  BY <1>2, <1>5, <2>2, <2>3, <2>6, <3>4, <4>4, <4>5
      <3> QED  BY <3>2, <3>3, <3>4
    <2>10. HashFits(p, ip, k, g)
      BY <2>1, <2>2, <2>4, <2>5, <2>7, <2>9 DEF HashFits, WindowsFit
    <2> QED  BY <2>1, <2>10 DEF g
  <1> QED  BY <1>2, <1>8, <1>9, Numbers
----------------------------------------------------------------------------
RedisInv ==
    /\ redis \in [Ips -> Buckets] /\ CallsFit(req) /\ byRedis \in [Ips -> [Ages -> Nat]]
    /\ \A ip \in Ips : HashFits(req, ip, redis[ip], byRedis[ip])
    /\ store = "memory" =>
         (\A r \in Requests : req[r] = Idle) /\ \A ip \in Ips : byRedis[ip] = Nothing

Inv == MapInv /\ RefusalInv /\ RedisInv

(* Time goes on for the Map.                                                 *)
LEMMA EntryAges ==
    ASSUME NEW b \in Entries
    PROVE  /\ Older(b, 0) \in Entries /\ Older(b, 0).ip = b.ip /\ Older(b, 0).count = b.count
           /\ ~Expired(b) => Older(b, 0).left = b.left - 1
           /\ Expired(b) => Expired(Older(b, 0))
  <1>1. b.left \in Nat /\ b.left <= Window
    BY Numbers DEF Entries
  <1>2. /\ Greater(b.left - 1, 0) \in 0..Window
        /\ b.left # 0 => Greater(b.left - 1, 0) = b.left - 1
        /\ b.left = 0 => Greater(b.left - 1, 0) = 0
    BY <1>1, Numbers DEF Greater
  <1>3. LET c == [b EXCEPT !.left = Greater(b.left - 1, 0)]
        IN  c \in Entries /\ c.ip = b.ip /\ c.count = b.count /\ c.left = Greater(b.left - 1, 0)
    BY <1>2 DEF Entries
  <1>4. Older(b, 0) = [b EXCEPT !.left = Greater(b.left - 1, 0)]
    BY DEF Older
  <1> QED  BY <1>2, <1>3, <1>4 DEF Expired

LEMMA MapAges ==
    ASSUME NEW m, MapShape(m), NEW t, t = [i \in DOMAIN m |-> Older(m[i], 0)]
    PROVE  /\ MapShape(t)
           /\ \A ip : \A c \in BucketsOf(t, ip) : \E b \in BucketsOf(m, ip) : c = Older(b, 0)
           /\ \A ip : \A b \in BucketsOf(m, ip) : Older(b, 0) \in BucketsOf(t, ip)
  <1>1. /\ DOMAIN m = 1..Len(m) /\ Len(m) \in Nat /\ Len(m) <= MaxEntries
        /\ \A i \in DOMAIN m : m[i] \in Entries
        /\ \A i, j \in DOMAIN m : m[i].ip = m[j].ip => i = j
    BY BucketsAre DEF MapShape
  <1>2. \A i \in DOMAIN m : Older(m[i], 0) \in Entries /\ Older(m[i], 0).ip = m[i].ip
    BY <1>1, EntryAges
  <1>3. t \in Seq(Entries) /\ Len(t) = Len(m) /\ DOMAIN t = DOMAIN m
    BY <1>1, <1>2
  <1>4. \A i \in DOMAIN m : t[i] = Older(m[i], 0) /\ t[i].ip = m[i].ip
    BY <1>2
  <1>5. MapShape(t)
    BY <1>1, <1>3, <1>4 DEF MapShape
  <1>6. ASSUME NEW ip, NEW c \in BucketsOf(t, ip)
        PROVE  \E b \in BucketsOf(m, ip) : c = Older(b, 0)
    <2>1. PICK i \in DOMAIN t : c = t[i] /\ t[i].ip = ip
      BY <1>5, BucketsAre
    <2>2. i \in DOMAIN m /\ m[i].ip = ip
      BY <1>3, <1>4, <2>1
    <2>3. m[i] \in BucketsOf(m, m[i].ip)
      BY <2>2, BucketsAre
    <2> QED  BY <1>4, <2>1, <2>2, <2>3
  <1>7. ASSUME NEW ip, NEW b \in BucketsOf(m, ip) PROVE Older(b, 0) \in BucketsOf(t, ip)
    <2>1. PICK i \in DOMAIN m : b = m[i] /\ m[i].ip = ip
      BY BucketsAre
    <2>2. i \in DOMAIN t /\ t[i] = Older(b, 0) /\ t[i].ip = ip
      BY <1>3, <1>4, <2>1
    <2>3. t[i] \in BucketsOf(t, t[i].ip)
      BY <1>5, <2>2, BucketsAre
    <2> QED  BY <2>2, <2>3
  <1> QED  BY <1>5, <1>6, <1>7

LEMMA FitsAges ==
    ASSUME NEW f \in [Ages -> Nat], NEW bs, Fits(bs, f), \A b \in bs : b \in Entries,
           NEW cs, \A c \in cs : \E b \in bs : c = Older(b, 0),
           \A b \in bs : Older(b, 0) \in cs
    PROVE  Fits(cs, Shifted(f))
  <1>1. ASSUME NEW c \in cs, ~Expired(c) PROVE Opened(Shifted(f), c)
    <2>1. PICK b \in bs : c = Older(b, 0)
      BY <1>1
    <2>2. b \in Entries /\ ~Expired(b) /\ Opened(f, b)
      BY <1>1, <2>1, EntryAges DEF Fits
    <2>3. c \in Entries /\ c.left = b.left - 1 /\ c.count = b.count
      BY <2>1, <2>2, EntryAges
    <2> QED  BY <1>1, <2>2, <2>3, OpenedAges
  <1>2. ASSUME \A c \in cs : Expired(c) PROVE Closed(Shifted(f))
    <2>1. CASE \A b \in bs : Expired(b)
      BY <2>1, ClosedAges DEF Fits
    <2>2. CASE ~\A b \in bs : Expired(b)
      <3>1. PICK b \in bs : ~Expired(b)
        BY <2>2
      <3> DEFINE c == Older(b, 0)
      <3>2. b \in Entries /\ Opened(f, b) /\ Expired(c)
        BY <1>2, <3>1 DEF Fits
      <3>3. c \in Entries /\ c.left = b.left - 1 /\ c.count = b.count
        BY <3>1, <3>2, EntryAges
      <3> HIDE DEF c
      <3> QED  BY <3>1, <3>2, <3>3, OpenedAges
    <2> QED  BY <2>1, <2>2
  <1> QED  BY <1>1, <1>2 DEF Fits

(* A request is where c says.                                                *)
Moved(q, r, c, p) ==
    /\ p \in [Requests -> {Idle} \union Calls] /\ p[r] = c /\ (c # Idle => c.lag <= Abort(c))
    /\ \A x \in Requests : x # r => p[x] = q[x]

LEMMA CallsChange ==
    ASSUME NEW q, CallsFit(q), NEW r \in Requests, NEW c, NEW p, Moved(q, r, c, p)
    PROVE  /\ CallsFit(p)
           /\ \A ip : /\ Executed(p, ip) \subseteq Executed(q, ip) \union {r}
                      /\ c = Idle \/ c.phase # "executed" \/ c.ip # ip =>
                           Executed(p, ip) \subseteq Executed(q, ip) \ {r}
  <1>1. /\ q \in [Requests -> {Idle} \union Calls]
        /\ \A x \in Requests : q[x] # Idle => q[x].lag <= Abort(q[x])
    BY DEF CallsFit
  <1>2. \A x \in Requests : p[x] # Idle => p[x].lag <= Abort(p[x])
    BY <1>1 DEF Moved
  <1>3. CallsFit(p)
    BY <1>2 DEF CallsFit, Moved
  <1>4. \A ip : /\ Executed(p, ip) \subseteq Executed(q, ip) \union {r}
                /\ c = Idle \/ c.phase # "executed" \/ c.ip # ip =>
                     Executed(p, ip) \subseteq Executed(q, ip) \ {r}
    BY DEF Executed, Moved
  <1> QED  BY <1>3, <1>4
----------------------------------------------------------------------------
LEMMA InitInv == Init => Inv
  <1> SUFFICES ASSUME Init PROVE Inv
    OBVIOUS
  <1>1. /\ map = <<>> /\ redis = [ip \in Ips |-> NoBucket]
        /\ req = [r \in Requests |-> Idle] /\ store \in {"memory", "redis"}
        /\ byMap = [ip \in Ips |-> Nothing] /\ byRedis = [ip \in Ips |-> Nothing]
        /\ told = [ip \in Ips |-> -Second] /\ refusedAt = Limit /\ clock = 0
    BY DEF Init
  <1>2. /\ Nothing \in [Ages -> Nat] /\ Nothing[0] = 0
        /\ \A n \in 0..Window : Within(Nothing, n) = 0
    BY WithinNothing
  <1>3. MapInv
    <2>1. /\ map \in Seq(Entries) /\ Len(map) = 0 /\ DOMAIN map = {}
          /\ \A ip : BucketsOf(map, ip) = {}
      BY <1>1 DEF BucketsOf, ToSet
    <2>2. MapShape(map)
      BY <2>1, Numbers DEF MapShape
    <2>3. \A ip \in Ips : byMap[ip] = Nothing /\ Fits(BucketsOf(map, ip), byMap[ip])
      BY <1>1, <1>2, <2>1, FitsNothing
    <2> QED  BY <1>1, <1>2, <2>2, <2>3 DEF MapInv
  <1>4. RefusalInv
    <2>1. /\ 0 \in 0..(Second - 1) /\ -Second \in Int /\ Limit \in 0..Limit
          /\ \A ip : BucketsOf(map, ip) = {}
      BY <1>1, Numbers DEF BucketsOf, ToSet
    <2> QED  BY <1>1, <2>1 DEF RefusalInv
  <1>5. RedisInv
    <2>1. CallsFit(req)
      BY <1>1 DEF CallsFit
    <2>2. \A ip : Executed(req, ip) = {}
      BY <1>1 DEF Executed
    <2>3. \A n \in 0..Window, j \in 0..2 : Within(Nothing, n) < Limit + j * Limit
      BY <1>2, Numbers
    <2>4. \A ip \in Ips : NoBucket \in Buckets /\ HashFits(req, ip, NoBucket, Nothing)
      BY <1>2, <2>2, <2>3, RedisRests
    <2>5. \A ip \in Ips : redis[ip] = NoBucket /\ byRedis[ip] = Nothing
      BY <1>1
    <2>6. redis \in [Ips -> Buckets] /\ byRedis \in [Ips -> [Ages -> Nat]]
      BY <1>1, <1>2, <2>4
    <2> QED  BY <1>1, <2>1, <2>4, <2>5, <2>6 DEF RedisInv
  <1> QED  BY <1>3, <1>4, <1>5 DEF Inv

(* Steps of Redis: the calls, the hash of ip and what was let through for it.*)
LEMMA ExecuteStep ==
    ASSUME RedisInv, NEW r \in Requests, Execute(r)
    PROVE  RedisInv'
  <1> DEFINE c == req[r]
             ip == c.ip
             h == redis[ip]
             g == ScriptResult(h, c.lag)
             d == IF c.phase = "sent" THEN [c EXCEPT !.phase = "executed", !.bucket = g]
                                      ELSE Idle
  <1>1. /\ redis \in [Ips -> Buckets] /\ CallsFit(req) /\ byRedis \in [Ips -> [Ages -> Nat]]
        /\ \A i \in Ips : HashFits(req, i, redis[i], byRedis[i])
        /\ store # "memory"
    BY DEF RedisInv, Execute
  <1>2. /\ c # Idle /\ c.phase \in {"sent", "abandoned"}
        /\ redis' = [redis EXCEPT ![ip] = g] /\ req' = [req EXCEPT ![r] = d]
        /\ byRedis' = byRedis /\ store' = store
    BY DEF Execute, answers
  <1>3. /\ c \in Calls /\ ip \in Ips /\ c.lag \in 0..Delay
        /\ c.phase = "sent" => c.lag <= Timeout
    BY <1>1, <1>2, CallsAre
  <1>4. h \in Buckets /\ h.left \in Int /\ h.count \in Nat /\ c.lag \in Nat
    BY <1>1, <1>3, Numbers DEF Buckets, Left
  <1>5. g \in Buckets
    <2>1. CASE h.left <= -c.lag
      <3>1. g = [count |-> 1, left |-> Window - c.lag] /\ 1 \in 0..MaxCount
            /\ Window - c.lag \in (-Delay)..Window
        BY <1>3, <2>1, Numbers DEF ScriptResult
      <3> QED  BY <3>1 DEF Buckets, Left
    <2>2. CASE ~(h.left <= -c.lag)
      <3>1. g = [h EXCEPT !.count = Lesser(h.count + 1, MaxCount)]
        BY <2>2 DEF ScriptResult, Plus
      <3>2. Lesser(h.count + 1, MaxCount) \in 0..MaxCount
        BY <1>4, Numbers DEF Lesser
      <3> QED  BY <1>4, <3>1, <3>2 DEF Buckets
    <2> QED  BY <2>1, <2>2
  <1>6. /\ d \in {Idle} \union Calls /\ (d # Idle => d.lag <= Abort(d))
        /\ d # Idle => d.ip = ip /\ d.lag = c.lag /\ d.bucket = g
    <2>1. CASE c.phase = "sent"
      <3> DEFINE e == [c EXCEPT !.phase = "executed", !.bucket = g]
      <3>1. e \in Calls /\ e.phase = "executed" /\ e.ip = c.ip /\ e.lag = c.lag /\ e.bucket = g
        <4> HIDE DEF g, c
        <4> QED  BY <1>3, <1>5 DEF Calls
      <3>2. d = e /\ Abort(e) = Timeout
        BY <2>1, <3>1 DEF Abort
      <3> QED  BY <1>3, <2>1, <3>1, <3>2
    <2>2. CASE c.phase # "sent"
      BY <2>2
    <2> QED  BY <2>1, <2>2
  <1> HIDE DEF c, h, g, d
  <1>7. /\ CallsFit(req') /\ req'[r] = d /\ \A x \in Requests : x # r => req'[x] = req[x]
        /\ Executed(req', ip) \subseteq Executed(req, ip) \union {r}
        /\ \A i : i # ip => Executed(req', i) \subseteq Executed(req, i) \ {r}
    <2>0. /\ req' \in [Requests -> {Idle} \union Calls] /\ req'[r] = d
          /\ \A x \in Requests : x # r => req'[x] = req[x]
      BY <1>1, <1>2, <1>6 DEF CallsFit
    <2>1. /\ CallsFit(req')
          /\ \A i : /\ Executed(req', i) \subseteq Executed(req, i) \union {r}
                    /\ d = Idle \/ d.phase # "executed" \/ d.ip # i =>
                         Executed(req', i) \subseteq Executed(req, i) \ {r}
      <3>1. Moved(req, r, d, req')
        BY <1>6, <2>0 DEF Moved
      <3> QED  BY <1>1, <3>1, CallsChange
    <2>2. \A i : i # ip => d = Idle \/ d.ip # i
      BY <1>6
    <2> QED  BY <2>0, <2>1, <2>2
  <1>8. r \notin Executed(req, ip)
    BY <1>2 DEF Executed, c
  <1>9. \A i, x : x \in Executed(req', i) /\ x # r => req'[x] = req[x]
    BY <1>7 DEF Executed
  <1>10. HashFits(req', ip, g, byRedis[ip])
    <2>1. r \in Executed(req', ip) => req'[r].lag = c.lag /\ req'[r].bucket = g
      BY <1>6, <1>7 DEF Executed
    <2>2. \A x \in Executed(req, ip) : x \in Executed(req', ip) => req'[x] = req[x]
      BY <1>8, <1>9
    <2>3. HashFits(req, ip, h, byRedis[ip]) /\ byRedis[ip] \in [Ages -> Nat]
      BY <1>1, <1>3 DEF h
    <2>4. CASE h.left <= -c.lag
      <3>1. g = [count |-> 1, left |-> Window - c.lag]
        BY <2>4 DEF ScriptResult, g
      <3> QED  BY <1>1, <1>3, <1>4, <1>7, <1>8, <2>1, <2>2, <2>3, <2>4, <3>1, RedisOpens
    <2>5. CASE h.left > -c.lag
      <3>1. g = Plus(h)
        BY <1>4, <2>5 DEF ScriptResult, g
      <3> QED  BY <1>1, <1>3, <1>4, <1>7, <1>8, <2>1, <2>2, <2>3, <2>5, <3>1, RedisCounts
    <2> QED  BY <1>4, <2>4, <2>5
  <1>11. ASSUME NEW i \in Ips PROVE HashFits(req', i, redis'[i], byRedis'[i])
    <2>1. CASE i = ip
      BY <1>1, <1>2, <1>3, <1>10, <2>1
    <2>2. CASE i # ip
      <3>1. /\ Executed(req', i) \subseteq Executed(req, i)
            /\ \A x \in Executed(req', i) : req'[x] = req[x]
        BY <1>7, <1>9, <2>2
      <3>2. redis'[i] = redis[i] /\ redis[i] \in Buckets /\ byRedis[i] \in [Ages -> Nat]
        BY <1>1, <1>2, <2>2
      <3> QED  BY <1>1, <1>2, <1>7, <3>1, <3>2, RedisLoses
    <2> QED  BY <2>1, <2>2
  <1>12. redis' \in [Ips -> Buckets]
    BY <1>1, <1>2, <1>5
  <1> QED  BY <1>1, <1>2, <1>7, <1>11, <1>12 DEF RedisInv

(* A call that is not executed any more, or not yet, leaves Redis as it is.  *)
LEMMA CallStep ==
    ASSUME RedisInv, store # "memory", NEW r \in Requests, NEW c \in {Idle} \union Calls,
           c # Idle => c.lag <= Abort(c) /\ c.phase # "executed",
           req' = [req EXCEPT ![r] = c], redis' = redis, byRedis' = byRedis, store' = store
    PROVE  RedisInv'
  <1>1. /\ redis \in [Ips -> Buckets] /\ CallsFit(req) /\ byRedis \in [Ips -> [Ages -> Nat]]
        /\ \A i \in Ips : HashFits(req, i, redis[i], byRedis[i])
    BY DEF RedisInv
  <1>2. /\ CallsFit(req') /\ \A x \in Requests : x # r => req'[x] = req[x]
        /\ \A i : Executed(req', i) \subseteq Executed(req, i) \ {r}
    <2>0. /\ req' \in [Requests -> {Idle} \union Calls] /\ req'[r] = c
          /\ \A x \in Requests : x # r => req'[x] = req[x]
      BY <1>1 DEF CallsFit
    <2>1. /\ CallsFit(req')
          /\ \A i : /\ Executed(req', i) \subseteq Executed(req, i) \union {r}
                    /\ c = Idle \/ c.phase # "executed" \/ c.ip # i =>
                         Executed(req', i) \subseteq Executed(req, i) \ {r}
      <3>1. Moved(req, r, c, req')
        BY <2>0 DEF Moved
      <3> QED  BY ONLY <1>1, <3>1, CallsChange
    <2> QED  BY <2>0, <2>1
  <1>3. \A i : \A x \in Executed(req', i) : req'[x] = req[x]
    BY <1>2 DEF Executed
  <1>4. ASSUME NEW i \in Ips PROVE HashFits(req', i, redis[i], byRedis[i])
    <2>1. redis[i] \in Buckets /\ byRedis[i] \in [Ages -> Nat]
      BY <1>1
    <2>2. Executed(req', i) \subseteq Executed(req, i)
      BY <1>2
    <2> QED  BY <1>1, <1>2, <1>3, <2>1, <2>2, RedisLoses
  <1> QED  BY <1>1, <1>2, <1>4 DEF RedisInv

LEMMA ReplyStep ==
    ASSUME RedisInv, NEW r \in Requests, ReplyArrives(r)
    PROVE  RedisInv'
  <1> DEFINE c == req[r]
             ip == c.ip
             f == byRedis[ip]
  <1>1. /\ redis \in [Ips -> Buckets] /\ CallsFit(req) /\ byRedis \in [Ips -> [Ages -> Nat]]
        /\ \A i \in Ips : HashFits(req, i, redis[i], byRedis[i])
        /\ store # "memory"
    BY DEF RedisInv, ReplyArrives
  <1>2. /\ c # Idle /\ c.phase = "executed" /\ redis' = redis /\ store' = store
        /\ req' = [req EXCEPT ![r] = Idle]
        /\ byRedis' = IF c.bucket.count > Limit THEN byRedis ELSE OneMore(byRedis, ip)
    BY DEF ReplyArrives
  <1>3. ip \in Ips /\ c.bucket.count \in 0..MaxCount /\ f \in [Ages -> Nat]
        /\ r \in Executed(req, ip)
    <2>1. ip \in Ips /\ c.bucket.count \in 0..MaxCount
      BY <1>1, <1>2, CallsAre
    <2> QED  BY <1>1, <1>2, <2>1 DEF Executed
  <1> HIDE DEF c, f
  <1>4. /\ CallsFit(req')
        /\ \A i : /\ Executed(req', i) \subseteq Executed(req, i) \ {r}
                  /\ \A x \in Executed(req', i) : req'[x] = req[x]
    <2>1. Moved(req, r, Idle, req')
      BY <1>1, <1>2 DEF Moved, CallsFit
    <2>2. /\ CallsFit(req')
          /\ \A i : /\ Executed(req', i) \subseteq Executed(req, i) \union {r}
                    /\ Idle = Idle \/ Idle.phase # "executed" \/ Idle.ip # i =>
                         Executed(req', i) \subseteq Executed(req, i) \ {r}
      BY ONLY <1>1, <2>1, CallsChange
    <2>3. \A i : Executed(req', i) \subseteq Executed(req, i) \ {r}
      BY <2>2
    <2>4. \A i : \A x \in Executed(req', i) : req'[x] = req[x]
      BY <2>1, <2>3 DEF Moved, Executed
    <2> QED  BY <2>2, <2>3, <2>4
  <1>5. /\ byRedis' \in [Ips -> [Ages -> Nat]]
        /\ \A i \in Ips : i # ip => byRedis'[i] = byRedis[i]
        /\ \/ byRedis'[ip] = f
           \/ /\ byRedis'[ip][0] = f[0] + 1
              /\ \A a \in Ages : a # 0 => byRedis'[ip][a] = f[a]
              /\ c.bucket.count <= Limit
    <2>1. CASE c.bucket.count > Limit
      BY <1>1, <1>2, <2>1 DEF f
    <2>2. CASE ~(c.bucket.count > Limit)
      <3> DEFINE g == [f EXCEPT ![0] = f[0] + 1]
      <3>1. g \in [Ages -> Nat] /\ g[0] = f[0] + 1 /\ \A a \in Ages : a # 0 => g[a] = f[a]
        BY <1>3, Numbers
      <3>2. byRedis' = [byRedis EXCEPT ![ip] = g]
        <4>1. byRedis' = OneMore(byRedis, ip)
          BY <1>2, <2>2
        <4> QED  BY <4>1 DEF OneMore, f
      <3> HIDE DEF g
      <3>3. /\ byRedis' \in [Ips -> [Ages -> Nat]] /\ byRedis'[ip] = g
            /\ \A i \in Ips : i # ip => byRedis'[i] = byRedis[i]
        BY <1>1, <1>3, <3>1, <3>2
      <3>4. c.bucket.count <= Limit
        BY <1>3, <2>2, Numbers
      <3> QED  BY <3>1, <3>3, <3>4
    <2> QED  BY <2>1, <2>2
  <1>6. ASSUME NEW i \in Ips PROVE HashFits(req', i, redis[i], byRedis'[i])
    <2>1. /\ redis[i] \in Buckets /\ byRedis[i] \in [Ages -> Nat] /\ byRedis'[i] \in [Ages -> Nat]
          /\ HashFits(req, i, redis[i], byRedis[i])
          /\ Executed(req', i) \subseteq Executed(req, i) \ {r}
          /\ \A x \in Executed(req', i) : req'[x] = req[x]
      BY <1>1, <1>4, <1>5
    <2>2. CASE i = ip
      <3>1. /\ r \in Executed(req, i)
            /\ \/ byRedis'[i] = byRedis[i]
               \/ /\ byRedis'[i][0] = byRedis[i][0] + 1
                  /\ \A a \in Ages : a # 0 => byRedis'[i][a] = byRedis[i][a]
                  /\ req[r].bucket.count <= Limit
        BY <1>3, <1>5, <2>2 DEF f, c
      <3> QED  BY <1>1, <1>4, <2>1, <3>1, RedisReplies
    <2>3. CASE i # ip
      <3>1. byRedis'[i] = byRedis[i] /\ Executed(req', i) \subseteq Executed(req, i)
        BY <1>5, <2>1, <2>3
      <3> QED  BY <1>1, <1>4, <2>1, <3>1, RedisLoses
    <2> QED  BY <2>2, <2>3
  <1> QED  BY <1>1, <1>2, <1>4, <1>5, <1>6 DEF RedisInv

LEMMA TickStep ==
    ASSUME Inv, Tick
    PROVE  Inv'
  <1>1. /\ MapShape(map) /\ byMap \in [Ips -> [Ages -> Nat]]
        /\ \A ip \in Ips : Fits(BucketsOf(map, ip), byMap[ip])
    BY DEF Inv, MapInv
  <1>2. /\ redis \in [Ips -> Buckets] /\ CallsFit(req) /\ byRedis \in [Ips -> [Ages -> Nat]]
        /\ \A ip \in Ips : HashFits(req, ip, redis[ip], byRedis[ip])
        /\ store = "memory" =>
             (\A r \in Requests : req[r] = Idle) /\ \A ip \in Ips : byRedis[ip] = Nothing
    BY DEF Inv, RedisInv
  <1>3. /\ store \in {"memory", "redis"} /\ clock \in 0..(Second - 1)
        /\ told \in [Ips -> Int] /\ refusedAt \in 0..Limit
        /\ store = "memory" =>
             /\ refusedAt = Limit
             /\ \A ip \in Ips : \A b \in BucketsOf(map, ip) :
                  ~Expired(b) /\ b.count > Limit => Close(b.left, told[ip])
    BY DEF Inv, RefusalInv
  <1>4. /\ clock' = (clock + 1) % Second /\ store' = store /\ refusedAt' = refusedAt
        /\ map' = [i \in DOMAIN map |-> Older(map[i], 0)]
        /\ byMap' = [ip \in Ips |-> Shifted(byMap[ip])]
        /\ byRedis' = [ip \in Ips |-> Shifted(byRedis[ip])]
        /\ told' = [ip \in Ips |-> Greater(told[ip] - 1, -Second)]
    BY DEF Tick
  <1>5. InTime(req) /\ req' = AllAged(req) /\ redis' = [ip \in Ips |-> Aged(redis[ip])]
    BY DEF Tick, InTime, Abort, AllAged, AgedCall, Aged
  <1>6. /\ MapShape(map')
        /\ \A ip : \A c \in BucketsOf(map', ip) : \E b \in BucketsOf(map, ip) : c = Older(b, 0)
        /\ \A ip : \A b \in BucketsOf(map, ip) : Older(b, 0) \in BucketsOf(map', ip)
    BY <1>1, <1>4, MapAges
  <1>7. \A ip : \A b \in BucketsOf(map, ip) : b \in Entries
    BY <1>1, BucketsAre
  <1>8. MapInv'
    <2>1. ASSUME NEW ip \in Ips
          PROVE  byMap'[ip] \in [Ages -> Nat] /\ Fits(BucketsOf(map', ip), byMap'[ip])
      <3>1. /\ byMap[ip] \in [Ages -> Nat] /\ Fits(BucketsOf(map, ip), byMap[ip])
            /\ byMap'[ip] = Shifted(byMap[ip])
        BY <1>1, <1>4
      <3>2. Fits(BucketsOf(map', ip), Shifted(byMap[ip]))
        BY <1>6, <1>7, <3>1, FitsAges
      <3>3. Shifted(byMap[ip]) \in [Ages -> Nat]
        BY <3>1, WithinShifted
      <3> QED  BY <3>1, <3>2, <3>3
    <2>2. byMap' \in [Ips -> [Ages -> Nat]]
      BY <1>4, <2>1
    <2> QED  BY <1>6, <2>1, <2>2 DEF MapInv
  <1>9. RefusalInv'
    <2>1. clock' \in 0..(Second - 1)
      BY <1>3, <1>4, Numbers
    <2>2. told' \in [Ips -> Int]
      BY <1>3, <1>4, Numbers DEF Greater
    <2>3. ASSUME store = "memory", NEW ip \in Ips, NEW c \in BucketsOf(map', ip),
                 ~Expired(c), c.count > Limit
          PROVE  Close(c.left, told'[ip])
      <3>1. PICK b \in BucketsOf(map, ip) : c = Older(b, 0)
        BY <1>6
      <3>2. /\ b \in Entries /\ ~Expired(b) /\ c.left = b.left - 1 /\ b.count > Limit
            /\ c \in Entries
        BY <1>7, <2>3, <3>1, EntryAges
      <3>3. Close(b.left, told[ip]) /\ told[ip] \in Int
        BY <1>3, <2>3, <3>2
      <3>4. told'[ip] = Greater(told[ip] - 1, -Second)
        BY <1>4
      <3> DEFINE x == b.left
                 w == told[ip]
      <3>5. x - 1 > 0 /\ x \in Int /\ c.left = x - 1
        BY <2>3, <3>2, Numbers DEF Entries, Expired
      <3>6. w \in Int /\ x < w + Second /\ w <= x + Second
        BY <3>3 DEF Close
      <3> HIDE DEF x, w
      <3>7. x - 1 < Greater(w - 1, -Second) + Second /\ Greater(w - 1, -Second) <= (x - 1) + Second
        BY <3>5, <3>6, Numbers DEF Greater
      <3> QED  BY <3>4, <3>5, <3>7 DEF Close, w
    <2> QED  BY <1>3, <1>4, <2>1, <2>2, <2>3 DEF RefusalInv
  <1>10. RedisInv'
    <2>1. CallsFit(req')
      BY <1>2, <1>5, CallsAge
    <2>2. ASSUME NEW ip \in Ips
          PROVE  /\ redis'[ip] \in Buckets /\ byRedis'[ip] \in [Ages -> Nat]
                 /\ HashFits(req', ip, redis'[ip], byRedis'[ip])
      <3>1. /\ redis[ip] \in Buckets /\ byRedis[ip] \in [Ages -> Nat]
            /\ HashFits(req, ip, redis[ip], byRedis[ip])
            /\ redis'[ip] = Aged(redis[ip]) /\ byRedis'[ip] = Shifted(byRedis[ip])
        BY <1>2, <1>4, <1>5
      <3>2. Shifted(byRedis[ip]) \in [Ages -> Nat]
        BY <3>1, WithinShifted
      <3>3. /\ Aged(redis[ip]) \in Buckets
            /\ HashFits(req', ip, Aged(redis[ip]), Shifted(byRedis[ip]))
        BY <1>2, <1>5, <3>1, RedisAges
      <3> QED  BY <3>1, <3>2, <3>3
    <2>3. redis' \in [Ips -> Buckets] /\ byRedis' \in [Ips -> [Ages -> Nat]]
      BY <1>4, <1>5, <2>2
    <2>4. ASSUME store = "memory"
          PROVE  (\A r \in Requests : req'[r] = Idle) /\ \A ip \in Ips : byRedis'[ip] = Nothing
      <3>1. \A r \in Requests : req'[r] = Idle
        BY <1>2, <1>5, <2>4 DEF AllAged, AgedCall
      <3>2. Shifted(Nothing) = Nothing
        <4>1. \A a \in Ages : a # 0 => a - 1 \in Ages
          BY Numbers
        <4>2. \A a \in Ages : (IF a = 0 THEN 0 ELSE Nothing[a - 1]) = 0
          BY <4>1 DEF Nothing
        <4> QED  BY <4>2 DEF Shifted, Nothing
      <3> QED  BY <1>2, <1>4, <2>4, <3>1, <3>2
    <2> QED  BY <1>4, <2>1, <2>2, <2>3, <2>4 DEF RedisInv
  <1> QED  BY <1>8, <1>9, <1>10 DEF Inv

LEMMA SweepStep ==
    ASSUME Inv, Sweep
    PROVE  Inv'
  <1> DEFINE K == {b \in ToSet(map) : ~Expired(b)}
             m == Kept(map, K)
  <1>1. /\ MapShape(map) /\ byMap \in [Ips -> [Ages -> Nat]]
        /\ \A ip \in Ips : Fits(BucketsOf(map, ip), byMap[ip])
    BY DEF Inv, MapInv
  <1>2. /\ map' = m /\ store' = store /\ redis' = redis /\ req' = req /\ clock' = clock
        /\ byMap' = byMap /\ byRedis' = byRedis /\ told' = told /\ refusedAt' = refusedAt
    BY DEF Sweep, answers
  <1>3. MapShape(m) /\ \A ip : BucketsOf(m, ip) = BucketsOf(map, ip) \intersect K
    BY <1>1, KeptBuckets
  <1>4. \A ip : \A b \in BucketsOf(map, ip) : b \in BucketsOf(m, ip) \/ Expired(b)
    BY <1>3 DEF BucketsOf
  <1>5. \A ip : \A b \in BucketsOf(m, ip) : b \in BucketsOf(map, ip)
    BY <1>3
  <1> HIDE DEF m
  <1>6. \A ip \in Ips : Fits(BucketsOf(m, ip), byMap[ip])
    BY <1>1, <1>4, <1>5 DEF Fits
  <1>7. MapInv'
    BY <1>1, <1>2, <1>3, <1>6 DEF MapInv
  <1>8. RefusalInv'
    BY <1>2, <1>5 DEF Inv, RefusalInv
  <1>9. RedisInv'
    BY <1>2 DEF Inv, RedisInv
  <1> QED  BY <1>7, <1>8, <1>9 DEF Inv

LEMMA StepInv == Inv /\ [Next]_vars => Inv'
  <1> SUFFICES ASSUME Inv, [Next]_vars PROVE Inv'
    OBVIOUS
  <1>0. MapInv /\ RefusalInv /\ RedisInv
    BY DEF Inv
  <1>1. ASSUME NEW ip \in Ips, ReadInMemory(ip) PROVE Inv'
    <2>1. /\ DecidedByMap(ip) /\ store' = store /\ redis' = redis /\ req' = req
          /\ clock' = clock /\ byRedis' = byRedis
      BY <1>1 DEF ReadInMemory, DecidedByMap
    <2>2. byRedis \in [Ips -> [Ages -> Nat]]
      BY <1>0 DEF RedisInv
    <2>3. MapInv' /\ RefusalInv'
      BY <1>0, <2>1, <2>2, DecideStep
    <2>4. RedisInv'
      BY <1>0, <2>1 DEF RedisInv
    <2> QED  BY <2>3, <2>4 DEF Inv
  <1>2. ASSUME NEW ip \in Ips, NEW r \in Requests, Send(r, ip) PROVE Inv'
    <2> DEFINE c == [phase |-> "sent", ip |-> ip, lag |-> 0, bucket |-> NoBucket]
    <2>1. /\ req' = [req EXCEPT ![r] = c] /\ store # "memory" /\ store' = store /\ map' = map
          /\ redis' = redis /\ clock' = clock /\ byMap' = byMap /\ byRedis' = byRedis
          /\ told' = told /\ refusedAt' = refusedAt
      BY <1>2 DEF Send, answers
    <2>2. c \in Calls /\ c.lag <= Abort(c) /\ c.phase # "executed"
      <3>1. NoBucket \in Buckets /\ 0 \in 0..Delay /\ 0 <= Timeout
        <4>1. -Delay \in (-Delay)..Window /\ 0 \in 0..MaxCount /\ 0 \in 0..Delay /\ 0 <= Timeout
          BY Numbers
        <4> QED  BY <4>1 DEF NoBucket, Buckets, Left
      <3> QED  BY <3>1, Numbers DEF Calls, Abort
    <2> HIDE DEF c
    <2>3. RedisInv'
      BY <1>0, <2>1, <2>2, CallStep
    <2>4. MapInv' /\ RefusalInv'
      BY <1>0, <2>1 DEF MapInv, RefusalInv
    <2> QED  BY <2>3, <2>4 DEF Inv
  <1>3. ASSUME NEW r \in Requests, Execute(r) PROVE Inv'
    <2>1. RedisInv'
      BY <1>0, <1>3, ExecuteStep
    <2>2. /\ store' = store /\ map' = map /\ clock' = clock /\ byMap' = byMap
          /\ told' = told /\ refusedAt' = refusedAt
      BY <1>3 DEF Execute, answers
    <2>3. MapInv' /\ RefusalInv'
      BY <1>0, <2>2 DEF MapInv, RefusalInv
    <2> QED  BY <2>1, <2>3 DEF Inv
  <1>4. ASSUME NEW r \in Requests, ReplyArrives(r) PROVE Inv'
    <2>1. RedisInv'
      BY <1>0, <1>4, ReplyStep
    <2>2. /\ store' = store /\ map' = map /\ clock' = clock /\ byMap' = byMap
          /\ told' = told /\ refusedAt' = refusedAt
      BY <1>4 DEF ReplyArrives
    <2>3. MapInv' /\ RefusalInv'
      BY <1>0, <2>2 DEF MapInv, RefusalInv
    <2> QED  BY <2>1, <2>3 DEF Inv
  <1>5. ASSUME NEW r \in Requests, FallBack(r) PROVE Inv'
    <2> DEFINE c == req[r]
               d == IF c.phase = "sent" THEN [c EXCEPT !.phase = "abandoned"] ELSE Idle
    <2>1. /\ c # Idle /\ c.phase \in {"sent", "executed"} /\ DecidedByMap(c.ip)
          /\ req' = [req EXCEPT ![r] = d] /\ store' = store /\ redis' = redis
          /\ clock' = clock /\ byRedis' = byRedis
      BY <1>5 DEF FallBack, DecidedByMap
    <2>2. /\ CallsFit(req) /\ byRedis \in [Ips -> [Ages -> Nat]] /\ store # "memory"
      BY <1>0, <2>1 DEF RedisInv
    <2>3. c \in Calls /\ c.ip \in Ips /\ c.lag \in 0..Delay
      BY <2>1, <2>2, CallsAre
    <2>4. MapInv' /\ RefusalInv'
      BY <1>0, <2>1, <2>2, <2>3, DecideStep
    <2>5. d \in {Idle} \union Calls /\ (d # Idle => d.lag <= Abort(d) /\ d.phase # "executed")
      <3>1. CASE c.phase = "sent"
        <4> DEFINE e == [c EXCEPT !.phase = "abandoned"]
        <4>1. e \in Calls /\ e.phase = "abandoned" /\ e.lag = c.lag
          <5> HIDE DEF c
          <5> QED  BY <2>3 DEF Calls
        <4>2. d = e /\ Abort(e) = Delay /\ c.lag <= Delay
          BY <2>3, <3>1, <4>1, Numbers DEF Abort
        <4> QED  BY <4>1, <4>2
      <3>2. CASE c.phase # "sent"
        BY <3>2
      <3> QED  BY <3>1, <3>2
    <2> HIDE DEF c, d
    <2>6. RedisInv'
      BY <1>0, <2>1, <2>2, <2>5, CallStep
    <2> QED  BY <2>4, <2>6 DEF Inv
  <1>6. ASSUME NEW r \in Requests, Lost(r) PROVE Inv'
    <2>1. /\ req[r] # Idle /\ req' = [req EXCEPT ![r] = Idle] /\ store' = store /\ map' = map
          /\ redis' = redis /\ clock' = clock /\ byMap' = byMap /\ byRedis' = byRedis
          /\ told' = told /\ refusedAt' = refusedAt
      BY <1>6 DEF Lost, answers
    <2>2. store # "memory"
      BY <1>0, <2>1 DEF RedisInv
    <2>3. RedisInv'
      BY <1>0, <2>1, <2>2, CallStep
    <2>4. MapInv' /\ RefusalInv'
      BY <1>0, <2>1 DEF MapInv, RefusalInv
    <2> QED  BY <2>3, <2>4 DEF Inv
  <1>7. CASE Sweep
    BY <1>7, SweepStep
  <1>8. CASE Tick
    BY <1>8, TickStep
  <1>9. CASE UNCHANGED vars
    <2>1. /\ store' = store /\ map' = map /\ redis' = redis /\ req' = req /\ clock' = clock
          /\ byMap' = byMap /\ byRedis' = byRedis /\ told' = told /\ refusedAt' = refusedAt
      BY <1>9 DEF vars
    <2>2. MapInv' /\ RefusalInv'
      BY <1>0, <2>1 DEF MapInv, RefusalInv
    <2>3. RedisInv'
      BY <1>0, <2>1 DEF RedisInv
    <2> QED  BY <2>2, <2>3 DEF Inv
  <1> QED  BY <1>1, <1>2, <1>3, <1>4, <1>5, <1>6, <1>7, <1>8, <1>9 DEF Next

LEMMA AlwaysInv == Spec => []Inv
  BY InitInv, StepInv, PTL DEF Spec
----------------------------------------------------------------------------
LEMMA MapLetsThrough ==
    ASSUME MapInv, NEW ip \in Ips
    PROVE  /\ SumFunctionOnSet(byMap[ip], Ages) \in Nat
           /\ SumFunctionOnSet(byMap[ip], Ages) <= 2 * Limit - 1
  <1>1. /\ MapShape(map) /\ byMap[ip] \in [Ages -> Nat]
        /\ Fits(BucketsOf(map, ip), byMap[ip])
    BY DEF MapInv
  <1>2. PICK b \in Entries : Closed(byMap[ip]) \/ Opened(byMap[ip], b)
    <2>1. CASE \A b \in BucketsOf(map, ip) : Expired(b)
      <3>1. Closed(byMap[ip])
        BY <1>1, <2>1 DEF Fits
      <3>2. Plus(Fresh(ip)) \in Entries
        BY FreshIs
      <3> QED  BY <3>1, <3>2
    <2>2. CASE ~\A b \in BucketsOf(map, ip) : Expired(b)
      <3>1. PICK b \in BucketsOf(map, ip) : ~Expired(b)
        BY <2>2
      <3> QED  BY <1>1, <3>1, BucketsAre DEF Fits
    <2> QED  BY <2>1, <2>2
  <1>3. Within(byMap[ip], Window) <= 2 * Limit - 1
    BY <1>1, <1>2, MapBurst
  <1>4. Window \in 0..Window
    BY Numbers
  <1>5. /\ Within(byMap[ip], Window) = SumFunctionOnSet(byMap[ip], Ages)
        /\ Within(byMap[ip], Window) \in Nat
    BY <1>1, <1>4, WithinIs
  <1> QED  BY <1>3, <1>5

LEMMA RedisLetsThrough ==
    ASSUME RedisInv, NEW ip \in Ips
    PROVE  /\ SumFunctionOnSet(byRedis[ip], Ages) \in Nat
           /\ SumFunctionOnSet(byRedis[ip], Ages) <= 3 * Limit - 1
           /\ store = "memory" => SumFunctionOnSet(byRedis[ip], Ages) = 0
  <1> DEFINE f == byRedis[ip]
             h == redis[ip]
  <1>1. /\ h \in Buckets /\ f \in [Ages -> Nat] /\ HashFits(req, ip, h, f)
        /\ store = "memory" => f = Nothing
    BY DEF RedisInv
  <1> HIDE DEF f, h
  <1>2. h.left \in Int /\ h.left <= Window /\ Used(h) \in Nat /\ Used(h) <= Limit
    BY <1>1, UsedIs, Numbers DEF HashFits
  <1>3. Within(f, Window) + Cardinality(Passing(req, ip)) < Used(h) + 2 * Limit
    <2>1. Window \in 0..Window /\ 2 \in 0..2
      BY Numbers
    <2>2. Window - (Window - h.left) + Timeout + Delay < 2 * Window
      BY <1>2, Numbers
    <2> QED  BY <1>1, <2>1, <2>2 DEF HashFits, WindowsFit
  <1>4. Cardinality(Passing(req, ip)) \in Nat
    <2>1. Passing(req, ip) \subseteq Requests
      BY DEF Passing, Executed
    <2> QED  BY <2>1, SetsOfRequests
  <1>5. Window \in 0..Window
    BY Numbers
  <1>6. Within(f, Window) = SumFunctionOnSet(f, Ages) /\ Within(f, Window) \in Nat
    BY <1>1, <1>5, WithinIs
  <1>7. Within(f, Window) <= 3 * Limit - 1
    BY <1>2, <1>3, <1>4, <1>6, Numbers
  <1>8. store = "memory" => Within(f, Window) = 0
    BY <1>1, <1>5, WithinNothing
  <1> QED  BY <1>6, <1>7, <1>8 DEF f

(* incrementRateBucket of either store lets an IP through at most 2 * Limit  *)
(* - 1 times in a Window from memory; the script of Redis, executed late or  *)
(* given up, at most 3 * Limit - 1 times and its fallback 2 * Limit - 1: with*)
(* any number of requests under way, buckets, evictions and sweeps.          *)
THEOREM RateIsBounded == Spec => []RateBounded
  <1>1. Inv => RateBounded
    <2> SUFFICES ASSUME Inv, NEW ip \in Ips PROVE LetThrough(ip) <= Burst
      BY DEF RateBounded
    <2> DEFINE x == SumFunctionOnSet(byMap[ip], Ages)
               y == SumFunctionOnSet(byRedis[ip], Ages)
    <2>1. x \in Nat /\ x <= 2 * Limit - 1
      BY MapLetsThrough DEF Inv
    <2>2. y \in Nat /\ y <= 3 * Limit - 1 /\ (store = "memory" => y = 0)
      BY RedisLetsThrough DEF Inv
    <2>3. LetThrough(ip) = x + y
      BY DEF LetThrough
    <2> HIDE DEF x, y
    <2>4. CASE store = "memory"
      BY <2>1, <2>2, <2>3, <2>4, Numbers DEF Burst
    <2>5. CASE store # "memory"
      BY <2>1, <2>2, <2>3, <2>5, Numbers DEF Burst
    <2> QED  BY <2>4, <2>5
  <1> QED  BY <1>1, AlwaysInv, PTL

(* readRateLimit on the in-memory store refuses only an IP that was let      *)
(* through Limit times in the last Window.                                   *)
THEOREM RefusalsAreDeserved == Spec => []RefusalDeserved
  <1>1. Inv => RefusalDeserved
    BY DEF Inv, RefusalInv, RefusalDeserved
  <1> QED  BY <1>1, AlwaysInv, PTL

(* The Retry-After header of readRateLimit is less than a second away from   *)
(* the end of the window, and stays so while the client waits.               *)
THEOREM RetryAfterIsClose == Spec => []RetryAfterClose
  <1>1. Inv => RetryAfterClose
    <2> SUFFICES ASSUME Inv, store = "memory", NEW i \in DOMAIN map, map[i].count > Limit,
                        ~Expired(map[i])
                 PROVE  Close(map[i].left, told[map[i].ip])
      BY DEF RetryAfterClose, Close
    <2>1. map[i] \in Entries /\ map[i] \in BucketsOf(map, map[i].ip)
      BY BucketsAre DEF Inv, MapInv
    <2>2. map[i].ip \in Ips
      BY <2>1 DEF Entries
    <2> QED  BY <2>1, <2>2 DEF Inv, RefusalInv
  <1> QED  BY <1>1, AlwaysInv, PTL

(* readBuckets has one bucket for an IP and never more than                  *)
(* MAX_RATE_LIMIT_ENTRIES; counts, resetAt and the calls are in range.       *)
THEOREM TypeCorrect == Spec => []TypeOK
  <1>1. Inv => TypeOK
    BY DEF Inv, MapInv, MapShape, RefusalInv, RedisInv, CallsFit, TypeOK
  <1> QED  BY <1>1, AlwaysInv, PTL
=============================================================================
