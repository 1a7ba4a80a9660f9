--------------------------- MODULE RateLimitProofs ---------------------------
(***************************************************************************)
(* The command rate limit, for any limit, window, clocks and delays: the   *)
(* counters expire, a refused caller has used its limit up, and how many   *)
(* requests of a credential are allowed within the length of a window.     *)
(***************************************************************************)
EXTENDS RateLimit, TLAPS, FiniteSetTheorems, WellFoundedInduction

\* The provers of a leaf that names none, in the order they are tried.
USE SMTT(20), Z3T(20), SMTT(60), Z3T(60), ZenonT(60)

\* The clock of a runtime had reached window w, n ticks ago.
Start(w) == w * Window
Reached(w, n) == \E r \in Runtime : Start(w) + n <= now + skew[r]

\* A call on its way has its key from a clock that was in the key's window.
SentInv ==
  \A key \in Key, age \in 0..MaxDelay :
    sent[<<key, age>>] > 0 =>
      age <= delay /\ Reached(key[2], age) /\ now < Start(key[2]) + Window + age

\* taken counts the places of the last n ticks; none was given after the key's
\* window and the longest delay.
Monotone(key) ==
  /\ taken[key][0] = 0
  /\ \A i, j \in 0..Window : i <= j => taken[key][i] <= taken[key][j]
Recent(key) ==
  \A n \in 1..Window :
    taken[key][n] > 0 => now + 1 < Start(key[2]) + Window + delay + n

\* Without a counter the places of the last window are an expired counter's, and
\* the one given when that was made is older.
NoCounter(key) ==
  counter[key] = None =>
    /\ taken[key][1] = 0 /\ taken[key][Window] < Limit
    /\ taken[key][Window] > 0 => Reached(key[2], Window)

\* A counter of a given age gave its places since it was made; any earlier ones
\* are of one that had been made a window before it.
Current(key) ==
  counter[key] # None =>
    LET age == Window - counter[key].ttl
        own == taken[key][age + 1]
    IN  /\ own > taken[key][age]
        /\ own = IF WithinLimit(counter[key].count) THEN counter[key].count ELSE Limit
        /\ taken[key][Window] < own + Limit
        /\ Reached(key[2], age)
        /\ taken[key][Window] > own => Reached(key[2], Window + age)

KeyInv(key) == Monotone(key) /\ Recent(key) /\ NoCounter(key) /\ Current(key)

RateInv == TypeOK /\ SentInv /\ \A key \in Key : KeyInv(key)
-----------------------------------------------------------------------------
\* The window's number as Allow computes it, by an integer division.
LEMMA WindowOf ==
  ASSUME NEW x \in Nat
  PROVE  /\ x \div Window \in Nat
         /\ Start(x \div Window) <= x /\ x < Start(x \div Window) + Window
  BY RateLimitAssumption DEF Start

\* A later clock does not show an earlier window.
LEMMA WindowMonotone ==
  ASSUME NEW x \in Nat, NEW y \in Nat, x <= y
  PROVE  x \div Window <= y \div Window
  BY RateLimitAssumption

\* Windows follow each other.
LEMMA StartOfLater ==
  ASSUME NEW v \in Nat, NEW w \in Nat, v < w
  PROVE  Start(v) \in Nat /\ Start(w) \in Nat /\ Start(v) + Window <= Start(w)
  BY RateLimitAssumption DEF Start

\* The components of a key.
LEMMA KeyParts ==
  /\ WindowID \subseteq Nat
  /\ \A key \in Key : /\ key[1] \in Credential /\ key[2] \in WindowID
                      /\ Start(key[2]) \in Nat /\ key = <<key[1], key[2]>>
<1>1. (MaxTime + MaxSkew) \div Window \in Nat
  BY RateLimitAssumption, WindowOf
<1>2. WindowID \subseteq Nat
  BY <1>1 DEF WindowID
<1>3. ASSUME NEW w \in Nat PROVE Start(w) \in Nat
  BY RateLimitAssumption DEF Start
<1>4. ASSUME NEW key \in Key
      PROVE  key[1] \in Credential /\ key[2] \in WindowID /\ key = <<key[1], key[2]>>
  BY <1>4 DEF Key
<1> QED  BY <1>2, <1>3, <1>4, Zenon

\* A clock never shows a window that has no key.
LEMMA ClockWindow ==
  ASSUME TypeOK, NEW r \in Runtime, NEW k \in Credential
  PROVE  <<k, (now + skew[r]) \div Window>> \in Key
<1>1. now + skew[r] \in Nat /\ now + skew[r] <= MaxTime + MaxSkew
  BY RateLimitAssumption DEF TypeOK
<1>2. MaxTime + MaxSkew \in Nat
  BY RateLimitAssumption
<1>3. (now + skew[r]) \div Window \in Nat /\ (MaxTime + MaxSkew) \div Window \in Nat
  BY <1>1, <1>2, WindowOf
<1>4. (now + skew[r]) \div Window <= (MaxTime + MaxSkew) \div Window
  BY <1>1, <1>2, WindowMonotone
<1> QED  BY <1>3, <1>4 DEF Key, WindowID

\* INCR and PEXPIRE: a counter is made with a whole window to live, and is only
\* counted up afterwards.
LEMMA ScriptResult ==
  ASSUME NEW old \in Counter \cup {None}
  PROVE  LET new == CommandRateScript(old)
         IN  /\ new \in Counter /\ new # None
             /\ old = None => new.count = 1 /\ new.ttl = Window
             /\ old # None => new.count = old.count + 1 /\ new.ttl = old.ttl
  BY RateLimitAssumption, NoCounterAssumption DEF CommandRateScript, Counter

\* Redis counts a key's time to live down and drops the key at its end.
After(old) == IF old = None \/ old.ttl = 1 THEN None ELSE [old EXCEPT !.ttl = @ - 1]
LEMMA AfterResult ==
  ASSUME NEW old \in Counter \cup {None}
  PROVE  /\ After(old) \in Counter \cup {None}
         /\ After(old) # None => /\ old # None /\ old.ttl \in 2..Window
                                 /\ After(old).ttl = old.ttl - 1
                                 /\ After(old).count = old.count
         /\ After(old) = None => old = None \/ old.ttl = 1
  BY RateLimitAssumption, NoCounterAssumption DEF After, Counter

\* What a run of the script does: it counts, and gives a place away if the count
\* is within the limit.
LEMMA RunEffect ==
  ASSUME TypeOK, NEW key \in Key, NEW age \in 0..MaxDelay, NEW again \in BOOLEAN,
         RunScript(key, age, again)
  PROVE  /\ counter[key] \in Counter \cup {None}
         /\ counter'[key] = CommandRateScript(counter[key])
         /\ \A d \in Key \ {key} : counter'[d] = counter[d] /\ taken'[d] = taken[d]
         /\ WithinLimit(counter'[key].count) =>
              /\ taken'[key][0] = 0
              /\ \A n \in 1..Window : taken'[key][n] = taken[key][n] + 1
         /\ ~WithinLimit(counter'[key].count) => taken'[key] = taken[key]
         /\ \A d \in Key, a \in 0..MaxDelay : sent'[<<d, a>>] > 0 => sent[<<d, a>>] > 0
         /\ now' = now /\ skew' = skew /\ delay' = delay
         /\ TypeOK'
<1> USE RateLimitAssumption
<1> DEFINE new == CommandRateScript(counter[key])
           more == [n \in 0..Window |-> IF n = 0 THEN 0 ELSE taken[key][n] + 1]
<1>1. /\ counter \in [Key -> Counter \cup {None}] /\ counter[key] \in Counter \cup {None}
      /\ taken \in [Key -> [0..Window -> Nat]] /\ taken[key] \in [0..Window -> Nat]
      /\ sent \in [Key \X (0..MaxDelay) -> Nat]
  BY DEF TypeOK
<1>2. new \in Counter
  BY <1>1, ScriptResult
<1>3. /\ counter' = [counter EXCEPT ![key] = new]
      /\ taken' = IF WithinLimit(counter'[key].count) THEN [taken EXCEPT ![key] = more]
                  ELSE taken
      /\ sent' = IF again THEN sent ELSE [sent EXCEPT ![<<key, age>>] = @ - 1]
      /\ sent[<<key, age>>] > 0
      /\ calls' = IF again THEN calls + 1 ELSE calls
      /\ again => calls < MaxCalls
      /\ now' = now /\ skew' = skew /\ delay' = delay
  BY DEF RunScript
<1>4. more \in [0..Window -> Nat] /\ more[0] = 0 /\ \A n \in 1..Window : more[n] = taken[key][n] + 1
  BY <1>1
<1> HIDE DEF new, more
<1>5. counter'[key] = new /\ \A d \in Key \ {key} : counter'[d] = counter[d]
  BY <1>1, <1>3
<1>6. counter' \in [Key -> Counter \cup {None}]
  BY <1>1, <1>2, <1>3
<1>7. taken' \in [Key -> [0..Window -> Nat]] /\ \A d \in Key \ {key} : taken'[d] = taken[d]
  BY <1>1, <1>3, <1>4, Zenon
<1>8. /\ WithinLimit(counter'[key].count) => taken'[key] = more
      /\ ~WithinLimit(counter'[key].count) => taken'[key] = taken[key]
  BY <1>1, <1>3
<1>9. sent' \in [Key \X (0..MaxDelay) -> Nat]
      /\ \A c \in Key \X (0..MaxDelay) : sent'[c] <= sent[c] /\ sent'[c] \in Nat /\ sent[c] \in Nat
  <2> DEFINE c == <<key, age>>
             Calls == Key \X (0..MaxDelay)
  <2>1. c \in Calls /\ sent \in [Calls -> Nat]
    BY <1>1
  <2>2. sent' = sent \/ (sent' = [sent EXCEPT ![c] = @ - 1] /\ sent[c] > 0)
    BY <1>3
  <2> HIDE DEF c, Calls
  <2>3. sent' \in [Calls -> Nat] /\ \A d \in Calls : sent'[d] <= sent[d]
    BY <2>1, <2>2
  <2> QED  BY <2>1, <2>3, Zenon DEF Calls
<1>10. \A d \in Key, a \in 0..MaxDelay : sent'[<<d, a>>] > 0 => sent[<<d, a>>] > 0
  <2>1. ASSUME NEW d \in Key, NEW a \in 0..MaxDelay PROVE <<d, a>> \in Key \X (0..MaxDelay)
    OBVIOUS
  <2> QED  BY <1>9, <2>1
<1>11. calls' \in 0..MaxCalls
  BY <1>3 DEF TypeOK
<1>12. TypeOK'
  BY <1>3, <1>6, <1>7, <1>9, <1>11, Zenon DEF TypeOK
<1> QED  BY <1>1, <1>3, <1>4, <1>5, <1>7, <1>8, <1>10, <1>12, Zenon DEF new

\* What a tick does.
LEMMA TickEffect ==
  ASSUME TypeOK, Tick
  PROVE  /\ \A key \in Key : /\ counter[key] \in Counter \cup {None}
                             /\ counter'[key] = After(counter[key])
                             /\ taken'[key][0] = 0 /\ taken'[key][1] = 0
                             /\ \A n \in 2..Window : taken'[key][n] = taken[key][n - 1]
         /\ \A key \in Key, a \in 0..MaxDelay :
              sent'[<<key, a>>] > 0 => a # 0 /\ a - 1 # delay /\ sent[<<key, a - 1>>] > 0
         /\ now' = now + 1 /\ skew' = skew /\ delay' = delay
         /\ TypeOK'
<1> USE RateLimitAssumption
<1>1. /\ counter' = [key \in Key |-> After(counter[key])]
      /\ taken' = [key \in Key |-> [n \in 0..Window |-> IF n < 2 THEN 0 ELSE taken[key][n - 1]]]
      /\ sent' = [c \in DOMAIN sent |-> IF c[2] = 0 THEN 0 ELSE sent[<<c[1], c[2] - 1>>]]
      /\ now < MaxTime /\ now' = now + 1 /\ skew' = skew /\ delay' = delay /\ calls' = calls
      /\ \A key \in Key : sent[<<key, delay>>] = 0
  BY DEF Tick, After
<1>2. /\ counter \in [Key -> Counter \cup {None}] /\ taken \in [Key -> [0..Window -> Nat]]
      /\ sent \in [Key \X (0..MaxDelay) -> Nat] /\ now \in Nat
  BY DEF TypeOK
<1>3. ASSUME NEW key \in Key
      PROVE  /\ counter[key] \in Counter \cup {None} /\ counter'[key] = After(counter[key])
             /\ After(counter[key]) \in Counter \cup {None}
  BY <1>1, <1>2, AfterResult
<1>4. counter' \in [Key -> Counter \cup {None}]
  BY <1>1, <1>3
<1>5. ASSUME NEW key \in Key
      PROVE  /\ taken'[key] = [n \in 0..Window |-> IF n < 2 THEN 0 ELSE taken[key][n - 1]]
             /\ taken[key] \in [0..Window -> Nat]
  BY <1>1, <1>2
<1>6. ASSUME NEW key \in Key
      PROVE  /\ taken'[key] \in [0..Window -> Nat]
             /\ taken'[key][0] = 0 /\ taken'[key][1] = 0
             /\ \A n \in 2..Window : taken'[key][n] = taken[key][n - 1]
  <2> DEFINE t == taken[key]
             Shifted(n) == IF n < 2 THEN 0 ELSE t[n - 1]
  <2>1. ASSUME NEW n \in 0..Window PROVE Shifted(n) \in Nat
    <3>1. t \in [0..Window -> Nat]
      BY <1>5, Zenon
    <3> HIDE DEF t
    <3> QED  BY <2>1, <3>1
  <2>2. taken'[key] = [n \in 0..Window |-> Shifted(n)]
    BY <1>5, Zenon
  <2>3. ASSUME NEW n \in 0..Window PROVE taken'[key][n] = Shifted(n)
    BY <2>2, <2>3, Zenon
  <2>4. taken'[key] \in [0..Window -> Nat]
    BY <2>1, <2>2, Zenon
  <2>5. Shifted(0) = 0 /\ Shifted(1) = 0 /\ \A n \in 2..Window : Shifted(n) = t[n - 1]
    <3> HIDE DEF t
    <3> QED  OBVIOUS
  <2>6. 0 \in 0..Window /\ 1 \in 0..Window /\ \A n \in 2..Window : n \in 0..Window
    OBVIOUS
  <2>7. taken'[key][0] = 0 /\ taken'[key][1] = 0
    <3>1. taken'[key][0] = Shifted(0) /\ taken'[key][1] = Shifted(1)
      BY <2>3, <2>6, Zenon
    <3> QED  BY <2>5, <3>1, Zenon
  <2>8. ASSUME NEW n \in 2..Window PROVE taken'[key][n] = taken[key][n - 1]
    <3>1. taken'[key][n] = Shifted(n)
      BY <2>3, <2>6, Zenon
    <3>2. Shifted(n) = t[n - 1]
      BY <2>5, Zenon
    <3> QED  BY <3>1, <3>2, Zenon
  <2> HIDE DEF Shifted, t
  <2> QED  BY <2>4, <2>7, <2>8, Zenon
<1>7. taken' \in [Key -> [0..Window -> Nat]]
  BY <1>1, <1>6, Zenon
<1>8. ASSUME NEW key \in Key, NEW a \in 0..MaxDelay
      PROVE  /\ <<key, a>> \in Key \X (0..MaxDelay)
             /\ sent'[<<key, a>>] = IF a = 0 THEN 0 ELSE sent[<<key, a - 1>>]
  BY <1>1, <1>2, Zenon
<1>9. ASSUME NEW key \in Key, NEW a \in 0..MaxDelay
      PROVE  sent'[<<key, a>>] > 0 => a # 0 /\ a - 1 # delay /\ sent[<<key, a - 1>>] > 0
  <2>1. CASE a = 0
    <3>1. sent'[<<key, a>>] = 0
      BY <1>8, <2>1, Zenon
    <3> QED  BY <3>1
  <2>2. CASE a # 0
    <3>1. sent'[<<key, a>>] = sent[<<key, a - 1>>]
      BY <1>8, <2>2, Zenon
    <3>2. sent[<<key, delay>>] = 0
      BY <1>1, Zenon
    <3>3. a - 1 = delay => sent[<<key, a - 1>>] = 0
      BY <3>2, Zenon
    <3> QED  BY <2>2, <3>1, <3>3
  <2> QED  BY <2>1, <2>2, Zenon
<1>10. sent' \in [Key \X (0..MaxDelay) -> Nat]
  <2>1. ASSUME NEW c \in Key \X (0..MaxDelay)
        PROVE  (IF c[2] = 0 THEN 0 ELSE sent[<<c[1], c[2] - 1>>]) \in Nat
    <3>1. c[1] \in Key /\ c[2] \in 0..MaxDelay
      OBVIOUS
    <3>2. CASE c[2] # 0
      <4>1. <<c[1], c[2] - 1>> \in Key \X (0..MaxDelay)
        BY <3>1, <3>2
      <4> QED  BY <1>2, <3>2, <4>1
    <3> QED  BY <3>2
  <2> QED  BY <1>1, <1>2, <2>1
<1>11. TypeOK'
  BY <1>1, <1>2, <1>4, <1>7, <1>10 DEF TypeOK
<1> QED  BY <1>1, <1>3, <1>6, <1>9, <1>11, Zenon

-----------------------------------------------------------------------------
\* What is known of a key outlasts the steps that leave the key and the clocks alone.
LEMMA SameKey ==
  ASSUME NEW key \in Key, KeyInv(key), counter'[key] = counter[key], taken'[key] = taken[key],
         now' = now, skew' = skew, delay' = delay
  PROVE  KeyInv(key)'
  BY Zenon DEF KeyInv, Monotone, Recent, NoCounter, Current, Reached

\* A clock that had reached a window n ticks ago had done so later, too.
LEMMA ReachedLater ==
  ASSUME TypeOK, NEW w \in Nat, NEW n \in Int, NEW m \in Int, Reached(w, n), m <= n
  PROVE  Reached(w, m)
<1>1. PICK r \in Runtime : Start(w) + n <= now + skew[r]
  BY DEF Reached
<1>2. skew[r] \in Nat /\ now \in Nat /\ Start(w) \in Nat
  BY RateLimitAssumption DEF TypeOK, Start
<1>3. Start(w) + m <= now + skew[r]
  BY <1>1, <1>2
<1> QED  BY <1>3 DEF Reached

\* The key of a counter: its numbers, by name.
LEMMA CounterParts ==
  ASSUME NEW c \in Counter
  PROVE  /\ c # None /\ c.count \in Nat \ {0} /\ c.ttl \in 1..Window
         /\ Window - c.ttl \in 0..(Window - 1) /\ Window - c.ttl + 1 \in 1..Window
  BY RateLimitAssumption, NoCounterAssumption DEF Counter

\* A run of the script keeps what is known of its key.
LEMMA RunKey ==
  ASSUME RateInv, NEW key \in Key, NEW age \in 0..MaxDelay, NEW again \in BOOLEAN,
         RunScript(key, age, again)
  PROVE  KeyInv(key)'
<1> DEFINE w == key[2]
           t == taken[key]
           u == taken'[key]
           old == counter[key]
           new == counter'[key]
           a == Window - new.ttl
<1>1. /\ Window \in Nat \ {0} /\ Limit \in Nat \ {0} /\ MaxDelay \in Nat
      /\ w \in Nat /\ Start(w) \in Nat /\ now \in Nat /\ delay \in Nat
  BY RateLimitAssumption, KeyParts DEF RateInv, TypeOK
<1>2. t \in [0..Window -> Nat] /\ u \in [0..Window -> Nat]
  BY RunEffect DEF RateInv, TypeOK
<1>3. /\ old \in Counter \cup {None} /\ new \in Counter
      /\ old = None => new.count = 1 /\ new.ttl = Window
      /\ old # None => new.count = old.count + 1 /\ new.ttl = old.ttl
  BY RunEffect, ScriptResult DEF RateInv
<1>4. /\ WithinLimit(new.count) => u[0] = 0 /\ \A n \in 1..Window : u[n] = t[n] + 1
      /\ ~WithinLimit(new.count) => u = t
  BY RunEffect DEF RateInv
<1>5. Reached(w, age) /\ now < Start(w) + Window + age /\ age <= delay
  BY Zenon DEF RateInv, SentInv, RunScript
<1>7. now' = now /\ skew' = skew /\ delay' = delay
  BY DEF RunScript
<1>8. Monotone(key) /\ Recent(key) /\ NoCounter(key) /\ Current(key)
  BY DEF RateInv, KeyInv
<1>9. /\ t[0] = 0 /\ \A i, j \in 0..Window : i <= j => t[i] <= t[j]
      /\ \A n \in 1..Window : t[n] > 0 => now + 1 < Start(w) + Window + delay + n
  BY <1>8, Zenon DEF Monotone, Recent
<1>10. /\ new # None /\ new.count \in Nat \ {0} /\ new.ttl \in 1..Window
       /\ a \in 0..(Window - 1) /\ a + 1 \in 1..Window
  BY <1>3, CounterParts
<1>11. old = None => t[1] = 0 /\ t[Window] < Limit /\ (t[Window] > 0 => Reached(w, Window))
  BY <1>8, Zenon DEF NoCounter
<1>12. old # None => /\ t[a + 1] > t[a]
                     /\ t[a + 1] = IF WithinLimit(old.count) THEN old.count ELSE Limit
                     /\ t[Window] < t[a + 1] + Limit
                     /\ Reached(w, a) /\ (t[Window] > t[a + 1] => Reached(w, Window + a))
                     /\ old.count \in Nat
  BY <1>3, <1>8, CounterParts, Zenon DEF Current
<1>13. Reached(w, 0)
  BY <1>1, <1>5, ReachedLater DEF RateInv
<1>6. /\ a \in Int /\ Window + a \in Int /\ Window \in 1..Window /\ a \in 0..Window
      /\ a + 1 \in 0..Window /\ Window \in 0..Window
  BY <1>1, <1>10
<1>m. /\ t[a] \in Nat /\ t[a + 1] \in Nat /\ t[Window] \in Nat
      /\ u[a] \in Nat /\ u[a + 1] \in Nat /\ u[Window] \in Nat
  BY <1>2, <1>6, Zenon
<1> HIDE DEF w, t, u, old, new, a
<1>14. Monotone(key)'
  <2>1. u[0] = 0 /\ \A i, j \in 0..Window : i <= j => u[i] <= u[j]
    <3>1. CASE ~WithinLimit(new.count)
      BY <1>4, <1>9, <3>1, Zenon
    <3>2. CASE WithinLimit(new.count)
      <4>1. ASSUME NEW i \in 0..Window, NEW j \in 0..Window, i <= j PROVE u[i] <= u[j]
        <5>1. t[i] <= t[j] /\ t[i] \in Nat /\ t[j] \in Nat /\ u[j] \in Nat
          BY <1>2, <1>9, <4>1, Zenon
        <5>2. CASE i = 0
          BY <1>4, <3>2, <5>1, <5>2
        <5>3. CASE i # 0
          <6>1. i \in 1..Window /\ j \in 1..Window
            BY <1>1, <4>1, <5>3
          <6>2. u[i] = t[i] + 1 /\ u[j] = t[j] + 1
            BY <1>4, <3>2, <6>1, Zenon
          <6> QED  BY <5>1, <6>2
        <5> QED  BY <5>2, <5>3
      <4> QED  BY <1>4, <3>2, <4>1, Zenon
    <3> QED  BY <3>1, <3>2, Zenon
  <2> QED  BY <2>1, Zenon DEF Monotone, u
<1>15. Recent(key)'
  <2>1. \A n \in 1..Window : u[n] > 0 => now + 1 < Start(w) + Window + delay + n
    BY <1>1, <1>2, <1>4, <1>5, <1>9
  <2> QED  BY <1>7, <2>1, Zenon DEF Recent, u, w
<1>16. NoCounter(key)'
  BY <1>10, Zenon DEF NoCounter, new
<1>17. /\ u[a + 1] > u[a]
       /\ u[a + 1] = IF WithinLimit(new.count) THEN new.count ELSE Limit
       /\ u[Window] < u[a + 1] + Limit
       /\ Reached(w, a) /\ (u[Window] > u[a + 1] => Reached(w, Window + a))
  <2>1. CASE old = None
    <3>1. new.count = 1 /\ a = 0
      BY <1>1, <1>3, <2>1 DEF a
    <3>2. WithinLimit(new.count) /\ u[0] = 0 /\ u[1] = 1 /\ u[Window] = t[Window] + 1
      BY <1>1, <1>4, <1>11, <2>1, <3>1 DEF WithinLimit
    <3>3. u[Window] > 1 => Reached(w, Window)
      BY <1>1, <1>2, <1>11, <2>1, <3>2
    <3>4. u[a + 1] = 1 /\ u[a] = 0 /\ Reached(w, a) /\ Window + a = Window
      BY <1>1, <1>13, <3>1, <3>2
    <3>5. u[Window] < 1 + Limit
      BY <1>1, <1>m, <1>11, <2>1, <3>2
    <3>6. u[Window] > u[a + 1] => Reached(w, Window + a)
      BY <3>3, <3>4, Zenon
    <3> QED  BY <1>1, <3>1, <3>2, <3>4, <3>5, <3>6
  <2>2. CASE old # None /\ WithinLimit(new.count)
    <3>1. new.count = old.count + 1 /\ WithinLimit(old.count) /\ t[a + 1] = old.count
      BY <1>1, <1>3, <1>12, <2>2 DEF WithinLimit
    <3>2. u[a + 1] = t[a + 1] + 1 /\ u[Window] = t[Window] + 1 /\ u[a] <= t[a] + 1
      <4>1. a = 0 \/ a \in 1..Window
        BY <1>1, <1>10
      <4>2. a = 0 => u[a] = 0
        BY <1>4, <2>2, Zenon
      <4>3. a \in 1..Window => u[a] = t[a] + 1
        BY <1>4, <2>2, Zenon
      <4>4. u[a + 1] = t[a + 1] + 1 /\ u[Window] = t[Window] + 1
        BY <1>4, <1>10, <1>6, <2>2, Zenon
      <4> QED  BY <1>m, <4>1, <4>2, <4>3, <4>4
    <3>3. Reached(w, a) /\ (t[Window] > t[a + 1] => Reached(w, Window + a))
      BY <1>12, <2>2, Zenon
    <3>4. t[a + 1] > t[a] /\ t[Window] < t[a + 1] + Limit
      BY <1>12, <2>2, Zenon
    <3>5. u[a + 1] > u[a] /\ u[Window] < u[a + 1] + Limit /\ u[a + 1] = new.count
      BY <1>1, <1>m, <3>1, <3>2, <3>4
    <3>6. u[Window] > u[a + 1] => t[Window] > t[a + 1]
      BY <1>m, <3>2
    <3> QED  BY <2>2, <3>3, <3>5, <3>6, Zenon
  <2>3. CASE old # None /\ ~WithinLimit(new.count)
    <3>1. t[a + 1] = Limit /\ u = t
      BY <1>1, <1>3, <1>4, <1>12, <2>3 DEF WithinLimit
    <3>2. Reached(w, a) /\ (t[Window] > t[a + 1] => Reached(w, Window + a))
      BY <1>12, <2>3, Zenon
    <3> QED  BY <1>12, <2>3, <3>1, <3>2
  <2> QED  BY <2>1, <2>2, <2>3, Zenon
<1>18. Current(key)'
  BY <1>7, <1>17, Zenon DEF Current, Reached, u, w, new, a
<1> QED  BY <1>14, <1>15, <1>16, <1>18 DEF KeyInv

\* The same seen one tick later.
LEMMA ReachedTick ==
  ASSUME TypeOK, NEW w \in Nat, NEW n \in Int, Reached(w, n - 1), now' = now + 1, skew' = skew
  PROVE  \E r \in Runtime : Start(w) + n <= now' + skew'[r]
<1>1. PICK r \in Runtime : Start(w) + (n - 1) <= now + skew[r]
  BY DEF Reached
<1>2. skew[r] \in Nat /\ now \in Nat /\ Start(w) \in Nat
  BY RateLimitAssumption DEF TypeOK, Start
<1>3. Start(w) + n <= now' + skew'[r]
  BY <1>1, <1>2
<1> QED  BY <1>3

\* A tick keeps what is known of a key: a counter that dies leaves the places of
\* the last window without the first it gave.
LEMMA TickKey ==
  ASSUME RateInv, Tick, NEW key \in Key
  PROVE  KeyInv(key)'
<1> DEFINE w == key[2]
           t == taken[key]
           u == taken'[key]
           old == counter[key]
           new == counter'[key]
           a == Window - old.ttl
           b == Window - new.ttl
<1>1. /\ Window \in Nat \ {0} /\ Limit \in Nat \ {0} /\ TypeOK
      /\ w \in Nat /\ Start(w) \in Nat /\ now \in Nat /\ delay \in Nat
  BY RateLimitAssumption, KeyParts DEF RateInv, TypeOK
<1>2. t \in [0..Window -> Nat] /\ u \in [0..Window -> Nat]
  BY TickEffect DEF RateInv, TypeOK
<1>3. /\ old \in Counter \cup {None} /\ new \in Counter \cup {None}
      /\ new # None => /\ old # None /\ old.ttl \in 2..Window
                       /\ new.ttl = old.ttl - 1 /\ new.count = old.count
      /\ new = None => old = None \/ old.ttl = 1
  BY TickEffect, AfterResult DEF RateInv
<1>4. u[0] = 0 /\ u[1] = 0 /\ \A n \in 2..Window : u[n] = t[n - 1]
  BY TickEffect DEF RateInv
<1>5. now' = now + 1 /\ skew' = skew /\ delay' = delay
  BY DEF Tick
<1>6. Monotone(key) /\ Recent(key) /\ NoCounter(key) /\ Current(key)
  BY DEF RateInv, KeyInv
<1>7. /\ t[0] = 0 /\ \A i, j \in 0..Window : i <= j => t[i] <= t[j]
      /\ \A n \in 1..Window : t[n] > 0 => now + 1 < Start(w) + Window + delay + n
  BY <1>6, Zenon DEF Monotone, Recent
<1>8. old = None => t[Window] < Limit /\ (t[Window] > 0 => Reached(w, Window))
  BY <1>6, Zenon DEF NoCounter
<1>9. old # None => /\ t[a + 1] > t[a]
                    /\ t[a + 1] = IF WithinLimit(old.count) THEN old.count ELSE Limit
                    /\ t[Window] < t[a + 1] + Limit
                    /\ Reached(w, a) /\ (t[Window] > t[a + 1] => Reached(w, Window + a))
                    /\ old.count \in Nat
  BY <1>3, <1>6, CounterParts, Zenon DEF Current
<1>10. /\ Window \in 1..Window /\ Window \in 0..Window /\ Window - 1 \in 0..Window
       /\ t[Window] \in Nat /\ t[Window - 1] \in Nat /\ t[Window - 1] <= t[Window]
  <2>1. Window \in 1..Window /\ Window \in 0..Window /\ Window - 1 \in 0..Window /\ Window - 1 <= Window
    BY <1>1
  <2> QED  BY <1>2, <1>7, <2>1, Zenon
<1>11. u[Window] = IF Window = 1 THEN 0 ELSE t[Window - 1]
  <2>1. CASE Window = 1
    BY <1>4, <2>1, Zenon
  <2>2. CASE Window # 1
    <3>1. Window \in 2..Window
      BY <1>1, <2>2
    <3> QED  BY <1>4, <2>2, <3>1, Zenon
  <2> QED  BY <2>1, <2>2, Zenon
<1>12. new # None => /\ a \in 0..(Window - 2) /\ b = a + 1 /\ Window # 1
                     /\ a + 1 \in 1..Window /\ a + 2 \in 2..Window /\ a \in 0..Window
  BY <1>1, <1>3
<1>13. Monotone(key)'
  <2>1. ASSUME NEW i \in 0..Window, NEW j \in 0..Window, i <= j PROVE u[i] <= u[j]
    <3>1. u[j] \in Nat
      BY <1>2, Zenon
    <3>2. CASE i < 2
      <4>1. u[i] = 0
        BY <1>4, <3>2
      <4> QED  BY <3>1, <4>1
    <3>3. CASE ~(i < 2)
      <4>1. /\ i \in 2..Window /\ j \in 2..Window /\ i - 1 \in 0..Window /\ j - 1 \in 0..Window
            /\ i - 1 <= j - 1
        BY <1>1, <2>1, <3>3
      <4> QED  BY <1>4, <1>7, <4>1, Zenon
    <3> QED  BY <3>2, <3>3
  <2> QED  BY <1>4, <2>1, Zenon DEF Monotone
<1>14. Recent(key)'
  <2>1. ASSUME NEW n \in 1..Window, u[n] > 0
        PROVE  now' + 1 < Start(w) + Window + delay' + n
    <3>1. n \in 2..Window /\ n - 1 \in 1..Window
      BY <1>1, <1>4, <2>1
    <3>2. now + 1 < Start(w) + Window + delay + (n - 1)
      BY <1>4, <1>7, <2>1, <3>1, Zenon
    <3> QED  BY <1>1, <1>5, <3>2
  <2> QED  BY <2>1, Zenon DEF Recent
<1>15. NoCounter(key)'
  <2> SUFFICES ASSUME new = None
               PROVE  /\ u[Window] < Limit
                      /\ u[Window] > 0 => \E r \in Runtime : Start(w) + Window <= now' + skew'[r]
    BY <1>4, Zenon DEF NoCounter, Reached
  <2>1. CASE old = None
    <3>1. u[Window] < Limit /\ (u[Window] > 0 => t[Window] > 0)
      BY <1>1, <1>8, <1>10, <1>11, <2>1
    <3>2. u[Window] > 0 => Reached(w, Window - 1)
      BY <1>1, <1>8, <2>1, <3>1, ReachedLater
    <3> QED  BY <1>1, <1>5, <3>1, <3>2, ReachedTick
  <2>2. CASE old # None
    <3>1. a = Window - 1 /\ a + 1 = Window
      BY <1>1, <1>3, <2>2
    <3>2. t[Window] > t[Window - 1] /\ Reached(w, Window - 1) /\ t[Window] <= Limit
      BY <1>1, <1>9, <2>2, <3>1 DEF WithinLimit
    <3>3. u[Window] < Limit
      BY <1>1, <1>10, <1>11, <3>2
    <3> QED  BY <1>1, <1>5, <3>2, <3>3, ReachedTick
  <2> QED  BY <2>1, <2>2, Zenon
<1>16. Current(key)'
  <2> SUFFICES ASSUME new # None
               PROVE  /\ u[b + 1] > u[b]
                      /\ u[b + 1] = IF WithinLimit(new.count) THEN new.count ELSE Limit
                      /\ u[Window] < u[b + 1] + Limit
                      /\ \E r \in Runtime : Start(w) + b <= now' + skew'[r]
                      /\ u[Window] > u[b + 1] =>
                           \E r \in Runtime : Start(w) + (Window + b) <= now' + skew'[r]
    BY Zenon DEF Current, Reached
  <2>0. /\ old # None /\ new.count = old.count
        /\ a \in 0..(Window - 2) /\ b = a + 1 /\ Window # 1
        /\ a + 1 \in 1..Window /\ a + 2 \in 2..Window /\ a \in 0..Window
    BY <1>3, <1>12, Zenon
  <2> HIDE DEF a, b, t, u, w, old, new
  <2>1. b + 1 = a + 2 /\ (a + 2) - 1 = a + 1 /\ b - 1 = a /\ (Window + b) - 1 = Window + a
        /\ a \in Int /\ b \in Int /\ Window + b \in Int /\ a + 1 \in 0..Window
    BY <1>1, <2>0
  <2>2. u[b + 1] = t[a + 1]
    BY <1>4, <2>0, <2>1, Zenon
  <2>3. u[b] = t[a]
    <3>1. CASE a = 0
      BY <1>4, <1>7, <2>0, <3>1
    <3>2. CASE a # 0
      <4>1. b \in 2..Window /\ b - 1 = a
        BY <1>1, <2>0, <3>2
      <4> QED  BY <1>4, <4>1, Zenon
    <3> QED  BY <3>1, <3>2, Zenon
  <2>4. t[a + 1] \in Nat /\ u[Window] = t[Window - 1]
    BY <1>2, <1>11, <2>0, <2>1, Zenon
  <2>5. u[Window] < t[a + 1] + Limit /\ (u[Window] > t[a + 1] => t[Window] > t[a + 1])
    BY <1>1, <1>9, <1>10, <2>0, <2>4
  <2>6. Reached(w, b - 1) /\ (u[Window] > u[b + 1] => Reached(w, (Window + b) - 1))
    BY <1>9, <2>0, <2>1, <2>2, <2>5, Zenon
  <2>7. /\ \E r \in Runtime : Start(w) + b <= now' + skew'[r]
        /\ u[Window] > u[b + 1] => \E r \in Runtime : Start(w) + (Window + b) <= now' + skew'[r]
    BY <1>1, <1>5, <2>1, <2>6, ReachedTick, Zenon
  <2>8. u[b + 1] > u[b] /\ u[b + 1] = IF WithinLimit(new.count) THEN new.count ELSE Limit
    BY <1>9, <2>0, <2>2, <2>3, Zenon
  <2> QED  BY <2>2, <2>5, <2>7, <2>8, Zenon
<1> QED  BY <1>13, <1>14, <1>15, <1>16 DEF KeyInv

-----------------------------------------------------------------------------
\* A call that is sent has its key from the clock of its runtime.
LEMMA AllowStep ==
  ASSUME RateInv, NEW r \in Runtime, NEW k \in Credential, Allow(r, k)
  PROVE  RateInv'
<1> DEFINE id == (now + skew[r]) \div Window
           key == <<k, id>>
           Calls == Key \X (0..MaxDelay)
<1>1. key \in Key /\ MaxDelay \in Nat
  BY ClockWindow, RateLimitAssumption DEF RateInv
<1>2. now + skew[r] \in Nat /\ now \in Nat /\ skew[r] \in Nat /\ delay \in Nat
  BY RateLimitAssumption DEF RateInv, TypeOK
<1>3. id \in Nat /\ Start(id) <= now + skew[r] /\ now + skew[r] < Start(id) + Window
  BY <1>2, WindowOf
<1>4. /\ sent' = [sent EXCEPT ![<<key, 0>>] = @ + 1] /\ calls' = calls + 1 /\ calls < MaxCalls
      /\ UNCHANGED <<now, skew, delay, counter, taken>>
  BY DEF Allow
<1>5. <<key, 0>> \in Calls /\ sent \in [Calls -> Nat]
  <2>1. 0 \in 0..MaxDelay
    BY <1>1
  <2> HIDE DEF key
  <2>2. <<key, 0>> \in Calls
    BY <1>1, <2>1
  <2> QED  BY <2>2 DEF RateInv, TypeOK
<1>6. Reached(id, 0) /\ now < Start(id) + Window + 0 /\ 0 <= delay
  <2>1. Start(id) \in Nat /\ Window \in Nat
    BY <1>3, RateLimitAssumption DEF Start
  <2> HIDE DEF id
  <2>2. Start(id) + 0 <= now + skew[r]
    BY <1>2, <1>3, <2>1
  <2>3. Reached(id, 0)
    BY <2>2 DEF Reached
  <2> QED  BY <1>2, <1>3, <2>1, <2>3
<1>7. key[2] = id
  OBVIOUS
<1> HIDE DEF id, key, Calls
<1>8. /\ sent' \in [Calls -> Nat]
      /\ \A c \in Calls : c # <<key, 0>> => sent'[c] = sent[c]
  BY <1>4, <1>5
<1>9. TypeOK'
  <2>1. calls' \in 0..MaxCalls
    BY <1>4, RateLimitAssumption DEF RateInv, TypeOK
  <2> QED  BY <1>4, <1>8, <2>1, Zenon DEF RateInv, TypeOK, Calls
<1>10. SentInv'
  <2> SUFFICES ASSUME NEW d \in Key, NEW a \in 0..MaxDelay, sent'[<<d, a>>] > 0
               PROVE  a <= delay /\ Reached(d[2], a) /\ now < Start(d[2]) + Window + a
    BY <1>4, Zenon DEF SentInv, Reached
  <2>1. <<d, a>> \in Calls
    BY DEF Calls
  <2>2. CASE d = key /\ a = 0
    BY <1>6, <1>7, <2>2, Zenon
  <2>3. CASE ~(d = key /\ a = 0)
    <3>1. <<d, a>> # <<key, 0>>
      BY <2>3
    <3>2. sent[<<d, a>>] > 0
      BY <1>8, <2>1, <3>1, Zenon
    <3> QED  BY <3>2, Zenon DEF RateInv, SentInv
  <2> QED  BY <2>2, <2>3, Zenon
<1>11. \A d \in Key : KeyInv(d)'
  BY <1>4, SameKey, Zenon DEF RateInv
<1> QED  BY <1>9, <1>10, <1>11, Zenon DEF RateInv

\* The script runs.
LEMMA RunStep ==
  ASSUME RateInv, NEW key \in Key, NEW age \in 0..MaxDelay, NEW again \in BOOLEAN,
         RunScript(key, age, again)
  PROVE  RateInv'
<1>1. TypeOK' /\ now' = now /\ skew' = skew /\ delay' = delay
  BY RunEffect, Zenon DEF RateInv
<1>2. \A d \in Key, a \in 0..MaxDelay : sent'[<<d, a>>] > 0 => sent[<<d, a>>] > 0
  BY RunEffect, Zenon DEF RateInv
<1>3. SentInv'
  BY <1>1, <1>2, Zenon DEF RateInv, SentInv, Reached
<1>4. ASSUME NEW d \in Key PROVE KeyInv(d)'
  <2>1. CASE d = key
    BY <2>1, RunKey, Zenon
  <2>2. CASE d # key
    <3>1. counter'[d] = counter[d] /\ taken'[d] = taken[d]
      BY <2>2, RunEffect, Zenon DEF RateInv
    <3> QED  BY <1>1, <3>1, SameKey, Zenon DEF RateInv
  <2> QED  BY <2>1, <2>2, Zenon
<1> QED  BY <1>1, <1>3, <1>4, Zenon DEF RateInv

\* A call fails on its way to Redis.
LEMMA FailStep ==
  ASSUME RateInv, NEW key \in Key, NEW age \in 0..MaxDelay, CallFails(key, age)
  PROVE  RateInv'
<1> DEFINE c == <<key, age>>
           Calls == Key \X (0..MaxDelay)
<1>1. /\ sent' = [sent EXCEPT ![c] = @ - 1] /\ sent[c] > 0
      /\ UNCHANGED <<now, skew, delay, counter, taken, calls>>
  BY DEF CallFails
<1>2. c \in Calls /\ sent \in [Calls -> Nat]
  BY DEF RateInv, TypeOK
<1>3. ASSUME NEW d \in Key, NEW a \in 0..MaxDelay PROVE <<d, a>> \in Calls
  OBVIOUS
<1> HIDE DEF c, Calls
<1>4. sent' \in [Calls -> Nat] /\ \A d \in Calls : sent'[d] > 0 => sent[d] > 0
  BY <1>1, <1>2
<1>5. TypeOK'
  BY <1>1, <1>4, Zenon DEF RateInv, TypeOK, Calls
<1>6. SentInv'
  BY <1>1, <1>3, <1>4, Zenon DEF RateInv, SentInv, Reached
<1>7. \A d \in Key : KeyInv(d)'
  BY <1>1, SameKey, Zenon DEF RateInv
<1> QED  BY <1>5, <1>6, <1>7, Zenon DEF RateInv

\* Time passes.
LEMMA TickStep ==
  ASSUME RateInv, Tick
  PROVE  RateInv'
<1>1. TypeOK' /\ now' = now + 1 /\ skew' = skew /\ delay' = delay
  BY TickEffect, Zenon DEF RateInv
<1>2. SentInv'
  <2> SUFFICES ASSUME NEW d \in Key, NEW a \in 0..MaxDelay, sent'[<<d, a>>] > 0
               PROVE  /\ a <= delay /\ now' < Start(d[2]) + Window + a
                      /\ \E r \in Runtime : Start(d[2]) + a <= now' + skew'[r]
    BY <1>1, Zenon DEF SentInv, Reached
  <2>1. a # 0 /\ a - 1 # delay /\ sent[<<d, a - 1>>] > 0
    BY TickEffect, Zenon DEF RateInv
  <2>2. a - 1 \in 0..MaxDelay /\ a \in Int /\ MaxDelay \in Nat /\ Window \in Nat
    BY <2>1, RateLimitAssumption
  <2>3. a - 1 <= delay /\ Reached(d[2], a - 1) /\ now < Start(d[2]) + Window + (a - 1)
    BY <2>1, <2>2, Zenon DEF RateInv, SentInv
  <2>4. d[2] \in Nat /\ Start(d[2]) \in Nat /\ now \in Nat /\ delay \in Nat
    BY KeyParts, RateLimitAssumption DEF RateInv, TypeOK
  <2>5. \E r \in Runtime : Start(d[2]) + a <= now' + skew'[r]
    BY <1>1, <2>2, <2>3, <2>4, ReachedTick, Zenon DEF RateInv
  <2> QED  BY <1>1, <2>1, <2>2, <2>3, <2>4, <2>5
<1> QED  BY <1>1, <1>2, TickKey, Zenon DEF RateInv

\* The inductive invariant.
LEMMA RateInvariance == Spec => []RateInv
<1>1. Init => RateInv
  <2> SUFFICES ASSUME Init PROVE RateInv
    OBVIOUS
  <2>1. TypeOK
    BY RateLimitAssumption DEF Init, TypeOK
  <2>2. ASSUME NEW key \in Key, NEW age \in 0..MaxDelay PROVE sent[<<key, age>>] = 0
    BY DEF Init
  <2>3. SentInv
    BY <2>2 DEF SentInv
  <2>4. ASSUME NEW key \in Key PROVE KeyInv(key)
    <3>1. counter[key] = None /\ \A n \in 0..Window : taken[key][n] = 0
      BY DEF Init
    <3>2. 0 \in 0..Window /\ 1 \in 0..Window /\ Window \in 0..Window /\ 0 < Limit /\ 1..Window \subseteq 0..Window
      BY RateLimitAssumption
    <3> QED  BY <3>1, <3>2 DEF KeyInv, Monotone, Recent, NoCounter, Current
  <2> QED  BY <2>1, <2>3, <2>4 DEF RateInv
<1>2. RateInv /\ [Next]_vars => RateInv'
  <2> SUFFICES ASSUME RateInv, [Next]_vars PROVE RateInv'
    OBVIOUS
  <2>1. CASE UNCHANGED vars
    <3>1. TypeOK' /\ SentInv'
      BY <2>1, Zenon DEF RateInv, vars, TypeOK, SentInv, Reached
    <3>2. \A d \in Key : KeyInv(d)'
      BY <2>1, SameKey, Zenon DEF RateInv, vars
    <3> QED  BY <3>1, <3>2, Zenon DEF RateInv
  <2> QED  BY <2>1, AllowStep, RunStep, FailStep, TickStep, Zenon DEF Next
<1> QED  BY <1>1, <1>2, PTL DEF Spec

\* The keys, the calls on their way and the counts keep their types; a key in Redis
\* has between one tick and a window to live.
THEOREM Types == Spec => []TypeOK
<1>1. RateInv => TypeOK
  BY DEF RateInv
<1> QED  BY <1>1, RateInvariance, PTL

\* Every counter in Redis dies a window after the request that made it, because
\* commandRateScript sets the time to live at the count of one and never again:
\* a credential is not shut out for longer by going on asking.
THEOREM LifeFromFirstUseAlways == Spec => []LifeFromFirstUse
<1>1. RateInv => LifeFromFirstUse
  BY Zenon DEF RateInv, KeyInv, Current, LifeFromFirstUse
<1> QED  BY <1>1, RateInvariance, PTL
-----------------------------------------------------------------------------
\* What the last window has seen under one key: fewer than twice the limit, and
\* more than the limit only if a counter was born again.
LEMMA KeyBound ==
  ASSUME RateInv, NEW key \in Key
  PROVE  LET places == taken[key][Window]
         IN  /\ places \in Nat /\ places <= 2 * Limit - 1
             /\ places > 0 => /\ Reached(key[2], 0)
                              /\ now + 1 < Start(key[2]) + Window + delay + Window
             /\ places > Limit =>
                  \E a \in 0..(Window - 1) : /\ Reached(key[2], Window + a)
                                             /\ now + 1 < Start(key[2]) + Window + delay + (a + 1)
             /\ counter[key] # None /\ ~WithinLimit(counter[key].count + 1) => places >= Limit
<1> DEFINE w == key[2]
           t == taken[key]
           c == counter[key]
           a == Window - c.ttl
<1>1. /\ Window \in Nat \ {0} /\ Limit \in Nat \ {0} /\ w \in Nat /\ TypeOK
      /\ t \in [0..Window -> Nat] /\ c \in Counter \cup {None}
  BY RateLimitAssumption, KeyParts DEF RateInv, TypeOK
<1>2. Monotone(key) /\ Recent(key) /\ NoCounter(key) /\ Current(key)
  BY DEF RateInv, KeyInv
<1>3. /\ \A i, j \in 0..Window : i <= j => t[i] <= t[j]
      /\ \A n \in 1..Window : t[n] > 0 => now + 1 < Start(w) + Window + delay + n
  BY <1>2, Zenon DEF Monotone, Recent
<1>4. Window \in 1..Window /\ Window \in 0..Window
  BY <1>1
<1>5. t[Window] \in Nat /\ (t[Window] > 0 => now + 1 < Start(w) + Window + delay + Window)
  BY <1>1, <1>3, <1>4, Zenon
<1>6. CASE c = None
  <2>1. t[Window] < Limit /\ (t[Window] > 0 => Reached(w, Window))
    BY <1>2, <1>6, Zenon DEF NoCounter
  <2>2. t[Window] > 0 => Reached(w, 0)
    BY <1>1, <2>1, ReachedLater
  <2>3. t[Window] <= 2 * Limit - 1 /\ ~(t[Window] > Limit)
    BY <1>1, <1>5, <2>1
  <2> QED  BY <1>5, <1>6, <2>2, <2>3, Zenon
<1>7. CASE c # None
  <2>1. /\ a \in 0..(Window - 1) /\ a + 1 \in 1..Window /\ a + 1 \in 0..Window
        /\ a \in Int /\ a >= 0 /\ a + 1 <= Window /\ c.count \in Nat
    <3>1. c \in Counter
      BY <1>1, <1>7, Zenon
    <3>2. /\ a \in 0..(Window - 1) /\ a + 1 \in 1..Window /\ c.count \in Nat \ {0}
      BY <3>1, CounterParts, Zenon
    <3> HIDE DEF a, c
    <3> QED  BY <1>1, <3>2
  <2>2. /\ t[a + 1] > t[a]
        /\ t[a + 1] = IF WithinLimit(c.count) THEN c.count ELSE Limit
        /\ t[Window] < t[a + 1] + Limit
        /\ Reached(w, a) /\ (t[Window] > t[a + 1] => Reached(w, Window + a))
    BY <1>2, <1>7, Zenon DEF Current
  <2> HIDE DEF w, t, c, a
  <2>3. t[a + 1] \in Nat /\ t[a] \in Nat /\ t[a + 1] <= t[Window]
    <3>1. a \in 0..Window
      BY <1>1, <2>1
    <3> QED  BY <1>1, <1>3, <1>4, <2>1, <3>1, Zenon
  <2>4. t[a + 1] <= Limit /\ t[a + 1] > 0
    BY <1>1, <2>2, <2>3 DEF WithinLimit
  <2>5. t[Window] <= 2 * Limit - 1
    BY <1>1, <1>5, <2>2, <2>3, <2>4
  <2>6. Reached(w, 0)
    BY <1>1, <2>1, <2>2, ReachedLater
  <2>7. now + 1 < Start(w) + Window + delay + (a + 1)
    BY <1>3, <2>1, <2>4, Zenon
  <2>8. t[Window] > Limit => Reached(w, Window + a)
    <3>1. t[Window] > Limit => t[Window] > t[a + 1]
      BY <1>1, <1>5, <2>3, <2>4
    <3> QED  BY <2>2, <3>1, Zenon
  <2>9. ~WithinLimit(c.count + 1) => t[Window] >= Limit
    BY <1>1, <1>5, <2>1, <2>2, <2>3 DEF WithinLimit
  <2> QED  BY <1>5, <2>1, <2>5, <2>6, <2>7, <2>8, <2>9, Zenon DEF w, t, c
<1> QED  BY <1>6, <1>7, Zenon

\* As many pairs as places.
LEMMA CellCount ==
  ASSUME NEW w, NEW n \in Nat
  PROVE  IsFiniteSet({w} \X (1..n)) /\ Cardinality({w} \X (1..n)) = n
<1>1. IsFiniteSet({w}) /\ Cardinality({w}) = 1
  BY FS_Singleton, Zenon
<1>2. IsFiniteSet(1..n) /\ Cardinality(1..n) = n
  BY FS_Interval
<1> DEFINE S == {w}
           T == 1..n
<1> HIDE DEF S, T
<1>3. IsFiniteSet(S \X T) /\ Cardinality(S \X T) = 1 * n
  <2>1. IsFiniteSet(S) /\ Cardinality(S) = 1 /\ IsFiniteSet(T) /\ Cardinality(T) = n
    BY <1>1, <1>2, Zenon DEF S, T
  <2> QED  BY <2>1, FS_Product, Zenon
<1> QED  BY <1>3 DEF S, T

\* The burst is at most what three windows contribute when no other does.
LEMMA ThreeWindows ==
  ASSUME NEW k \in Credential, NEW m \in Nat, NEW x \in Nat, NEW y \in Nat, NEW z \in Nat,
         \A w \in WindowID : LET places == taken[<<k, w>>][Window] IN
           places \in Nat /\ (places > 0 => \/ w = m /\ places <= x
                                            \/ w = m + 1 /\ places <= y
                                            \/ w = m + 2 /\ places <= z)
  PROVE  Burst(k) <= x + y + z
<1> DEFINE P(w) == taken[<<k, w>>][Window]
           U == UNION {{w} \X (1..P(w)) : w \in WindowID}
           X == {m} \X (1..x)
           Y == {m + 1} \X (1..y)
           Z == {m + 2} \X (1..z)
<1>1. ASSUME NEW p \in U PROVE p \in (X \cup Y) \cup Z
  <2>1. PICK w \in WindowID : p \in {w} \X (1..P(w))
    BY <1>1, Zenon
  <2>2. P(w) \in Nat /\ (P(w) > 0 => \/ w = m /\ P(w) <= x
                                     \/ w = m + 1 /\ P(w) <= y
                                     \/ w = m + 2 /\ P(w) <= z)
    BY Zenon
  <2> HIDE DEF P
  <2>3. PICK i \in 1..P(w) : p = <<w, i>>
    BY <2>1
  <2>4. \/ w = m /\ i \in 1..x
        \/ w = m + 1 /\ i \in 1..y
        \/ w = m + 2 /\ i \in 1..z
    BY <2>2, <2>3
  <2> QED  BY <2>3, <2>4
<1>2. /\ IsFiniteSet(X) /\ Cardinality(X) = x
      /\ IsFiniteSet(Y) /\ Cardinality(Y) = y
      /\ IsFiniteSet(Z) /\ Cardinality(Z) = z
  BY CellCount, Zenon
<1>3. Burst(k) = Cardinality(U)
  BY Zenon DEF Burst
<1> HIDE DEF U, X, Y, Z
<1>4. ASSUME NEW S, NEW T, IsFiniteSet(S), IsFiniteSet(T)
      PROVE  IsFiniteSet(S \cup T) /\ Cardinality(S \cup T) <= Cardinality(S) + Cardinality(T)
  <2>1. /\ IsFiniteSet(S \cup T)
        /\ Cardinality(S \cup T) = Cardinality(S) + Cardinality(T) - Cardinality(S \cap T)
    BY <1>4, FS_Union, Zenon
  <2>2. IsFiniteSet(S \cap T)
    <3>1. S \cap T \in SUBSET S
      OBVIOUS
    <3> QED  BY <1>4, <3>1, FS_Subset, Zenon
  <2>3. Cardinality(S) \in Nat /\ Cardinality(T) \in Nat /\ Cardinality(S \cap T) \in Nat
    BY <1>4, <2>2, FS_CardinalityType, Zenon
  <2> QED  BY <2>1, <2>3
<1>5. IsFiniteSet(X \cup Y) /\ Cardinality(X \cup Y) <= x + y
  BY <1>2, <1>4, Zenon
<1>6. /\ IsFiniteSet((X \cup Y) \cup Z)
      /\ Cardinality((X \cup Y) \cup Z) <= Cardinality(X \cup Y) + z
  BY <1>2, <1>4, <1>5, Zenon
<1>7. /\ IsFiniteSet(U) /\ Cardinality(U) <= Cardinality((X \cup Y) \cup Z)
  <2>1. U \in SUBSET ((X \cup Y) \cup Z)
    BY <1>1
  <2> QED  BY <1>6, <2>1, FS_Subset, Zenon
<1>8. Cardinality(U) \in Nat /\ Cardinality(X \cup Y) \in Nat /\ Cardinality((X \cup Y) \cup Z) \in Nat
  BY <1>5, <1>6, <1>7, FS_CardinalityType, Zenon
<1> QED  BY <1>3, <1>5, <1>6, <1>7, <1>8

\* A set of window numbers has a first one.
LEMMA FirstOf ==
  ASSUME NEW S \in SUBSET Nat, S # {}
  PROVE  \E m \in S : \A w \in S : m <= w
<1> DEFINE R == OpToRel(<, Nat)
<1>1. IsWellFoundedOn(R, Nat)
  BY NatLessThanWellFounded, Zenon
<1>2. ASSUME NEW v \in Nat, NEW w \in Nat PROVE <<v, w>> \in R <=> v < w
  BY DEF OpToRel
<1> HIDE DEF R
<1>3. PICK m \in S : \A w \in S : ~(<<w, m>> \in R)
  BY <1>1, WFMin, Zenon
<1>4. ASSUME NEW w \in S PROVE m <= w
  <2>1. ~(w < m)
    BY <1>2, <1>3, Zenon
  <2> QED  BY <2>1
<1> QED  BY <1>3, <1>4, Zenon

\* The burst is at least what one window contributes.
LEMMA OneWindow ==
  ASSUME RateInv, NEW key \in Key
  PROVE  Burst(key[1]) \in Nat /\ taken[key][Window] <= Burst(key[1])
<1> DEFINE k == key[1]
           P(w) == taken[<<k, w>>][Window]
           U == UNION {{w} \X (1..P(w)) : w \in WindowID}
           C == {key[2]} \X (1..P(key[2]))
           n == 2 * Limit - 1
<1>1. key[2] \in WindowID /\ k \in Credential /\ P(key[2]) = taken[key][Window]
  BY KeyParts, Zenon
<1>2. ASSUME NEW w \in WindowID PROVE P(w) \in Nat /\ P(w) <= n
  <2>1. <<k, w>> \in Key
    BY <1>1 DEF Key
  <2> QED  BY <2>1, KeyBound, Zenon
<1>3. n \in Nat
  BY RateLimitAssumption
<1>4. Burst(k) = Cardinality(U)
  BY Zenon DEF Burst
<1> HIDE DEF P, k, n
<1>5. IsFiniteSet(WindowID) /\ IsFiniteSet(1..n)
  <2>1. (MaxTime + MaxSkew) \div Window \in Nat
    BY WindowOf, RateLimitAssumption
  <2> QED  BY <1>3, <2>1, FS_Interval DEF WindowID
<1>6. IsFiniteSet(WindowID \X (1..n))
  BY <1>5, FS_Product, Zenon
<1>7. U \in SUBSET (WindowID \X (1..n))
  <2>1. ASSUME NEW w \in WindowID PROVE {w} \X (1..P(w)) \subseteq WindowID \X (1..n)
    BY <1>2, <1>3
  <2> QED  BY <2>1, Zenon
<1>8. C \in SUBSET U
  BY <1>1, Zenon
<1>9. Cardinality(C) = P(key[2])
  BY <1>1, <1>2, CellCount, Zenon
<1> HIDE DEF U, C
<1>10. IsFiniteSet(U)
  BY <1>6, <1>7, FS_Subset, Zenon
<1>11. Cardinality(C) <= Cardinality(U) /\ Cardinality(U) \in Nat
  BY <1>8, <1>10, FS_Subset, FS_CardinalityType, Zenon
<1> QED  BY <1>1, <1>4, <1>9, <1>11, Zenon DEF k

\* A caller is told "too many requests" only when its credential has had all its
\* places within the length of a window, whatever the clocks of the runtimes say.
THEOREM RefusedOnlyWhenUsedUpAlways == Spec => []RefusedOnlyWhenUsedUp
<1>1. RateInv => RefusedOnlyWhenUsedUp
  <2> SUFFICES ASSUME RateInv, NEW key \in Key, counter[key] # None,
                      ~WithinLimit(counter[key].count + 1)
               PROVE  Burst(key[1]) >= Limit
    BY Zenon DEF RefusedOnlyWhenUsedUp
  <2>1. taken[key][Window] \in Nat /\ taken[key][Window] >= Limit
    BY KeyBound, Zenon
  <2>2. Burst(key[1]) \in Nat /\ taken[key][Window] <= Burst(key[1])
    BY OneWindow, Zenon
  <2> QED  BY <2>1, <2>2, RateLimitAssumption
<1> QED  BY <1>1, RateInvariance, PTL

\* How many requests of a credential are allowed within the length of a window.
\* At most three windows contribute.  A counter that is born again adds fewer than
\* Limit places to those of its window, and of three windows in a row the first and
\* the last cannot both have one.
THEOREM BurstBoundedAlways == Spec => []BurstBounded
<1>1. RateInv => BurstBounded
  <2> SUFFICES ASSUME RateInv, NEW k \in Credential
               PROVE  /\ Synchronous => Burst(k) <= 2 * Limit
                      /\ Punctual => Burst(k) <= 5 * Limit - 2
    BY Zenon DEF BurstBounded
  <2> DEFINE P(w) == taken[<<k, w>>][Window]
             V == {w \in WindowID : P(w) > 0}
  <2>1. /\ Window \in Nat \ {0} /\ Limit \in Nat \ {0} /\ now \in Nat /\ delay \in Nat
        /\ \A r \in Runtime : skew[r] \in Nat
    BY RateLimitAssumption DEF RateInv, TypeOK
  <2>2. ASSUME NEW w \in WindowID
        PROVE  /\ w \in Nat /\ Start(w) \in Nat
               /\ P(w) \in Nat /\ P(w) <= 2 * Limit - 1
               /\ P(w) > 0 => Reached(w, 0) /\ now + 1 < Start(w) + Window + delay + Window
               /\ P(w) > Limit =>
                    \E a \in 0..(Window - 1) : /\ Reached(w, Window + a)
                                               /\ now + 1 < Start(w) + Window + delay + (a + 1)
    <3>1. <<k, w>> \in Key /\ <<k, w>>[2] = w
      BY DEF Key
    <3>2. w \in Nat /\ Start(w) \in Nat
      BY <3>1, KeyParts
    <3> QED  BY <3>1, <3>2, KeyBound, Zenon
  <2> HIDE DEF P
  <2>3. ASSUME NEW m \in Nat, NEW x \in Nat, NEW y \in Nat, NEW z \in Nat,
               \A w \in WindowID : P(w) > 0 => \/ w = m /\ P(w) <= x
                                               \/ w = m + 1 /\ P(w) <= y
                                               \/ w = m + 2 /\ P(w) <= z
        PROVE  Burst(k) <= x + y + z
    BY <2>2, <2>3, ThreeWindows, Zenon DEF P
  <2>4. CASE V = {}
    <3>1. Burst(k) <= 0 + 0 + 0
      BY <2>3, <2>4
    <3>2. \E key \in Key : key[1] = k
      <4>1. 0 \in WindowID
        BY WindowOf, RateLimitAssumption DEF WindowID
      <4>2. <<k, 0>> \in Key /\ <<k, 0>>[1] = k
        BY <4>1 DEF Key
      <4> QED  BY <4>2, Zenon
    <3>3. Burst(k) \in Nat
      BY <3>2, OneWindow, Zenon
    <3> QED  BY <2>1, <3>1, <3>3
  <2>5. CASE V # {}
    <3>1. PICK m \in V : \A w \in V : m <= w
      <4>1. V \in SUBSET Nat
        BY <2>2
      <4> HIDE DEF V
      <4> QED  BY <2>5, <4>1, FirstOf, Zenon
    <3>2. m \in WindowID /\ P(m) > 0 /\ m \in Nat /\ Start(m) \in Nat
      BY <2>2, <3>1
    <3>3. now + 1 < Start(m) + Window + delay + Window
      BY <2>2, <3>2, Zenon
    <3>4. ASSUME NEW w \in WindowID, P(w) > 0
          PROVE  /\ w \in Nat /\ Start(w) \in Nat /\ m <= w
                 /\ \E r \in Runtime : Start(w) <= now + skew[r]
      <4>1. w \in Nat /\ Start(w) \in Nat /\ Reached(w, 0) /\ m <= w
        BY <2>2, <3>1, <3>4, Zenon
      <4> QED  BY <4>1 DEF Reached
    <3>5. ASSUME NEW w \in Nat, NEW n \in 1..3, w >= m + n
          PROVE  Start(w) >= Start(m) + n * Window
      BY <3>2, <2>1, <3>5 DEF Start
    <3>6. ASSUME Synchronous PROVE Burst(k) <= 2 * Limit
      <4>1. ASSUME NEW w \in WindowID, P(w) > 0 PROVE w = m \/ w = m + 1
        <5>1. Start(w) <= now
          BY <2>1, <3>4, <3>6, <4>1 DEF Synchronous
        <5>2. ~(w >= m + 2)
          <6> SUFFICES ASSUME w >= m + 2 PROVE FALSE
            OBVIOUS
          <6>1. Start(w) >= Start(m) + 2 * Window
            BY <3>4, <3>5, <4>1
          <6> QED  BY <2>1, <3>2, <3>3, <3>4, <3>6, <4>1, <5>1, <6>1 DEF Synchronous
        <5> QED  BY <3>2, <3>4, <4>1, <5>2
      <4>2. ASSUME NEW w \in WindowID, P(w) > Limit PROVE FALSE
        <5>1. PICK a \in 0..(Window - 1) : /\ Reached(w, Window + a)
                                           /\ now + 1 < Start(w) + Window + delay + (a + 1)
          BY <2>2, <4>2, Zenon
        <5>2. Start(w) + (Window + a) <= now
          BY <2>1, <2>2, <3>6, <5>1 DEF Reached, Synchronous
        <5> QED  BY <2>1, <2>2, <3>6, <5>1, <5>2 DEF Synchronous
      <4>3. ASSUME NEW w \in WindowID PROVE P(w) <= Limit
        BY <2>1, <2>2, <4>2
      <4>4. Burst(k) <= Limit + Limit + 0
        BY <2>1, <2>3, <3>2, <4>1, <4>3, ZenonT(30)
      <4> QED  BY <2>1, <4>4
    <3>7. ASSUME Punctual PROVE Burst(k) <= 5 * Limit - 2
      <4>1. ASSUME NEW w \in WindowID, P(w) > 0 PROVE w = m \/ w = m + 1 \/ w = m + 2
        <5>1. PICK r \in Runtime : Start(w) <= now + skew[r]
          BY <3>4, <4>1
        <5>2. skew[r] + delay <= Window /\ skew[r] \in Nat
          BY <2>1, <3>7 DEF Punctual
        <5>3. ~(w >= m + 3)
          <6> SUFFICES ASSUME w >= m + 3 PROVE FALSE
            OBVIOUS
          <6>1. Start(w) >= Start(m) + 3 * Window
            BY <3>4, <3>5, <4>1
          <6> QED  BY <2>1, <3>2, <3>3, <3>4, <4>1, <5>1, <5>2, <6>1
        <5> QED  BY <3>2, <3>4, <4>1, <5>3
      <4>2. ASSUME P(m) > Limit, m + 2 \in WindowID, P(m + 2) > Limit PROVE FALSE
        <5>1. PICK a \in 0..(Window - 1) : now + 1 < Start(m) + Window + delay + (a + 1)
          BY <2>2, <3>2, <4>2, Zenon
        <5>2. PICK b \in 0..(Window - 1) : Reached(m + 2, Window + b)
          BY <2>2, <4>2, Zenon
        <5>3. PICK r \in Runtime : Start(m + 2) + (Window + b) <= now + skew[r]
          BY <5>2 DEF Reached
        <5>4. skew[r] + delay <= Window /\ skew[r] \in Nat
          BY <2>1, <3>7 DEF Punctual
        <5>5. Start(m + 2) >= Start(m) + 2 * Window /\ Start(m + 2) \in Nat
          BY <2>2, <3>2, <3>5, <4>2
        <5> QED  BY <2>1, <3>2, <5>1, <5>3, <5>4, <5>5
      <4>3. 2 * Limit - 1 \in Nat
        BY <2>1
      <4>4. CASE P(m) > Limit
        <5>1. ASSUME NEW w \in WindowID, P(w) > 0
              PROVE  \/ w = m /\ P(w) <= 2 * Limit - 1
                     \/ w = m + 1 /\ P(w) <= 2 * Limit - 1
                     \/ w = m + 2 /\ P(w) <= Limit
          <6>1. w = m + 2 => P(w) <= Limit
            BY <2>1, <2>2, <4>2, <4>4, <5>1
          <6> QED  BY <2>2, <4>1, <5>1, <6>1, Zenon
        <5>2. Burst(k) <= (2 * Limit - 1) + (2 * Limit - 1) + Limit
          BY <2>1, <2>3, <3>2, <4>3, <5>1, Zenon
        <5> QED  BY <2>1, <5>2
      <4>5. CASE ~(P(m) > Limit)
        <5>1. ASSUME NEW w \in WindowID, P(w) > 0
              PROVE  \/ w = m /\ P(w) <= Limit
                     \/ w = m + 1 /\ P(w) <= 2 * Limit - 1
                     \/ w = m + 2 /\ P(w) <= 2 * Limit - 1
          <6>1. w = m => P(w) <= Limit
            BY <2>1, <2>2, <4>5, <5>1
          <6> QED  BY <2>2, <4>1, <5>1, <6>1, Zenon
        <5>2. Burst(k) <= Limit + (2 * Limit - 1) + (2 * Limit - 1)
          BY <2>1, <2>3, <3>2, <4>3, <5>1, Zenon
        <5> QED  BY <2>1, <5>2
      <4> QED  BY <4>4, <4>5, Zenon
    <3> QED  BY <3>6, <3>7, Zenon
  <2> QED  BY <2>4, <2>5, Zenon
<1> QED  BY <1>1, RateInvariance, PTL
=============================================================================
