------------------------------ MODULE RateLimit ------------------------------
(***************************************************************************)
(* The rate limit of the command API: redisCommandRateLimiter              *)
(* (internal/runtime/rate_limit.go) as serverCommandHandler                *)
(* (internal/runtime/command_api.go) calls it.  Every runtime numbers the  *)
(* windows by its own clock; the counter of a credential and a window is   *)
(* a key of the shared Redis that lives for one window from its first use. *)
(***************************************************************************)
EXTENDS Naturals, FiniteSets

CONSTANTS Runtime, Credential, None,
          Limit,       \* CSMS_COMMAND_RATE_LIMIT
          Window,      \* the length of a window, in ticks
          MaxSkew,     \* bound: how far a runtime's clock may be ahead
          MaxDelay,    \* bound: ticks from the reading of the clock to the script
          MaxTime,     \* bound: ticks
          MaxCalls     \* bound: calls of Allow

ASSUME RateLimitAssumption ==
  /\ Limit \in Nat \ {0} /\ Window \in Nat \ {0}
  /\ MaxSkew \in Nat /\ MaxDelay \in Nat /\ MaxTime \in Nat /\ MaxCalls \in Nat

VARIABLES now,
          skew,        \* how far the clock of a runtime is ahead
          delay,       \* how long a call to Redis may take
          counter,     \* the keys command-rate:<credential>:<window>
          sent,        \* calls whose script has not run, by key and time of the call
          taken,       \* places of the limit given away under a key within the last
                       \* n ticks, for n up to a window
          calls        \* calls of Allow so far

vars == <<now, skew, delay, counter, sent, taken, calls>>

WindowID == 0..((MaxTime + MaxSkew) \div Window)
Key == Credential \X WindowID
Counter == [count : Nat \ {0}, ttl : 1..Window]

ASSUME NoCounterAssumption == None \notin Counter

\* Types: a key in Redis has time to live left, at most a window.
TypeOK ==
  /\ now \in 0..MaxTime /\ skew \in [Runtime -> 0..MaxSkew] /\ delay \in 0..MaxDelay
  /\ counter \in [Key -> Counter \cup {None}]
  /\ sent \in [Key \X (0..MaxDelay) -> Nat]
  /\ taken \in [Key -> [0..Window -> Nat]]
  /\ calls \in 0..MaxCalls

Init ==
  /\ now = 0
  /\ skew \in [Runtime -> 0..MaxSkew] /\ delay \in 0..MaxDelay
  /\ counter = [key \in Key |-> None]
  /\ sent = [c \in Key \X (0..MaxDelay) |-> 0]
  /\ taken = [key \in Key |-> [n \in 0..Window |-> 0]]
  /\ calls = 0

\* An authenticated request arrives at r: the window's number is taken from r's clock.
Allow(r, k) ==
  /\ calls < MaxCalls
  /\ calls' = calls + 1
  /\ sent' = [sent EXCEPT ![<< <<k, (now + skew[r]) \div Window>>, 0 >>] = @ + 1]
  /\ UNCHANGED <<now, skew, delay, counter, taken>>

\* Mutant: the life of the key starts anew with every request that is allowed.
CommandRateScriptRenews(old) ==
  IF old = None THEN [count |-> 1, ttl |-> Window]
  ELSE [count |-> old.count + 1, ttl |-> IF old.count < Limit THEN Window ELSE old.ttl]

\* commandRateScript: INCR, and PEXPIRE if the key is new.
CommandRateScript(old) ==
  IF old = None THEN [count |-> 1, ttl |-> Window]
  ELSE [old EXCEPT !.count = @ + 1]

\* Mutant: one request too many is allowed.
WithinLimitOrOneMore(count) == count <= Limit + 1

\* Mutant: one request too few is allowed.
WithinLimitButOne(count) == count < Limit

\* Allow: count <= limiter.limit.
WithinLimit(count) == count <= Limit

\* The script runs.  The reply is "allowed", "too many requests", or it is lost:
\* the client then sends the script again (again) or the caller answers 503.
RunScript(key, age, again) ==
  /\ sent[<<key, age>>] > 0
  /\ again => calls < MaxCalls
  /\ calls' = IF again THEN calls + 1 ELSE calls
  /\ counter' = [counter EXCEPT ![key] = CommandRateScript(@)]
  /\ sent' = IF again THEN sent ELSE [sent EXCEPT ![<<key, age>>] = @ - 1]
  /\ taken' = IF WithinLimit(counter'[key].count)
              THEN [taken EXCEPT ![key] = [n \in 0..Window |-> IF n = 0 THEN 0 ELSE @[n] + 1]]
              ELSE taken
  /\ UNCHANGED <<now, skew, delay>>

\* The call fails before the script has run: the caller answers 503.
CallFails(key, age) ==
  /\ sent[<<key, age>>] > 0
  /\ sent' = [sent EXCEPT ![<<key, age>>] = @ - 1]
  /\ UNCHANGED <<now, skew, delay, counter, taken, calls>>

\* Mutant: the keys live one tick too long.
TickOneTooLate ==
  /\ now < MaxTime
  /\ \A key \in Key : sent[<<key, delay>>] = 0
  /\ now' = now + 1
  /\ counter' = [key \in Key |->
       IF counter[key] = None \/ counter[key].ttl = 0 THEN None
       ELSE [counter[key] EXCEPT !.ttl = @ - 1]]
  /\ sent' = [c \in DOMAIN sent |-> IF c[2] = 0 THEN 0 ELSE sent[<<c[1], c[2] - 1>>]]
  /\ taken' = [key \in Key |-> [n \in 0..Window |-> IF n < 2 THEN 0 ELSE taken[key][n - 1]]]
  /\ UNCHANGED <<skew, delay, calls>>

\* Redis drops the keys whose time is over; no call takes longer than delay.
Tick ==
  /\ now < MaxTime
  /\ \A key \in Key : sent[<<key, delay>>] = 0
  /\ now' = now + 1
  /\ counter' = [key \in Key |->
       IF counter[key] = None \/ counter[key].ttl = 1 THEN None
       ELSE [counter[key] EXCEPT !.ttl = @ - 1]]
  /\ sent' = [c \in DOMAIN sent |-> IF c[2] = 0 THEN 0 ELSE sent[<<c[1], c[2] - 1>>]]
  /\ taken' = [key \in Key |-> [n \in 0..Window |-> IF n < 2 THEN 0 ELSE taken[key][n - 1]]]
  /\ UNCHANGED <<skew, delay, calls>>

Next ==
  \/ \E r \in Runtime, k \in Credential : Allow(r, k)
  \/ \E key \in Key, age \in 0..MaxDelay :
       \/ \E again \in BOOLEAN : RunScript(key, age, again)
       \/ CallFails(key, age)
  \/ Tick

Spec == Init /\ [][Next]_vars
-----------------------------------------------------------------------------
\* Places of the limit given to a credential within the last Window ticks.
Burst(k) == Cardinality(UNION {{w} \X (1..taken[<<k, w>>][Window]) : w \in WindowID})

\* No clock is so far ahead, and no call takes so long, that the two together
\* exceed a window.
Punctual == \A r \in Runtime : skew[r] + delay <= Window

Synchronous == delay = 0 /\ \A r \in Runtime : skew[r] = 0

\* With one clock and calls that take no time a credential is allowed at most
\* 2 * Limit requests within the length of a window.  Clocks that differ and calls
\* that take time, by at most a window together, let three windows overlap and two
\* counters be born again: it is 5 * Limit - 2 requests then.
BurstBounded ==
  \A k \in Credential : /\ Synchronous => Burst(k) <= 2 * Limit
                        /\ Punctual => Burst(k) <= 5 * Limit - 2

\* A request is refused only if all Limit places were given away within the last
\* Window ticks, whatever the clocks say.
RefusedOnlyWhenUsedUp ==
  \A key \in Key :
    counter[key] # None /\ ~WithinLimit(counter[key].count + 1) => Burst(key[1]) >= Limit

\* The life of a counter runs from the first request it counted, and no later one
\* prolongs it: since the tick its time to live dates from, that tick included, all
\* it has counted was given away, the first place in that very tick.
LifeFromFirstUse ==
  \A key \in Key :
    counter[key] # None =>
      LET age == Window - counter[key].ttl
          own == taken[key][age + 1]
      IN  /\ own > taken[key][age]
          /\ own = IF WithinLimit(counter[key].count) THEN counter[key].count ELSE Limit
=============================================================================
