--------------------------- MODULE InboundProofs ---------------------------
(***************************************************************************)
(* Proofs about Inbound, for any messages, configurations, limits, rules    *)
(* and length of a minute: the types, the bound on what a minute lets       *)
(* through, and that the most important rule decides which agent answers.   *)
(***************************************************************************)
EXTENDS Inbound, TLAPS, FiniteSetTheorems, WellFoundedInduction

(* The inductive invariant.                                                *)

\* An event was let through in a window of its user, as the nth of it, while the
\* window lasted; only the first is as old as the window.
EventInv ==
    \A event \in emitted :
        /\ event.window \in 0..time /\ event.nth \in 1..maxPerMinute
        /\ event.at \in event.window..(event.window + Minute)
        /\ event.at + Minute >= time
        /\ event.nth = 1 => event.at = event.window

\* It is counted in the window that is open, or that window opened more than a
\* minute after its own.
WindowInv ==
    \A event \in emitted :
        LET limit == rateLimits[event.user]
        IN  \/ event.window = limit.windowStart /\ event.nth <= limit.count
            \/ event.window + Minute < limit.windowStart

\* Of one user, events of two windows are apart, and events of one have their places.
ApartInv ==
    \A e, f \in emitted :
        e.user = f.user =>
            /\ (e.window = f.window /\ e.nth = f.nth => e = f)
            /\ (e.window < f.window => e.window + Minute < f.window)

RateInv == EventInv /\ WindowInv /\ ApartInv

-----------------------------------------------------------------------------
(* What handleInbound does.                                                *)

\* The limit of a user stays within its type, and an event that goes out is the next
\* of the window (isRateLimited).
LEMMA CountedLimit ==
    ASSUME TypeOK, NEW u \in User
    PROVE  /\ Counted(u) \in [User -> {None} \cup [count : Nat \ {0}, windowStart : 0..time]]
           /\ Counted(u)[u] # None
           /\ \A v \in User : v # u => Counted(u)[v] = rateLimits[v]
           /\ WindowIsOver(rateLimits[u]) =>
                 Counted(u)[u].count = 1 /\ Counted(u)[u].windowStart = time
           /\ ~WindowIsOver(rateLimits[u]) =>
                 /\ rateLimits[u] # None
                 /\ Counted(u)[u].windowStart = rateLimits[u].windowStart
                 /\ Counted(u)[u].count >= rateLimits[u].count
                 /\ ~isRateLimited(u) =>
                       /\ Counted(u)[u].count = rateLimits[u].count + 1
                       /\ Counted(u)[u].count <= maxPerMinute
<1> DEFINE L == rateLimits[u]
           Limit == [count : Nat \ {0}, windowStart : 0..time]
<1>1. /\ time \in Nat /\ maxPerMinute \in Nat \ {0} /\ L \in {None} \cup Limit
      /\ rateLimits \in [User -> {None} \cup Limit]
  BY InboundAssumption DEF TypeOK
<1>2. \A l \in Limit : l # None
  BY <1>1, InboundAssumption
<1>3. CASE WindowIsOver(L)
  <2>1. Counted(u) = [rateLimits EXCEPT ![u] = [count |-> 1, windowStart |-> time]]
    BY <1>1, <1>3 DEF Counted
  <2>2. [count |-> 1, windowStart |-> time] \in Limit
    BY <1>1
  <2> QED
    BY <1>1, <1>2, <1>3, <2>1, <2>2
<1>4. CASE ~WindowIsOver(L)
  <2>1. L # None /\ L \in Limit
    BY <1>1, <1>4 DEF WindowIsOver
  <2>2. CASE L.count > maxPerMinute
    <3>1. Counted(u) = [rateLimits EXCEPT ![u] = L]
      BY <1>1, <1>4, <2>2 DEF Counted
    <3>2. isRateLimited(u)
      BY <1>1, <1>4, <2>1, <2>2 DEF isRateLimited
    <3>3. Counted(u)[u] = L /\ L.count >= L.count
      BY <1>1, <2>1, <3>1
    <3>4. Counted(u) \in [User -> {None} \cup Limit]
      BY <1>1, <3>1
    <3> QED
      BY <1>1, <1>4, <2>1, <3>1, <3>2, <3>3, <3>4
  <2>3. CASE ~(L.count > maxPerMinute)
    <3> DEFINE more == [count |-> L.count + 1, windowStart |-> L.windowStart]
    <3>1. Counted(u) = [rateLimits EXCEPT ![u] = more]
      BY <1>1, <1>4, <2>3 DEF Counted
    <3>2. more \in Limit /\ more.windowStart = L.windowStart /\ more.count = L.count + 1
      BY <2>1
    <3>3. ~isRateLimited(u) => more.count <= maxPerMinute
      BY <1>1, <1>4, <2>1, <3>2 DEF isRateLimited
    <3> HIDE DEF more
    <3>4. Counted(u)[u] = more /\ more # None /\ L.count \in Nat
      BY <1>1, <1>2, <2>1, <3>1, <3>2
    <3> QED
      BY <1>1, <1>4, <2>1, <3>1, <3>2, <3>3, <3>4
  <2> QED
    BY <2>2, <2>3
<1> QED
  BY <1>3, <1>4

\* What a message does to the events: nothing, or one more of the sender's window.
LEMMA Emits ==
    ASSUME NEW u, NEW channel, handleInbound(u, channel), NEW event \in emitted'
    PROVE  \/ event \in emitted
           \/ /\ ~isRateLimited(u) /\ event.agent # None
              /\ event.user = u /\ event.at = time
              /\ event.window = rateLimits'[u].windowStart
              /\ event.nth = rateLimits'[u].count
<1> DEFINE fresh == [user |-> u, channel |-> channel, agent |-> resolveAgent(u, channel),
                     at |-> time, window |-> Counted(u)[u].windowStart,
                     nth |-> Counted(u)[u].count]
<1>1. /\ rateLimits' = Counted(u)
      /\ \/ emitted' = emitted
         \/ ~isRateLimited(u) /\ resolveAgent(u, channel) # None
            /\ emitted' = emitted \cup {fresh}
  BY DEF handleInbound
<1> QED
  BY <1>1

\* Two events that one message lets through are one.
LEMMA EmitsOne ==
    ASSUME NEW u, NEW channel, handleInbound(u, channel),
           NEW e \in emitted' \ emitted, NEW f \in emitted' \ emitted
    PROVE  e = f
BY DEF handleInbound

\* A message keeps the types and the invariant, whoever sends it, whatever the agent.
LEMMA InboundKeeps ==
    ASSUME TypeOK, RateInv, NEW u \in User, NEW channel, handleInbound(u, channel),
           time' = time, \A ask \in deferring' : ask[1] \in User
    PROVE  TypeOK' /\ RateInv'
<1> DEFINE Limit == [count : Nat \ {0}, windowStart : 0..time]
           old == rateLimits[u]
           new == rateLimits'[u]
<1>1. /\ time \in Nat /\ Minute \in Nat \ {0} /\ maxPerMinute \in Nat \ {0}
      /\ rateLimits \in [User -> {None} \cup Limit]
  BY InboundAssumption DEF TypeOK
<1>2. rateLimits' = Counted(u)
  BY DEF handleInbound
<1>3. /\ rateLimits' \in [User -> {None} \cup Limit]
      /\ new # None
      /\ \A v \in User : v # u => rateLimits'[v] = rateLimits[v]
      /\ WindowIsOver(old) => new.count = 1 /\ new.windowStart = time
      /\ ~WindowIsOver(old) =>
            /\ old # None /\ new.windowStart = old.windowStart /\ new.count >= old.count
            /\ ~isRateLimited(u) =>
                  new.count = old.count + 1 /\ new.count <= maxPerMinute
  BY <1>2, CountedLimit
<1>4. new \in Limit /\ (old # None => old \in Limit)
  BY <1>1, <1>3
<1>5. /\ new.count \in Nat \ {0} /\ new.windowStart \in 0..time
      /\ old # None => old.count \in Nat \ {0} /\ old.windowStart \in 0..time
  BY <1>4
<1>6. old # None /\ WindowIsOver(old) => old.windowStart + Minute < time
  BY <1>1, <1>5 DEF WindowIsOver
<1> HIDE DEF Limit, old, new
<1>7. ASSUME NEW event \in emitted' \ emitted
      PROVE  /\ ~isRateLimited(u) /\ event.agent # None
             /\ event.user = u /\ event.at = time
             /\ event.window = new.windowStart /\ event.nth = new.count
  BY <1>7, Emits DEF new
<1>8. ASSUME NEW event \in emitted
      PROVE  /\ event.user \in User /\ event.agent # None /\ event.at \in 0..time
             /\ rateLimits[event.user] # None
             /\ event.window \in 0..time /\ event.nth \in 1..maxPerMinute
             /\ event.at \in event.window..(event.window + Minute)
             /\ event.at + Minute >= time
             /\ (event.nth = 1 => event.at = event.window)
  BY DEF TypeOK, RateInv, EventInv
<1>9. ASSUME NEW event \in emitted, event.user = u
      PROVE  /\ old # None
             /\ \/ event.window = old.windowStart /\ event.nth <= old.count
                \/ event.window + Minute < old.windowStart
  BY <1>8, <1>9 DEF RateInv, WindowInv, old
<1>10. TypeOK'
  <2>1. rateLimits' \in [User -> {None} \cup [count : Nat \ {0}, windowStart : 0..time']]
    BY <1>3 DEF Limit
  <2>2. ASSUME NEW event \in emitted'
        PROVE  /\ event.user \in User /\ event.agent # None /\ event.at \in 0..time'
               /\ rateLimits'[event.user] # None
    <3>1. CASE event \in emitted
      BY <1>3, <1>8, <3>1 DEF new
    <3>2. CASE event \notin emitted
      BY <1>1, <1>3, <1>7, <3>2 DEF new
    <3> QED
      BY <3>1, <3>2
  <2> QED
    BY <2>1, <2>2 DEF TypeOK
<1>11. EventInv'
  <2> SUFFICES ASSUME NEW event \in emitted'
               PROVE  /\ event.window \in 0..time /\ event.nth \in 1..maxPerMinute
                      /\ event.at \in event.window..(event.window + Minute)
                      /\ event.at + Minute >= time
                      /\ (event.nth = 1 => event.at = event.window)
    BY DEF EventInv
  <2>1. CASE event \in emitted
    BY <1>8, <2>1
  <2>2. CASE event \notin emitted
    <3>1. event.at = time /\ event.window = new.windowStart /\ event.nth = new.count
          /\ ~isRateLimited(u)
      BY <1>7, <2>2
    <3>2. CASE WindowIsOver(old)
      BY <1>1, <1>3, <3>1, <3>2
    <3>3. CASE ~WindowIsOver(old)
      <4>1. time <= old.windowStart + Minute
        BY <1>1, <1>3, <1>5, <3>3 DEF WindowIsOver
      <4> QED
        BY <1>1, <1>3, <1>5, <3>1, <3>3, <4>1
    <3> QED
      BY <3>2, <3>3
  <2> QED
    BY <2>1, <2>2
<1>12. WindowInv'
  <2> SUFFICES ASSUME NEW event \in emitted'
               PROVE  \/ /\ event.window = rateLimits'[event.user].windowStart
                         /\ event.nth <= rateLimits'[event.user].count
                      \/ event.window + Minute < rateLimits'[event.user].windowStart
    BY DEF WindowInv
  <2>1. CASE event \notin emitted
    BY <1>5, <1>7, <2>1 DEF new
  <2>2. CASE event \in emitted /\ event.user # u
    BY <1>3, <1>8, <2>2 DEF RateInv, WindowInv
  <2>3. CASE event \in emitted /\ event.user = u
    <3>1. /\ old # None
          /\ \/ event.window = old.windowStart /\ event.nth <= old.count
             \/ event.window + Minute < old.windowStart
      BY <1>9, <2>3
    <3>2. event.window \in Nat /\ event.nth \in Nat
      BY <1>1, <1>8, <2>3
    <3>3. CASE WindowIsOver(old)
      <4>1. event.window + Minute < new.windowStart
        BY <1>1, <1>3, <1>5, <1>6, <3>1, <3>2, <3>3
      <4> QED
        BY <2>3, <4>1 DEF new
    <3>4. CASE ~WindowIsOver(old)
      <4>1. \/ event.window = new.windowStart /\ event.nth <= new.count
            \/ event.window + Minute < new.windowStart
        BY <1>1, <1>3, <1>5, <3>1, <3>2, <3>4
      <4> QED
        BY <2>3, <4>1 DEF new
    <3> QED
      BY <3>3, <3>4
  <2> QED
    BY <2>1, <2>2, <2>3
<1>13. ASSUME NEW e \in emitted, e.user = u, ~isRateLimited(u)
       PROVE  /\ e.window <= new.windowStart
              /\ e.window = new.windowStart => e.nth < new.count
              /\ e.window < new.windowStart => e.window + Minute < new.windowStart
  <2>1. /\ old # None
        /\ \/ e.window = old.windowStart /\ e.nth <= old.count
           \/ e.window + Minute < old.windowStart
    BY <1>9, <1>13
  <2>2. e.window \in Nat /\ e.nth \in Nat
    BY <1>1, <1>8
  <2>3. CASE WindowIsOver(old)
    BY <1>1, <1>3, <1>5, <1>6, <2>1, <2>2, <2>3
  <2>4. CASE ~WindowIsOver(old)
    BY <1>1, <1>3, <1>5, <1>13, <2>1, <2>2, <2>4
  <2> QED
    BY <2>3, <2>4
<1>14. ApartInv'
  <2> SUFFICES ASSUME NEW e \in emitted', NEW f \in emitted', e.user = f.user
               PROVE  /\ (e.window = f.window /\ e.nth = f.nth => e = f)
                      /\ (e.window < f.window => e.window + Minute < f.window)
    BY DEF ApartInv
  <2>1. CASE e \in emitted /\ f \in emitted
    BY <2>1 DEF RateInv, ApartInv
  <2>2. CASE e \notin emitted /\ f \notin emitted
    <3>1. e = f /\ e.window \in Nat
      BY <1>1, <1>5, <1>7, <2>2, EmitsOne
    <3> QED
      BY <3>1
  <2>3. CASE e \in emitted /\ f \notin emitted
    <3>1. /\ ~isRateLimited(u) /\ f.user = u
          /\ f.window = new.windowStart /\ f.nth = new.count
      BY <1>7, <2>3
    <3>2. e.nth \in Nat
      BY <1>1, <1>8, <2>3
    <3> QED
      BY <1>5, <1>13, <2>3, <3>1, <3>2
  <2>4. CASE e \notin emitted /\ f \in emitted
    <3>1. /\ ~isRateLimited(u) /\ e.user = u
          /\ e.window = new.windowStart /\ e.nth = new.count
      BY <1>7, <2>4
    <3>2. f.window \in Nat /\ f.nth \in Nat
      BY <1>1, <1>8, <2>4
    <3>3. f.window <= e.window /\ (f.window = e.window => f.nth < e.nth)
      BY <1>13, <2>4, <3>1
    <3>4. e.window \in Nat /\ e.nth \in Nat
      BY <1>1, <1>5, <3>1
    <3> QED
      BY <3>2, <3>3, <3>4
  <2> QED
    BY <2>1, <2>2, <2>3, <2>4
<1> QED
  BY <1>10, <1>11, <1>12, <1>14 DEF RateInv

-----------------------------------------------------------------------------
(* The invariant over all steps.                                           *)

\* Time passes: what was let through more than a minute ago is forgotten.
LEMMA TickKeeps == TypeOK /\ RateInv /\ Tick => TypeOK' /\ RateInv'
<1> SUFFICES ASSUME TypeOK, RateInv, Tick PROVE TypeOK' /\ RateInv'
  OBVIOUS
<1>1. /\ time \in Nat /\ time' = time + 1 /\ time' \in 0..MaxTime
      /\ 0..time \subseteq 0..time'
      /\ Minute \in Nat /\ maxPerMinute \in Nat
      /\ UNCHANGED <<rateLimits, deferring>>
  BY InboundAssumption DEF Tick, TypeOK
<1>2. \A event \in emitted' : event \in emitted /\ event.at + Minute > time
  BY DEF Tick
<1>3. rateLimits' \in [User -> {None} \cup [count : Nat \ {0}, windowStart : 0..time']]
  <2>1. [count : Nat \ {0}, windowStart : 0..time]
           \subseteq [count : Nat \ {0}, windowStart : 0..time']
    BY <1>1
  <2> QED
    BY <1>1, <2>1 DEF TypeOK
<1>4. \A event \in emitted : event.at \in 0..time' /\ event.at \in Nat
  BY <1>1 DEF TypeOK
<1>5. TypeOK'
  BY <1>1, <1>2, <1>3, <1>4 DEF TypeOK
<1>6. EventInv'
  BY <1>1, <1>2, <1>4 DEF RateInv, EventInv
<1>7. WindowInv' /\ ApartInv'
  BY <1>1, <1>2 DEF RateInv, WindowInv, ApartInv
<1> QED
  BY <1>5, <1>6, <1>7 DEF RateInv

\* Every step keeps the types and the invariant.
LEMMA RateStep == TypeOK /\ RateInv /\ [Next]_vars => TypeOK' /\ RateInv'
<1> SUFFICES ASSUME TypeOK, RateInv, [Next]_vars PROVE TypeOK' /\ RateInv'
  OBVIOUS
<1>0. \A ask \in deferring : ask[1] \in User
  BY DEF TypeOK
<1>1. CASE Tick
  BY <1>1, TickKeeps
<1>2. ASSUME NEW msg \in TelegramMessage, TelegramArrives(msg) PROVE TypeOK' /\ RateInv'
  <2>1. <<"telegram", msg.from>> \in User
    BY <1>2 DEF TelegramArrives, User
  <2> QED
    BY <1>0, <1>2, <2>1, InboundKeeps DEF TelegramArrives
<1>3. ASSUME NEW msg \in DiscordMessage, DiscordArrives(msg) PROVE TypeOK' /\ RateInv'
  <2>1. <<"discord", msg.from>> \in User
    BY DEF User
  <2> QED
    BY <1>0, <1>3, <2>1, InboundKeeps DEF DiscordArrives
<1>4. ASSUME NEW msg \in DiscordMessage, Ask(msg) PROVE TypeOK' /\ RateInv'
  <2>1. <<"discord", msg.from>> \in User
    BY DEF User
  <2> QED
    BY <1>4, <2>1 DEF Ask, TypeOK, RateInv, EventInv, WindowInv, ApartInv
<1>5. ASSUME NEW ask \in deferring, AskDeferred(ask) PROVE TypeOK' /\ RateInv'
  <2>1. ask[1] \in User /\ time' = time /\ \A other \in deferring' : other[1] \in User
    BY <1>0, <1>5 DEF AskDeferred
  <2>2. CASE handleInbound(ask[1], ask[2])
    BY <2>1, <2>2, InboundKeeps
  <2>3. CASE UNCHANGED <<rateLimits, emitted>>
    BY <2>1, <2>3 DEF TypeOK, RateInv, EventInv, WindowInv, ApartInv
  <2> QED
    BY <1>5, <2>2, <2>3 DEF AskDeferred
<1>6. ASSUME NEW msg \in WhatsAppMessage, WhatsAppArrives(msg) PROVE TypeOK' /\ RateInv'
  <2>1. <<"whatsapp", msg.participant>> \in User
    BY DEF User
  <2> QED
    BY <1>0, <1>6, <2>1, InboundKeeps DEF WhatsAppArrives
<1>7. CASE UNCHANGED vars
  BY <1>7 DEF vars, TypeOK, RateInv, EventInv, WindowInv, ApartInv
<1> QED
  BY <1>1, <1>2, <1>3, <1>4, <1>5, <1>6, <1>7 DEF Next

\* Nothing has been let through at first.
LEMMA RateInit == Init => TypeOK /\ RateInv
<1>1. 0 \in 0..MaxTime
  BY InboundAssumption
<1> QED
  BY <1>1 DEF Init, TypeOK, RateInv, EventInv, WindowInv, ApartInv

\* The router's map holds a count and the start of a window for each user who wrote, and
\* what goes out has a user and an agent.
THEOREM InboundTypeCorrect == Spec => []TypeOK
<1>1. Spec => [](TypeOK /\ RateInv)
  BY RateInit, RateStep, PTL DEF Spec
<1> QED
  BY <1>1, PTL

-----------------------------------------------------------------------------
(* The bound.                                                              *)

\* Events of one user and window have as many places as the numbers they may have.
LEMMA PlacesBound ==
    ASSUME NEW S, NEW a \in Nat, NEW b \in Nat, a <= b + 1,
           \A e \in S : e.nth \in a..b,
           \A e, f \in S : e.nth = f.nth => e = f
    PROVE  IsFiniteSet(S) /\ Cardinality(S) <= b - a + 1
<1> DEFINE place == [e \in S |-> e.nth]
<1>1. place \in Injection(S, a..b)
  BY DEF Injection, IsInjective
<1>2. IsFiniteSet(a..b) /\ Cardinality(a..b) = b - a + 1
  BY FS_Interval, FS_EmptySet
<1> HIDE DEF place
<1> QED
  BY <1>1, <1>2, FS_Injection

\* The events of a user are those of the open window and of one before it, the first
\* of which is gone.
LEMMA WindowsBound ==
    ASSUME TypeOK, RateInv, NEW u \in User
    PROVE  Cardinality({event \in emitted : event.user = u}) <= 2 * maxPerMinute - 1
<1> DEFINE W == rateLimits[u].windowStart
           mine == {event \in emitted : event.user = u}
           now == {event \in mine : event.window = W}
           earlier == {event \in mine : event.window # W}
<1>1. Minute \in Nat /\ maxPerMinute \in Nat \ {0} /\ time \in Nat
  BY InboundAssumption DEF TypeOK
<1>2. \A e \in mine : /\ e.window \in Nat /\ e.at \in Nat
                      /\ e.nth \in 1..maxPerMinute
                      /\ e.at <= e.window + Minute
                      /\ e.at + Minute >= time
                      /\ (e.nth = 1 => e.at = e.window)
  BY <1>1 DEF TypeOK, RateInv, EventInv
<1>3. \A e, f \in mine : /\ (e.window = f.window /\ e.nth = f.nth => e = f)
                        /\ (e.window < f.window => e.window + Minute < f.window)
  BY DEF RateInv, ApartInv
<1>4. \A e \in earlier : e.window + Minute < W
  BY DEF RateInv, WindowInv
<1>5. \A e \in mine : W \in 0..time
  <2>1. \A e \in mine : rateLimits[u] \in [count : Nat \ {0}, windowStart : 0..time]
    BY DEF TypeOK
  <2> QED
    BY <2>1
<1> HIDE DEF W
<1>6. IsFiniteSet(now) /\ Cardinality(now) <= maxPerMinute
  <2>1. \A e, f \in now : e.nth = f.nth => e = f
    BY <1>3
  <2>2. \A e \in now : e.nth \in 1..maxPerMinute
    BY <1>2
  <2> HIDE DEF now
  <2> QED
    BY <1>1, <2>1, <2>2, PlacesBound
<1>7. IsFiniteSet(earlier) /\ Cardinality(earlier) <= maxPerMinute - 1
  <2>1. \A e \in earlier : e.nth \in 2..maxPerMinute
    BY <1>1, <1>2, <1>4, <1>5
  <2>2. \A e, f \in earlier : ~(e.window < f.window)
    BY <1>1, <1>2, <1>3, <1>4, <1>5
  <2>3. \A e, f \in earlier : e.nth = f.nth => e = f
    BY <1>2, <1>3, <2>2
  <2> HIDE DEF earlier
  <2>4. 2 \in Nat /\ maxPerMinute \in Nat /\ 2 <= maxPerMinute + 1
    BY <1>1
  <2>5. IsFiniteSet(earlier) /\ Cardinality(earlier) <= maxPerMinute - 2 + 1
    BY <2>1, <2>3, <2>4, PlacesBound
  <2> QED
    BY <1>1, <2>5, FS_CardinalityType
<1>8. mine = now \cup earlier /\ now \cap earlier = {}
  OBVIOUS
<1> HIDE DEF now, earlier, mine
<1>9. Cardinality(mine) = Cardinality(now) + Cardinality(earlier)
  <2>1. Cardinality(now \cup earlier) =
           Cardinality(now) + Cardinality(earlier) - Cardinality(now \cap earlier)
    BY <1>6, <1>7, FS_Union
  <2>2. Cardinality(now \cap earlier) = 0
    BY <1>8, FS_EmptySet
  <2>3. Cardinality(now) \in Nat /\ Cardinality(earlier) \in Nat
    BY <1>6, <1>7, FS_CardinalityType
  <2> QED
    BY <1>8, <2>1, <2>2, <2>3
<1> QED
  BY <1>1, <1>6, <1>7, <1>9, FS_CardinalityType DEF mine

\* No stretch of a minute lets through twice the limit of a user's messages, at whatever
\* moments, in whichever chats and forms they are written, for any limit and any length
\* of a minute (isRateLimited, router.ts:246).
THEOREM MinuteIsBounded == Spec => []RouterBound
<1>1. Spec => [](TypeOK /\ RateInv)
  BY RateInit, RateStep, PTL DEF Spec
<1>2. TypeOK /\ RateInv => RouterBound
  BY WindowsBound DEF RouterBound
<1> QED
  BY <1>1, <1>2, PTL

-----------------------------------------------------------------------------
(* The agent that answers.                                                 *)

\* Every set of numbers has a least one (the library's WFMin for the order of Nat).
LEMMA LeastNatural ==
    ASSUME NEW T, T \subseteq Nat, T # {}
    PROVE  \E x \in T : \A y \in T : x <= y
<1> DEFINE R == {pair \in Nat \X Nat : pair[1] < pair[2]}
<1>1. IsWellFoundedOn(R, Nat)
  BY NatLessThanWellFounded DEF OpToRel
<1> HIDE DEF R
<1>2. \E x \in T : \A y \in T : <<y, x>> \notin R
  BY <1>1, WFMin
<1>3. \A x, y \in Nat : <<y, x>> \notin R => x <= y
  BY DEF R
<1> QED
  BY <1>2, <1>3

Rules == DOMAIN routing

\* What the constructor's sort is taken for.
IsSorting(p) == p \in [Rules -> Rules] /\ \A i, j \in Rules : i < j => before(p[i], p[j])

\* The rules are numbered as they stand in the configuration.
LEMMA RulesType ==
    /\ \E n \in Nat : Rules = 1..n
    /\ Rules \subseteq Nat /\ IsFiniteSet(Rules)
    /\ \A i \in Rules : routing[i].priority \in Int
<1>1. Len(routing) \in Nat /\ Rules = 1..Len(routing)
  BY InboundAssumption DEF Rules
<1>2. IsFiniteSet(Rules)
  BY <1>1, FS_Interval
<1>3. \A i \in Rules : routing[i] \in Range(routing)
  BY DEF Rules, Range
<1> QED
  BY <1>1, <1>2, <1>3, InboundAssumption

\* A strict order in which any two rules compare.
LEMMA BeforeOrders ==
    /\ \A i \in Rules : ~before(i, i)
    /\ \A i, j, k \in Rules : before(i, j) /\ before(j, k) => before(i, k)
    /\ \A i, j \in Rules : i # j => before(i, j) \/ before(j, i)
BY RulesType DEF before

\* The place of a rule among the sorted ones.
Rank == [i \in Rules |-> Cardinality({j \in Rules : before(j, i)}) + 1]

\* A rule's rank is above those of the rules that come before it.
LEMMA RankGrows ==
    /\ Rank \in [Rules -> Rules]
    /\ \A i, j \in Rules : before(i, j) => Rank[i] < Rank[j]
<1> DEFINE Above(i) == {j \in Rules : before(j, i)}
<1>1. PICK n \in Nat : Rules = 1..n
  BY RulesType
<1>2. IsFiniteSet(Rules) /\ Cardinality(Rules) = n
  BY <1>1, FS_Interval
<1>3. ASSUME NEW i \in Rules
      PROVE  IsFiniteSet(Above(i)) /\ Cardinality(Above(i)) \in Nat /\ Rank[i] \in Rules
  <2>1. Above(i) \in SUBSET (Rules \ {i})
    BY BeforeOrders
  <2>2. IsFiniteSet(Rules \ {i}) /\ Cardinality(Rules \ {i}) = n - 1
    BY <1>2, FS_RemoveElement
  <2>3. IsFiniteSet(Above(i)) /\ Cardinality(Above(i)) <= n - 1
    <3> HIDE DEF Above
    <3> QED
      BY <2>1, <2>2, FS_Subset
  <2>4. Cardinality(Above(i)) \in Nat
    <3> HIDE DEF Above
    <3> QED
      BY <2>3, FS_CardinalityType
  <2>5. Rank[i] = Cardinality(Above(i)) + 1
    BY DEF Rank
  <2> HIDE DEF Above
  <2>6. Rank[i] \in 1..n
    BY <2>3, <2>4, <2>5
  <2> QED
    BY <1>1, <2>3, <2>4, <2>6
<1>4. ASSUME NEW i \in Rules, NEW j \in Rules, before(i, j)
      PROVE  Rank[i] < Rank[j]
  <2>1. Above(i) \in SUBSET Above(j)
    BY <1>4, BeforeOrders
  <2>2. i \in Above(j) /\ i \notin Above(i)
    BY <1>4, BeforeOrders
  <2>3. Rank[i] = Cardinality(Above(i)) + 1 /\ Rank[j] = Cardinality(Above(j)) + 1
    BY DEF Rank
  <2>4. /\ IsFiniteSet(Above(j)) /\ Cardinality(Above(i)) \in Nat /\ Cardinality(Above(j)) \in Nat
    BY <1>3
  <2> HIDE DEF Above
  <2>5. /\ Cardinality(Above(i)) <= Cardinality(Above(j))
        /\ Cardinality(Above(j)) = Cardinality(Above(i)) => Above(j) = Above(i)
    BY <2>1, <2>4, FS_Subset
  <2> QED
    BY <2>2, <2>3, <2>4, <2>5
<1> QED
  BY <1>3, <1>4 DEF Rank

\* One-to-one on the rules is onto.
LEMMA OntoRules ==
    ASSUME NEW f \in [Rules -> Rules],
           \A i, j \in Rules : i # j => f[i] # f[j]
    PROVE  \A k \in Rules : \E i \in Rules : f[i] = k
<1>1. f \in Injection(Rules, Rules)
  BY DEF Injection, IsInjective
<1>2. f \in Surjection(Rules, Rules)
  BY <1>1, RulesType, FS_Injection
<1> QED
  BY <1>2 DEF Surjection

\* The rules can be sorted: by their ranks.
LEMMA SortingExists == \E p : IsSorting(p)
<1>1. /\ Rank \in [Rules -> Rules]
      /\ \A i, j \in Rules : before(i, j) => Rank[i] < Rank[j]
  BY RankGrows
<1>2. \A i, j \in Rules : i # j => Rank[i] # Rank[j]
  <2> TAKE i, j \in Rules
  <2> HAVE i # j
  <2>1. Rank[i] \in Nat /\ Rank[j] \in Nat
    BY <1>1, RulesType
  <2>2. before(i, j) \/ before(j, i)
    BY BeforeOrders
  <2> QED
    BY <1>1, <2>1, <2>2
<1>3. \A k \in Rules : \E i \in Rules : Rank[i] = k
  BY <1>1, <1>2, OntoRules
<1> DEFINE p == [k \in Rules |-> CHOOSE i \in Rules : Rank[i] = k]
<1>4. \A k \in Rules : p[k] \in Rules /\ Rank[p[k]] = k
  BY <1>3
<1>5. p \in [Rules -> Rules]
  BY <1>4
<1>6. ASSUME NEW i \in Rules, NEW j \in Rules, i < j
      PROVE  before(p[i], p[j])
  <2> HIDE DEF p
  <2>1. i \in Nat /\ j \in Nat
    BY RulesType
  <2>2. p[i] # p[j]
    BY <1>4, <1>6, <2>1
  <2>3. ~before(p[j], p[i])
    <3>1. p[i] \in Rules /\ p[j] \in Rules /\ Rank[p[i]] = i /\ Rank[p[j]] = j
      BY <1>4
    <3>2. before(p[j], p[i]) => j < i
      BY <1>1, <3>1
    <3> QED
      BY <1>6, <2>1, <3>2
  <2> QED
    BY <1>4, <2>2, <2>3, BeforeOrders
<1> HIDE DEF p
<1>7. IsSorting(p)
  BY <1>5, <1>6 DEF IsSorting
<1> QED
  BY <1>7

\* The router's list holds every rule, those that come before others first.
LEMMA RoutesAreSorted ==
    \E p : /\ IsSorting(p)
           /\ \A k \in Rules : \E i \in Rules : p[i] = k
           /\ DOMAIN routes = Rules
           /\ \A i \in Rules : routes[i] = routing[p[i]]
<1> DEFINE order == CHOOSE p \in [Rules -> Rules] :
                        \A i, j \in Rules : i < j => before(p[i], p[j])
<1>1. IsSorting(order)
  BY SortingExists DEF IsSorting
<1>2. routes = [k \in Rules |-> routing[order[k]]]
  BY DEF routes, Rules
<1> HIDE DEF order
<1>3. order \in [Rules -> Rules]
  BY <1>1 DEF IsSorting
<1>4. \A i, j \in Rules : i # j => order[i] # order[j]
  <2> TAKE i, j \in Rules
  <2> HAVE i # j
  <2>1. i < j \/ j < i
    BY RulesType
  <2>2. before(order[i], order[j]) \/ before(order[j], order[i])
    BY <1>1, <2>1 DEF IsSorting
  <2> QED
    BY <1>3, <2>2, BeforeOrders
<1>5. \A k \in Rules : \E i \in Rules : order[i] = k
  BY <1>3, <1>4, OntoRules
<1> QED
  BY <1>1, <1>2, <1>5

\* Whom the rules give a message to.
IsRouted(user, channel, agent) ==
    LET rules == {k \in Rules : Matches(routing[k], user, channel)}
    IN  IF rules = {} THEN agent = agents[1]
        ELSE \E k \in rules : /\ agent = routing[k].agentId
                              /\ \A other \in rules \ {k} : before(k, other)

\* The first rule of the list that matches is the first of those that match.
LEMMA ResolvedByPriority ==
    ASSUME NEW user, NEW channel, resolveAgent(user, channel) # None
    PROVE  IsRouted(user, channel, resolveAgent(user, channel))
<1> DEFINE rules == {k \in Rules : Matches(routing[k], user, channel)}
           matching == {k \in DOMAIN routes : Matches(routes[k], user, channel)}
           agent == resolveAgent(user, channel)
<1>1. PICK p : /\ IsSorting(p)
               /\ \A k \in Rules : \E i \in Rules : p[i] = k
               /\ DOMAIN routes = Rules
               /\ \A i \in Rules : routes[i] = routing[p[i]]
  BY RoutesAreSorted
<1>2. /\ p \in [Rules -> Rules] /\ \A i, j \in Rules : i < j => before(p[i], p[j])
  BY <1>1 DEF IsSorting
<1>3. \A i \in Rules : i \in matching <=> p[i] \in rules
  BY <1>1, <1>2
<1>4. agent = IF matching # {} THEN routes[Min(matching)].agentId
              ELSE IF agents # <<>> THEN Head(agents) ELSE None
  BY DEF resolveAgent
<1>5. matching \subseteq Rules /\ rules \subseteq Rules
  BY <1>1
<1>6. IF rules = {} THEN agent = agents[1]
      ELSE \E k \in rules : /\ agent = routing[k].agentId
                            /\ \A other \in rules \ {k} : before(k, other)
  <2> HIDE DEF rules, matching
  <2>1. CASE rules = {}
    <3>1. matching = {}
      BY <1>3, <1>5, <2>1
    <3>2. agent = Head(agents) /\ agents # <<>>
      BY <1>4, <3>1
    <3>3. Head(agents) = agents[1]
      BY <3>2, InboundAssumption
    <3> QED
      BY <2>1, <3>2, <3>3
  <2>2. CASE rules # {}
    <3>1. matching # {}
      BY <1>1, <1>3, <1>5, <2>2
    <3>2. PICK x \in matching : \A y \in matching : x <= y
      BY <1>5, <3>1, RulesType, LeastNatural
    <3> DEFINE m == Min(matching)
    <3>3. m \in matching /\ \A y \in matching : m <= y
      BY <3>2 DEF Min
    <3> HIDE DEF m
    <3>4. p[m] \in rules /\ m \in Rules
      BY <1>3, <1>5, <3>3
    <3>5. agent = routing[p[m]].agentId
      BY <1>1, <1>4, <3>1, <3>4 DEF m
    <3>6. ASSUME NEW other \in rules, other # p[m]
          PROVE  before(p[m], other)
      <4>1. PICK i \in Rules : p[i] = other
        BY <1>1, <1>5
      <4>2. i \in matching /\ i # m
        BY <1>3, <3>6, <4>1
      <4>3. m < i
        BY <1>5, <3>3, <4>2, RulesType
      <4> QED
        BY <1>2, <3>4, <4>1, <4>3
    <3> QED
      BY <2>2, <3>4, <3>5, <3>6
  <2> QED
    BY <2>1, <2>2
<1> QED
  BY <1>6 DEF IsRouted

\* Every event went where the rules say.
RoutedInv == \A event \in emitted : IsRouted(event.user, event.channel, event.agent)

\* What a message lets through goes where the rules say, the rest stays.
LEMMA RoutedInbound ==
    ASSUME RoutedInv, NEW u, NEW channel, handleInbound(u, channel)
    PROVE  RoutedInv'
<1> SUFFICES ASSUME NEW event \in emitted'
             PROVE  IsRouted(event.user, event.channel, event.agent)
  BY DEF RoutedInv, IsRouted, Rules, Matches, before
<1>1. CASE event \in emitted
  BY <1>1 DEF RoutedInv
<1>2. CASE event \notin emitted
  <2>1. /\ resolveAgent(u, channel) # None
        /\ event.user = u /\ event.channel = channel /\ event.agent = resolveAgent(u, channel)
    BY <1>2 DEF handleInbound
  <2> QED
    BY <2>1, ResolvedByPriority
<1> QED
  BY <1>1, <1>2

\* Only messages let events through.
LEMMA RoutedStep == RoutedInv /\ [Next]_vars => RoutedInv'
<1> SUFFICES ASSUME RoutedInv, [Next]_vars PROVE RoutedInv'
  OBVIOUS
<1>1. CASE \E u, channel : handleInbound(u, channel)
  BY <1>1, RoutedInbound
<1>2. CASE emitted' \subseteq emitted
  BY <1>2 DEF RoutedInv, IsRouted, Rules, Matches, before
<1> QED
  BY <1>1, <1>2 DEF Next, Tick, TelegramArrives, DiscordArrives, Ask, AskDeferred,
                    WhatsAppArrives, vars

\* Whatever the rules, their priorities and overlaps, and whoever writes where, a message
\* goes to the agent of the most important rule about it, the earlier one of two that are
\* as important, and to the first agent when no rule is about it (router.ts, the sort of
\* the constructor and resolveAgent): the sort exists, loses no rule, and the loop that
\* returns at the first match finds the one that precedes all the others.
THEOREM RoutedAsConfigured == Spec => []RoutedByPriority
<1>1. Init => RoutedInv
  BY DEF Init, RoutedInv
<1>2. RoutedInv => RoutedByPriority
  <2> SUFFICES ASSUME RoutedInv, NEW event \in emitted
               PROVE  LET rules == {k \in DOMAIN routing : About(routing[k], event)}
                      IN  IF rules = {} THEN event.agent = agents[1]
                          ELSE \E k \in rules :
                                  /\ event.agent = routing[k].agentId
                                  /\ \A other \in rules \ {k} :
                                        \/ routing[other].priority < routing[k].priority
                                        \/ routing[other].priority = routing[k].priority
                                           /\ k < other
    BY DEF RoutedByPriority
  <2>1. IsRouted(event.user, event.channel, event.agent)
    BY DEF RoutedInv
  <2>2. \A rule : About(rule, event) <=> Matches(rule, event.user, event.channel)
    BY DEF About, Matches
  <2>3. \A k, other \in Rules :
            before(k, other) => \/ routing[other].priority < routing[k].priority
                                \/ routing[other].priority = routing[k].priority /\ k < other
    BY RulesType DEF before
  <2> QED
    BY <2>1, <2>2, <2>3 DEF IsRouted, Rules
<1> QED
  BY <1>1, <1>2, RoutedStep, PTL DEF Spec
=============================================================================
