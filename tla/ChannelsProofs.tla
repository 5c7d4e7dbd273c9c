--------------------------- MODULE ChannelsProofs ---------------------------
(***************************************************************************)
(* Proofs about the channel adapters.  A connection is only ever made again  *)
(* when the one before it is over; what is split of a text shows all of its *)
(* ink in order, for any text; and an outbound message goes through the life *)
(* that Delivery describes.                                                 *)
(*                                                                         *)
(* splitMessage, Ink and TextShown are recursive functions.  What they      *)
(* return is proved by induction, which LeastNatural takes from the order   *)
(* of the numbers: a set of numbers stands for the predicate.               *)
(***************************************************************************)
EXTENDS Channels, TLAPS, FiniteSetTheorems, SequenceTheorems, WellFoundedInduction

\* The sockets that hold the account's session.
Active == {s \in Socket : socket[s] \in {"pairing", "open", "closing"}}

\* OneConnection with what it needs to be inductive: types, and that before
\* startAll nothing has been connected.
ConnectionInv ==
    /\ socket \in [Socket -> {"none", "pairing", "open", "closing", "closed"}]
    /\ link \in Socket \cup {None}
    /\ connecting \in Nat /\ timers \in Nat
    /\ router = "idle" => connecting = 0 /\ timers = 0 /\ Active = {}
    /\ connecting + timers + Cardinality(Active) <= 1

LEMMA SocketsFinite ==
    /\ IsFiniteSet(Socket)
    /\ \A S \in SUBSET Socket : IsFiniteSet(S) /\ Cardinality(S) \in Nat
<1>1. IsFiniteSet(Socket)
  BY FS_Interval, ChannelsAssumption DEF Socket
<1>2. QED
  BY <1>1, FS_Subset, FS_CardinalityType

LEMMA ActiveFinite == IsFiniteSet(Active) /\ Cardinality(Active) \in Nat
BY SocketsFinite DEF Active

\* A socket that ends, or goes on as it is, adds nothing to the active ones.
LEMMA FewerActive ==
    ASSUME Active' \subseteq Active
    PROVE  Cardinality(Active') \in Nat /\ Cardinality(Active') <= Cardinality(Active)
BY ActiveFinite, FS_Subset, FS_CardinalityType

\* A socket that was active and has ended leaves room for one timer.
LEMMA OneFewerActive ==
    ASSUME NEW s \in Active, Active' = Active \ {s}
    PROVE  Cardinality(Active') = Cardinality(Active) - 1
BY ActiveFinite, FS_RemoveElement

\* startAll: the first connection, made or in the making.
LEMMA StartAllKeepsInv ==
    ASSUME ConnectionInv, StartAll
    PROVE  ConnectionInv'
<1>1. connecting = 0 /\ timers = 0 /\ Active = {} /\ Cardinality(Active) = 0
  BY FS_EmptySet DEF ConnectionInv, StartAll
<1>2. router' # "idle" /\ timers' = timers
  BY DEF StartAll
<1>3. CASE /\ link' = 1
           /\ socket' = [socket EXCEPT ![1] = "pairing"]
           /\ UNCHANGED connecting
  <2>1. 1 \in Socket
    BY ChannelsAssumption DEF Socket
  <2>2. Active' = {1}
    BY <1>1, <1>3, <2>1 DEF ConnectionInv, Active
  <2>3. Cardinality(Active') = 1
    BY <2>2, FS_Singleton
  <2>4. QED
    BY <1>1, <1>2, <1>3, <2>1, <2>3 DEF ConnectionInv
<1>4. CASE connecting' = 1 /\ UNCHANGED <<link, socket>>
  BY <1>1, <1>2, <1>4 DEF ConnectionInv, Active
<1>5. QED
  BY <1>3, <1>4 DEF StartAll

\* A call of connect() that resolves hands its place on to the socket it makes.
LEMMA ConnectResolvesKeepsInv ==
    ASSUME ConnectionInv, ConnectResolves
    PROVE  ConnectionInv'
<1>1. PICK s \in Socket :
          socket[s] = "none" /\ socket' = [socket EXCEPT ![s] = "pairing"] /\ link' = s
  BY DEF ConnectResolves
<1>2. s \notin Active /\ Active' = Active \cup {s}
  BY <1>1 DEF ConnectionInv, Active
<1>3. Cardinality(Active') = Cardinality(Active) + 1
  BY <1>2, ActiveFinite, FS_AddElement
<1>4. router' # "idle"
  BY DEF ConnectResolves, StartSettled, ConnectionInv
<1>5. QED
  BY <1>1, <1>3, <1>4, ActiveFinite DEF ConnectionInv, ConnectResolves

LEMMA OtherLifecycleKeepsInv ==
    ASSUME ConnectionInv, LoginSettles \/ ConnectRejects \/ StopAll
    PROVE  ConnectionInv'
<1>1. CASE LoginSettles
  <2>1. /\ socket' \in [Socket -> {"none", "pairing", "open", "closing", "closed"}]
        /\ Active' \subseteq Active
    <3>1. CASE UNCHANGED socket
      BY <3>1 DEF ConnectionInv, Active
    <3>2. CASE socket' = [socket EXCEPT ![1] = "closed"]
      BY <3>2 DEF ConnectionInv, Active
    <3>3. QED
      BY <1>1, <3>1, <3>2 DEF LoginSettles
  <2>2. QED
    BY <1>1, <2>1, FewerActive, ActiveFinite DEF ConnectionInv, LoginSettles
<1>2. CASE ConnectRejects
  <2>1. router' # "idle" /\ Active' = Active
    BY <1>2 DEF ConnectRejects, StartSettled, ConnectionInv, Active
  <2>2. QED
    BY <1>2, <2>1, ActiveFinite DEF ConnectionInv, ConnectRejects
<1>3. CASE StopAll
  <2>1. /\ socket' \in [Socket -> {"none", "pairing", "open", "closing", "closed"}]
        /\ link' = None
        /\ Active' \subseteq Active
    <3>1. CASE link = None
      BY <1>3, <3>1 DEF StopAll, ConnectionInv, Active
    <3>2. CASE link # None
      <4>1. /\ link \in Socket
            /\ socket' = [socket EXCEPT ![link] = Stopped(socket[link])]
        BY <1>3, <3>2 DEF StopAll, ConnectionInv
      <4>2. /\ Stopped(socket[link]) \in {"pairing", "closing", "closed"}
            /\ Stopped(socket[link]) # "closed" => link \in Active
        BY <4>1 DEF Stopped, Active
      <4>3. QED
        BY <1>3, <3>2, <4>1, <4>2 DEF StopAll, ConnectionInv, Active
    <3>3. QED
      BY <3>1, <3>2
  <2>2. QED
    BY <1>3, <2>1, FewerActive, ActiveFinite DEF ConnectionInv, StopAll
<1>4. QED
  BY <1>1, <1>2, <1>3

\* The events of the library that end or open a socket other than by "close".
LEMMA EventKeepsInv ==
    ASSUME ConnectionInv,
           PollingFails \/ ShardDisconnects \/ \E s \in Socket : Opened(s)
    PROVE  ConnectionInv'
<1>1. /\ socket' \in [Socket -> {"none", "pairing", "open", "closing", "closed"}]
      /\ Active' \subseteq Active
  <2>1. CASE PollingFails \/ ShardDisconnects
    <3>1. socket' = [socket EXCEPT ![1] = "closed"]
      BY <2>1 DEF PollingFails, ShardDisconnects
    <3>2. QED
      BY <3>1 DEF ConnectionInv, Active
  <2>2. ASSUME NEW s \in Socket, Opened(s)
        PROVE  /\ socket' \in [Socket -> {"none", "pairing", "open", "closing", "closed"}]
               /\ Active' \subseteq Active
    BY <2>2 DEF Opened, ConnectionInv, Active
  <2>3. QED
    BY <2>1, <2>2
<1>2. UNCHANGED <<router, link, connecting, timers>>
  BY DEF PollingFails, ShardDisconnects, Opened
<1>3. QED
  BY <1>1, <1>2, FewerActive, ActiveFinite DEF ConnectionInv

\* The timer takes the place of the socket that closed.
LEMMA SocketClosesKeepsInv ==
    ASSUME ConnectionInv, NEW s \in Socket, SocketCloses(s)
    PROVE  ConnectionInv'
<1>1. s \in Active /\ Active' = Active \ {s}
  BY DEF SocketCloses, ConnectionInv, Active
<1>2. Cardinality(Active') = Cardinality(Active) - 1
  BY <1>1, OneFewerActive
<1>3. router # "idle"
  BY <1>1 DEF ConnectionInv
<1>4. timers' = timers \/ timers' = timers + 1
  BY DEF SocketCloses
<1>5. QED
  BY <1>2, <1>3, <1>4, ActiveFinite DEF ConnectionInv, SocketCloses

LEMMA ReconnectKeepsInv ==
    ASSUME ConnectionInv, Reconnect
    PROVE  ConnectionInv'
<1>1. Active' = Active
  BY DEF Reconnect, Active
<1>2. QED
  BY <1>1, ActiveFinite DEF Reconnect, ConnectionInv

LEMMA ConnectionInductive ==
    ASSUME ConnectionInv, [Next]_vars
    PROVE  ConnectionInv'
<1>1. CASE Lifecycle
  BY <1>1, StartAllKeepsInv, ConnectResolvesKeepsInv, OtherLifecycleKeepsInv DEF Lifecycle
<1>2. CASE LibraryEvent
  BY <1>2, EventKeepsInv, SocketClosesKeepsInv DEF LibraryEvent
<1>3. CASE Reconnect
  BY <1>3, ReconnectKeepsInv
<1>4. CASE UNCHANGED <<router, adapterVars>>
  BY <1>4 DEF adapterVars, ConnectionInv, Active
<1>5. ASSUME NEW m \in Message, Outbound(m)
      PROVE  UNCHANGED <<router, adapterVars>>
  BY <1>5 DEF Outbound, SendStep, DropOutbound, RefuseOutbound, SendOutbound, PartShown,
              PartFails, Delivered
<1>6. QED
  BY <1>1, <1>2, <1>3, <1>4, <1>5 DEF Next, vars

LEMMA ConnectionInvariant == Spec => []ConnectionInv
<1>1. Init => ConnectionInv
  <2>1. Init => Active = {}
    BY DEF Init, Active
  <2>2. Init => connecting + timers + Cardinality(Active) = 0
    <3>1. Cardinality({}) = 0
      BY FS_EmptySet
    <3>2. Init => connecting = 0 /\ timers = 0
      BY DEF Init
    <3>3. Init => Cardinality(Active) = 0
      BY <2>1, <3>1
    <3>4. QED
      BY <3>2, <3>3
  <2>3. Init => socket \in [Socket -> {"none", "pairing", "open", "closing", "closed"}]
    BY DEF Init
  <2>4. QED
    BY <2>1, <2>2, <2>3 DEF Init, ConnectionInv
<1>2. ConnectionInv /\ [Next]_vars => ConnectionInv'
  BY ConnectionInductive
<1>3. QED
  BY <1>1, <1>2, PTL DEF Spec

\* For any bounds on sockets and reconnects: among the calls of connect() under
\* way, the reconnect timers that are set and the sockets that hold the session
\* there is never more than one, however closes, failures and stop() cross
\* (whatsapp/adapter.ts).
THEOREM AtMostOneConnection == Spec => []OneConnection
<1>1. ConnectionInv => OneConnection
  BY DEF ConnectionInv, OneConnection, Active
<1>2. QED
  BY <1>1, ConnectionInvariant, PTL

-----------------------------------------------------------------------------
(* Induction.  A set of numbers stands for the predicate. *)

\* Every set of numbers has a least one (the library's WFMin for the order of Nat).
LEMMA LeastNatural ==
    ASSUME NEW T, T \subseteq Nat, T # {}
    PROVE  \E x \in T : \A y \in T : x <= y
<1> DEFINE R == {pair \in Nat \X Nat : pair[1] < pair[2]}
<1>1. IsWellFoundedOn(R, Nat)
  BY NatLessThanWellFounded DEF OpToRel
<1> HIDE DEF R
<1>2. \E x \in T : \A y \in T : <<y, x>> \notin R
  BY <1>1, WFMin
<1>3. \A x, y \in Nat : <<y, x>> \notin R => x <= y
  BY DEF R
<1> QED
  BY <1>2, <1>3

\* Induction, for a predicate given as the set of numbers it holds for.
LEMMA Induction ==
    ASSUME NEW T, 0 \in T, \A n \in Nat : n \in T => n + 1 \in T
    PROVE  \A n \in Nat : n \in T
<1> DEFINE Out == {n \in Nat : n \notin T}
<1> SUFFICES ASSUME Out # {} PROVE FALSE
  OBVIOUS
<1>1. PICK x \in Out : \A y \in Out : x <= y
  BY LeastNatural
<1>2. x # 0 /\ x \in Nat /\ x - 1 \in Nat
  OBVIOUS
<1>3. x - 1 \notin Out
  BY <1>1, <1>2
<1> QED
  BY <1>2, <1>3

\* A function defined step by step exists.
IsIteration(f, n, S, base, step) ==
    /\ f \in [0..n -> S] /\ f[0] = base
    /\ \A k \in 1..n : f[k] = step[k][f[k - 1]]

LEMMA Iterates ==
    ASSUME NEW n \in Nat, NEW S, NEW base \in S, NEW step,
           \A k \in 1..n : \A v \in S : step[k][v] \in S
    PROVE  \E f : IsIteration(f, n, S, base, step)
<1> DEFINE IsUpTo(f, k) == /\ f \in [0..k -> S] /\ f[0] = base
                           /\ \A i \in 1..k : f[i] = step[i][f[i - 1]]
           Good == {k \in Nat : k <= n => \E f : IsUpTo(f, k)}
<1>1. 0 \in Good
  <2>1. IsUpTo([i \in 0..0 |-> base], 0)
    OBVIOUS
  <2> QED
    BY <2>1
<1>2. ASSUME NEW k \in Nat, k \in Good
      PROVE  k + 1 \in Good
  <2> SUFFICES ASSUME k + 1 <= n PROVE \E f : IsUpTo(f, k + 1)
    OBVIOUS
  <2>1. PICK f : IsUpTo(f, k)
    BY <1>2
  <2> DEFINE g == [i \in 0..(k + 1) |-> IF i = k + 1 THEN step[i][f[k]] ELSE f[i]]
  <2>2. f[k] \in S /\ k + 1 \in 1..n
    BY <2>1
  <2>3. step[k + 1][f[k]] \in S
    BY <2>2
  <2>4. g \in [0..(k + 1) -> S] /\ g[0] = base
    BY <2>1, <2>3
  <2>5. ASSUME NEW i \in 1..(k + 1)
        PROVE  g[i] = step[i][g[i - 1]]
    <3>1. i - 1 \in 0..k /\ i - 1 # k + 1
      OBVIOUS
    <3>2. g[i - 1] = f[i - 1]
      BY <3>1
    <3>3. CASE i = k + 1
      BY <3>2, <3>3
    <3>4. CASE i # k + 1
      <4>1. i \in 1..k
        BY <3>4
      <4> QED
        BY <2>1, <3>2, <3>4, <4>1
    <3> QED
      BY <3>3, <3>4
  <2>6. IsUpTo(g, k + 1)
    BY <2>4, <2>5
  <2> QED
    BY <2>6
<1> HIDE DEF Good
<1>3. n \in Good
  BY <1>1, <1>2, Induction
<1> QED
  BY <1>3 DEF Good, IsIteration

\* The same from the other end, by steps of any length.
IsDescent(f, n, S, base, next, step) ==
    /\ f \in [0..n -> S] /\ f[n] = base
    /\ \A i \in 0..(n - 1) : f[i] = step[i][f[next[i]]]

LEMMA Descends ==
    ASSUME NEW n \in Nat, NEW S, NEW base \in S, NEW next, NEW step,
           \A i \in 0..(n - 1) : next[i] \in (i + 1)..n,
           \A i \in 0..(n - 1) : \A v \in S : step[i][v] \in S
    PROVE  \E f : IsDescent(f, n, S, base, next, step)
<1> DEFINE IsFrom(f, k) == /\ f \in [(n - k)..n -> S] /\ f[n] = base
                           /\ \A i \in (n - k)..(n - 1) : f[i] = step[i][f[next[i]]]
           Good == {k \in Nat : k <= n => \E f : IsFrom(f, k)}
<1>1. 0 \in Good
  <2>1. IsFrom([i \in n..n |-> base], 0)
    OBVIOUS
  <2> QED
    BY <2>1
<1>2. ASSUME NEW k \in Nat, k \in Good
      PROVE  k + 1 \in Good
  <2> SUFFICES ASSUME k + 1 <= n PROVE \E f : IsFrom(f, k + 1)
    OBVIOUS
  <2>1. PICK f : IsFrom(f, k)
    BY <1>2
  <2> DEFINE i0 == n - (k + 1)
             g == [i \in i0..n |-> IF i = i0 THEN step[i0][f[next[i0]]] ELSE f[i]]
  <2>2. i0 \in 0..(n - 1) /\ i0 + 1 = n - k
    OBVIOUS
  <2>3. next[i0] \in (n - k)..n
    BY <2>2
  <2>4. step[i0][f[next[i0]]] \in S
    BY <2>1, <2>2, <2>3
  <2>5. g \in [i0..n -> S] /\ g[n] = base
    BY <2>1, <2>2, <2>4
  <2>6. ASSUME NEW i \in i0..(n - 1)
        PROVE  g[i] = step[i][g[next[i]]]
    <3>1. i \in 0..(n - 1) /\ next[i] \in (n - k)..n /\ next[i] # i0
      BY <2>2
    <3>2. g[next[i]] = f[next[i]]
      BY <2>2, <3>1
    <3>3. CASE i = i0
      BY <3>2, <3>3
    <3>4. CASE i # i0
      <4>1. i \in (n - k)..(n - 1)
        BY <2>2, <3>4
      <4>2. g[i] = f[i] /\ f[i] = step[i][f[next[i]]]
        BY <2>1, <3>4, <4>1
      <4> QED
        BY <3>2, <4>2
    <3> QED
      BY <3>3, <3>4
  <2>7. IsFrom(g, k + 1)
    BY <2>5, <2>6
  <2> QED
    BY <2>7
<1> HIDE DEF Good
<1>3. n \in Good
  BY <1>1, <1>2, Induction
<1>4. PICK f : IsFrom(f, n)
  BY <1>3 DEF Good
<1>5. n - n = 0
  OBVIOUS
<1> QED
  BY <1>4, <1>5 DEF IsDescent

-----------------------------------------------------------------------------
(* Ink. *)

\* Whatever satisfies the steps has the values of S.
LEMMA IteratesType ==
    ASSUME NEW n \in Nat, NEW S, NEW g, g[0] \in S,
           \A k \in 1..n : g[k - 1] \in S => g[k] \in S
    PROVE  \A k \in 0..n : g[k] \in S
<1> DEFINE Good == {k \in Nat : k <= n => g[k] \in S}
<1>1. 0 \in Good
  OBVIOUS
<1>2. ASSUME NEW k \in Nat, k \in Good
      PROVE  k + 1 \in Good
  <2> SUFFICES ASSUME k + 1 <= n PROVE g[k + 1] \in S
    OBVIOUS
  <2>1. k + 1 \in 1..n /\ (k + 1) - 1 = k /\ g[k] \in S
    BY <1>2
  <2> QED
    BY <2>1
<1> HIDE DEF Good
<1>3. \A k \in Nat : k \in Good
  BY <1>1, <1>2, Induction
<1> QED
  BY <1>3 DEF Good

\* The first k characters of a text without their blanks.
InkSteps(f, t) ==
    /\ f[0] = <<>>
    /\ \A k \in 1..Len(t) :
          f[k] = IF t[k] \in Blank THEN f[k - 1] ELSE Append(f[k - 1], t[k])

\* Ink is computed character by character.
LEMMA InkIsStepwise ==
    ASSUME NEW C, NEW t \in Seq(C)
    PROVE  \E f \in [0..Len(t) -> Seq(C)] : InkSteps(f, t) /\ Ink(t) = f[Len(t)]
<1> DEFINE n == Len(t)
           S == Seq(C)
           step == [k \in 1..n |-> [v \in S |-> IF t[k] \in Blank THEN v ELSE Append(v, t[k])]]
           F(g) == [i \in 0..Len(t) |->
                      IF i = 0 THEN <<>>
                      ELSE IF t[i] \in Blank THEN g[i - 1] ELSE Append(g[i - 1], t[i])]
           inkOf == CHOOSE g : g = F(g)
<1>1. n \in Nat /\ <<>> \in S /\ \A k \in 1..n : t[k] \in C
  OBVIOUS
<1>2. \A k \in 1..n, v \in S : Append(v, t[k]) \in S
  BY <1>1
<1>3. \A k \in 1..n : \A v \in S : step[k][v] \in S
  BY <1>2
<1>4. PICK f \in [0..n -> S] : f[0] = <<>> /\ \A k \in 1..n : f[k] = step[k][f[k - 1]]
  <2> HIDE DEF n, S, step
  <2>1. \E f : IsIteration(f, n, S, <<>>, step)
    BY <1>1, <1>3, Iterates
  <2> QED
    BY <2>1 DEF IsIteration
<1>5. \A k \in 1..n : f[k] = IF t[k] \in Blank THEN f[k - 1] ELSE Append(f[k - 1], t[k])
  <2> TAKE k \in 1..n
  <2>1. k - 1 \in 0..n
    BY <1>1
  <2>2. f[k - 1] \in S
    BY <1>4, <2>1
  <2> QED
    BY <1>4, <2>2
<1>6. f = F(f)
  <2>1. f = [i \in 0..n |-> f[i]]
    BY <1>4
  <2>2. \A i \in 0..n : f[i] = IF i = 0 THEN <<>>
                               ELSE IF t[i] \in Blank THEN f[i - 1] ELSE Append(f[i - 1], t[i])
    <3> TAKE i \in 0..n
    <3>1. i = 0 \/ i \in 1..n
      BY <1>1
    <3> QED
      BY <1>4, <1>5, <3>1
  <2> QED
    BY <2>1, <2>2
<1>7. inkOf = F(inkOf)
  BY <1>6
<1>8. Ink(t) = inkOf[n]
  BY DEF Ink
<1> HIDE DEF inkOf
<1>9. InkSteps(inkOf, t)
  <2>1. inkOf[0] = <<>>
    BY <1>1, <1>7
  <2>2. \A k \in 1..Len(t) :
           inkOf[k] = IF t[k] \in Blank THEN inkOf[k - 1] ELSE Append(inkOf[k - 1], t[k])
    <3> TAKE k \in 1..Len(t)
    <3>1. k \in 0..Len(t) /\ k # 0
      BY <1>1
    <3> QED
      BY <1>7, <3>1
  <2> QED
    BY <2>1, <2>2 DEF InkSteps
<1>10. \A k \in 0..n : inkOf[k] \in S
  <2>1. inkOf[0] \in S
    BY <1>1, <1>9 DEF InkSteps
  <2>2. \A k \in 1..n : inkOf[k - 1] \in S => inkOf[k] \in S
    BY <1>2, <1>9 DEF InkSteps
  <2> HIDE DEF S, n
  <2> QED
    BY <1>1, <2>1, <2>2, IteratesType
<1>11. inkOf \in [0..n -> S]
  BY <1>7, <1>10
<1> QED
  BY <1>8, <1>9, <1>11

LEMMA InkType ==
    ASSUME NEW C, NEW t \in Seq(C)
    PROVE  Ink(t) \in Seq(C)
BY InkIsStepwise, LenProperties

LEMMA InkEmpty == Ink(<<>>) = <<>>
<1>1. <<>> \in Seq({}) /\ Len(<<>>) = 0
  OBVIOUS
<1> QED
  <2> DEFINE t == <<>>
  <2> HIDE DEF t
  <2>1. \E f \in [0..Len(t) -> Seq({})] : InkSteps(f, t) /\ Ink(t) = f[Len(t)]
    BY <1>1, InkIsStepwise DEF t
  <2> QED
    BY <1>1, <2>1 DEF InkSteps, t

\* One more character, by its kind.
LEMMA InkAppend ==
    ASSUME NEW C, NEW t \in Seq(C), NEW ch \in C
    PROVE  Ink(Append(t, ch)) = IF ch \in Blank THEN Ink(t) ELSE Append(Ink(t), ch)
<1> DEFINE u == Append(t, ch)
           n == Len(t)
<1>1. n \in Nat /\ u \in Seq(C) /\ Len(u) = n + 1 /\ u[n + 1] = ch
      /\ \A k \in 1..n : u[k] = t[k]
  BY AppendProperties
<1>2. PICK f \in [0..n -> Seq(C)] : InkSteps(f, t) /\ Ink(t) = f[n]
  BY InkIsStepwise
<1> HIDE DEF u
<1>3. PICK g \in [0..(n + 1) -> Seq(C)] : InkSteps(g, u) /\ Ink(u) = g[n + 1]
  BY <1>1, InkIsStepwise
<1> DEFINE Same == {k \in Nat : k <= n => g[k] = f[k]}
<1>4. 0 \in Same
  BY <1>2, <1>3 DEF InkSteps
<1>5. ASSUME NEW k \in Nat, k \in Same
      PROVE  k + 1 \in Same
  <2> SUFFICES ASSUME k + 1 <= n PROVE g[k + 1] = f[k + 1]
    OBVIOUS
  <2>1. /\ k + 1 \in 1..n /\ k + 1 \in 1..(n + 1) /\ (k + 1) - 1 = k
        /\ g[k] = f[k] /\ u[k + 1] = t[k + 1]
    BY <1>1, <1>5
  <2>2. f[k + 1] = IF t[k + 1] \in Blank THEN f[k] ELSE Append(f[k], t[k + 1])
    BY <1>2, <2>1 DEF InkSteps
  <2>3. g[k + 1] = IF u[k + 1] \in Blank THEN g[k] ELSE Append(g[k], u[k + 1])
    BY <1>1, <1>3, <2>1 DEF InkSteps
  <2> QED
    BY <2>1, <2>2, <2>3
<1> HIDE DEF Same
<1>6. g[n] = f[n]
  <2>1. n \in Same
    BY <1>1, <1>4, <1>5, Induction
  <2> QED
    BY <1>1, <2>1 DEF Same
<1>7. g[n + 1] = IF u[n + 1] \in Blank THEN g[n] ELSE Append(g[n], u[n + 1])
  BY <1>1, <1>3 DEF InkSteps
<1> QED
  BY <1>1, <1>2, <1>3, <1>6, <1>7 DEF u

\* Concatenation, in a form the provers take as it is.
Same(a, b) == a = b

LEMMA Associates == \A C : \A x, y, z \in Seq(C) : Same((x \o y) \o z, x \o (y \o z))
BY ConcatAssociative DEF Same

\* The ink of two texts is the ink of one after the other.
LEMMA InkConcat ==
    ASSUME NEW C, NEW a \in Seq(C), NEW b \in Seq(C)
    PROVE  Ink(a \o b) = Ink(a) \o Ink(b)
<1> DEFINE Good == {n \in Nat : \A t \in Seq(C) : Len(t) = n => Ink(a \o t) = Ink(a) \o Ink(t)}
<1>1. 0 \in Good
  <2>1. \A t \in Seq(C) : Len(t) = 0 => t = <<>>
    OBVIOUS
  <2>2. a \o <<>> = a /\ Ink(a) \o <<>> = Ink(a)
    BY InkType, ConcatEmptySeq
  <2> QED
    BY <2>1, <2>2, InkEmpty
<1>2. ASSUME NEW n \in Nat, n \in Good
      PROVE  n + 1 \in Good
  <2> SUFFICES ASSUME NEW t \in Seq(C), Len(t) = n + 1
               PROVE  Ink(a \o t) = Ink(a) \o Ink(t)
    OBVIOUS
  <2>1. PICK u \in Seq(C), ch \in C : t = Append(u, ch)
    <3>1. t # <<>>
      OBVIOUS
    <3> QED
      BY <3>1, SequenceEmptyOrAppend
  <2>2. Len(u) = n
    BY <2>1, AppendProperties, LenProperties
  <2>3. Ink(a \o u) = Ink(a) \o Ink(u)
    BY <1>2, <2>2
  <2>4. a \o u \in Seq(C) /\ a \o t = Append(a \o u, ch)
    <3>1. a \o t = a \o (u \o <<ch>>)
      BY <2>1, AppendIsConcat
    <3>2. <<ch>> \in Seq(C)
      OBVIOUS
    <3>3. a \o (u \o <<ch>>) = (a \o u) \o <<ch>> /\ a \o u \in Seq(C)
      BY <3>2, ConcatAssociative, ConcatProperties
    <3> QED
      BY <3>1, <3>3, AppendIsConcat
  <2>5. Ink(a \o t) = IF ch \in Blank THEN Ink(a \o u) ELSE Append(Ink(a \o u), ch)
    BY <2>4, InkAppend
  <2>6. Ink(t) = IF ch \in Blank THEN Ink(u) ELSE Append(Ink(u), ch)
    BY <2>1, InkAppend
  <2>7. Ink(a) \in Seq(C) /\ Ink(u) \in Seq(C)
    BY InkType
  <2>8. Append(Ink(a) \o Ink(u), ch) = Ink(a) \o Append(Ink(u), ch)
    <3>1. <<ch>> \in Seq(C) /\ Ink(a) \o Ink(u) \in Seq(C)
      BY <2>7, ConcatProperties
    <3>2. Append(Ink(a) \o Ink(u), ch) = (Ink(a) \o Ink(u)) \o <<ch>>
      BY <3>1, AppendIsConcat
    <3>3. Append(Ink(u), ch) = Ink(u) \o <<ch>>
      BY <2>7, AppendIsConcat
    <3>4. Same((Ink(a) \o Ink(u)) \o <<ch>>, Ink(a) \o (Ink(u) \o <<ch>>))
      BY <2>7, <3>1, Associates
    <3> QED
      BY <3>2, <3>3, <3>4 DEF Same
  <2> QED
    BY <2>3, <2>5, <2>6, <2>8
<1> HIDE DEF Good
<1>3. Len(b) \in Good
  BY <1>1, <1>2, Induction, LenProperties
<1> QED
  BY <1>3 DEF Good

LEMMA InkOfBlanks ==
    ASSUME NEW C, NEW t \in Seq(C), \A i \in 1..Len(t) : t[i] \in Blank
    PROVE  Ink(t) = <<>>
<1>1. PICK f \in [0..Len(t) -> Seq(C)] : InkSteps(f, t) /\ Ink(t) = f[Len(t)]
  BY InkIsStepwise
<1>2. Len(t) \in Nat
  BY LenProperties
<1>3. \A k \in 1..Len(t) : f[k - 1] \in {<<>>} => f[k] \in {<<>>}
  BY <1>1 DEF InkSteps
<1>4. \A k \in 0..Len(t) : f[k] \in {<<>>}
  <2> DEFINE n == Len(t)
             S == {<<>>}
  <2>1. n \in Nat /\ f[0] \in S /\ \A k \in 1..n : f[k - 1] \in S => f[k] \in S
    BY <1>1, <1>2, <1>3 DEF InkSteps
  <2> HIDE DEF n, S
  <2>2. \A k \in 0..n : f[k] \in S
    BY <2>1, IteratesType
  <2> QED
    BY <2>2 DEF n, S
<1> QED
  BY <1>1, <1>2, <1>4

-----------------------------------------------------------------------------
(* Splitting. *)

\* Induction from the end of a text to its start, over all later positions.
LEMMA DownwardInduction ==
    ASSUME NEW n \in Nat, NEW G,
           \A i \in 0..n : (\A j \in (i + 1)..n : j \in G) => i \in G
    PROVE  \A i \in 0..n : i \in G
<1> DEFINE Good == {k \in Nat : \A i \in 0..n : i >= n - k => i \in G}
<1>1. 0 \in Good
  OBVIOUS
<1>2. ASSUME NEW k \in Nat, k \in Good
      PROVE  k + 1 \in Good
  <2> SUFFICES ASSUME NEW i \in 0..n, i >= n - (k + 1)
               PROVE  i \in G
    OBVIOUS
  <2>1. \A j \in (i + 1)..n : j \in 0..n /\ j >= n - k
    OBVIOUS
  <2>2. \A j \in (i + 1)..n : j \in G
    BY <1>2, <2>1
  <2> QED
    BY <2>2
<1> HIDE DEF Good
<1>3. n \in Good
  BY <1>1, <1>2, Induction
<1> QED
  BY <1>3 DEF Good

LEMMA SmallestOf ==
    ASSUME NEW T, T \subseteq Nat, T # {}
    PROVE  Min(T) \in T /\ \A y \in T : Min(T) <= y
BY LeastNatural DEF Min

LEMMA LargestOf ==
    ASSUME NEW n \in Nat, NEW T, T \subseteq (-1)..n, T # {}
    PROVE  Max(T) \in T
<1> DEFINE U == {n - t : t \in T}
<1>1. U \subseteq Nat /\ U # {}
  <2>1. \A t \in T : t \in Int /\ t <= n
    OBVIOUS
  <2>2. \A t \in T : n - t \in Nat
    BY <2>1
  <2> QED
    BY <2>2
<1>2. PICK u \in U : \A v \in U : u <= v
  BY <1>1, LeastNatural
<1>3. PICK t \in T : u = n - t
  OBVIOUS
<1>4. \A y \in T : t >= y
  <2> TAKE y \in T
  <2>1. u <= n - y
    BY <1>2
  <2> QED
    BY <1>3, <2>1
<1> QED
  BY <1>4 DEF Max

\* A chunk is cut after at least one character, and no later than allowed.
LEMMA CutIsInside ==
    ASSUME NEW s, NEW i, NEW max \in Nat \ {0}
    PROVE  SplitAt(s, i, max) \in 1..max
<1>1. \A ch : LastIndexOf(s, i, ch, max) \in (-1)..max
  <2> TAKE ch
  <2> DEFINE T == {k \in 0..max : i + k < Len(s) /\ s[i + k + 1] = ch} \cup {-1}
  <2>1. T \subseteq (-1)..max /\ T # {}
    OBVIOUS
  <2> HIDE DEF T
  <2>2. Max(T) \in T
    BY <2>1, LargestOf
  <2> QED
    BY <2>1, <2>2 DEF LastIndexOf, T
<1> DEFINE newline == LastIndexOf(s, i, "n", max)
           space   == LastIndexOf(s, i, "b", max)
<1>2. newline \in (-1)..max /\ space \in (-1)..max
  BY <1>1
<1>3. SplitAt(s, i, max) = IF ~(newline = -1 \/ 2 * newline < max) THEN newline
                           ELSE IF ~(space = -1 \/ 2 * space < max) THEN space
                           ELSE max
  BY DEF SplitAt
<1> HIDE DEF newline, space
<1> QED
  BY <1>2, <1>3

\* Only blanks are skipped between two chunks.
LEMMA TrimmedAreBlanks ==
    ASSUME NEW s, Len(s) \in Nat, NEW k \in 0..Len(s)
    PROVE  /\ TrimStart(s, k) \in k..Len(s)
           /\ \A j \in k..(TrimStart(s, k) - 1) : s[j + 1] \in Blank
<1> DEFINE T == {j \in k..Len(s) : j = Len(s) \/ s[j + 1] \notin Blank}
<1>1. T \subseteq Nat /\ Len(s) \in T
  OBVIOUS
<1>2. Min(T) \in T /\ \A y \in T : Min(T) <= y
  BY <1>1, SmallestOf
<1>3. TrimStart(s, k) = Min(T)
  BY DEF TrimStart
<1>4. \A j \in k..(Min(T) - 1) : j \notin T
  BY <1>1, <1>2
<1>5. \A j \in k..(Min(T) - 1) : j \in k..Len(s)
  BY <1>2
<1> QED
  BY <1>2, <1>3, <1>4, <1>5

\* What splitMessage makes of the text after the first i characters.
SplitSteps(f, s, max) ==
    /\ f[Len(s)] = <<>>
    /\ \A i \in 0..(Len(s) - 1) :
          IF Len(s) - i <= max THEN f[i] = <<SubSeq(s, i + 1, Len(s))>>
          ELSE \E cut \in 1..max : \E j \in (i + cut)..Len(s) :
                  /\ i + cut < Len(s)
                  /\ \A k \in (i + cut)..(j - 1) : s[k + 1] \in Blank
                  /\ f[i] = <<SubSeq(s, i + 1, i + cut)>> \o f[j]

\* splitMessage is computed chunk by chunk, and each step ends.
LEMMA SplitIsStepwise ==
    ASSUME NEW C, NEW s \in Seq(C), NEW max \in Nat \ {0}
    PROVE  \E f \in [0..Len(s) -> Seq(Seq(C))] :
              /\ SplitSteps(f, s, max)
              /\ splitMessage(s, max) = IF Len(s) <= max THEN <<s>> ELSE f[0]
<1> DEFINE n == Len(s)
           S == Seq(Seq(C))
           cut(i) == SplitAt(s, i, max)
           next == [i \in 0..(n - 1) |-> IF n - i <= max THEN n ELSE TrimStart(s, i + cut(i))]
           step == [i \in 0..(n - 1) |-> [v \in S |->
                      IF n - i <= max THEN <<SubSeq(s, i + 1, Len(s))>>
                      ELSE <<SubSeq(s, i + 1, i + cut(i))>> \o v]]
           F(g) == [i \in 0..Len(s) |->
                      IF i = Len(s) THEN <<>>
                      ELSE IF Len(s) - i <= max THEN <<SubSeq(s, i + 1, Len(s))>>
                      ELSE LET c == SplitAt(s, i, max)
                           IN  <<SubSeq(s, i + 1, i + c)>> \o g[TrimStart(s, i + c)]]
           chunksFrom == CHOOSE g : g = F(g)
<1>1. n \in Nat /\ <<>> \in S /\ \A k \in 1..n : s[k] \in C
  OBVIOUS
<1>2. \A i \in 0..(n - 1) : cut(i) \in 1..max
  BY CutIsInside
<1> HIDE DEF cut
<1>3. ASSUME NEW i \in 0..(n - 1), n - i > max
      PROVE  /\ i + cut(i) \in 0..(n - 1)
             /\ TrimStart(s, i + cut(i)) \in (i + cut(i))..n
             /\ \A k \in (i + cut(i))..(TrimStart(s, i + cut(i)) - 1) : s[k + 1] \in Blank
  <2>1. i + cut(i) \in 0..(n - 1)
    BY <1>1, <1>2, <1>3
  <2> QED
    BY <1>1, <2>1, TrimmedAreBlanks
<1>4. \A i \in 0..(n - 1) : next[i] \in (i + 1)..n
  BY <1>1, <1>2, <1>3
<1>5. ASSUME NEW i \in 0..(n - 1)
      PROVE  /\ n - i <= max => SubSeq(s, i + 1, n) \in Seq(C)
             /\ n - i > max => SubSeq(s, i + 1, i + cut(i)) \in Seq(C)
  <2>1. SubSeq(s, i + 1, n) \in Seq(C)
    BY <1>1, SubSeqProperties
  <2>2. ASSUME n - i > max PROVE SubSeq(s, i + 1, i + cut(i)) \in Seq(C)
    <3>1. i + cut(i) \in 0..(n - 1)
      BY <1>3, <2>2
    <3>2. \A k \in (i + 1)..(i + cut(i)) : s[k] \in C
      BY <1>1, <3>1
    <3> QED
      BY <1>1, <3>1, <3>2, SubSeqProperties
  <2> QED
    BY <2>1, <2>2
<1>6. \A i \in 0..(n - 1) : \A v \in S : step[i][v] \in S
  <2> TAKE i \in 0..(n - 1)
  <2> TAKE v \in S
  <2>1. CASE n - i <= max
    <3>1. step[i][v] = <<SubSeq(s, i + 1, n)>>
      BY <2>1
    <3> QED
      BY <1>5, <2>1, <3>1
  <2>2. CASE n - i > max
    <3>1. step[i][v] = <<SubSeq(s, i + 1, i + cut(i))>> \o v
      BY <1>1, <2>2
    <3>2. <<SubSeq(s, i + 1, i + cut(i))>> \in S
      BY <1>5, <2>2
    <3> QED
      BY <3>1, <3>2, ConcatProperties
  <2> QED
    BY <1>1, <2>1, <2>2
<1>7. PICK f : IsDescent(f, n, S, <<>>, next, step)
  <2> HIDE DEF n, S, next, step
  <2> QED
    BY <1>1, <1>4, <1>6, Descends
<1>8. f \in [0..n -> S] /\ f[n] = <<>> /\ \A i \in 0..(n - 1) : f[i] = step[i][f[next[i]]]
  BY <1>7 DEF IsDescent
<1>9. f = F(f)
  <2>1. f = [i \in 0..n |-> f[i]]
    BY <1>8
  <2>2. ASSUME NEW i \in 0..n
        PROVE  f[i] = F(f)[i]
    <3>1. CASE i = n
      BY <1>8, <3>1
    <3>2. CASE i # n
      <4>1. i \in 0..(n - 1) /\ next[i] \in 0..n
        BY <1>1, <1>4, <3>2
      <4>2. f[next[i]] \in S
        BY <1>8, <4>1
      <4>3. CASE n - i <= max
        BY <1>8, <3>2, <4>1, <4>2, <4>3
      <4>4. CASE n - i > max
        <5>1. f[i] = <<SubSeq(s, i + 1, i + cut(i))>> \o f[TrimStart(s, i + cut(i))]
          <6>1. next[i] = TrimStart(s, i + cut(i))
            BY <1>1, <4>1, <4>4
          <6>2. \A v \in S : step[i][v] = <<SubSeq(s, i + 1, i + cut(i))>> \o v
            BY <1>1, <4>1, <4>4
          <6> HIDE DEF next, step, S
          <6>3. f[i] = step[i][f[next[i]]]
            BY <1>8, <4>1
          <6> QED
            BY <4>2, <6>1, <6>2, <6>3
        <5> QED
          BY <1>1, <3>2, <4>4, <5>1 DEF cut
      <4> QED
        BY <1>1, <4>1, <4>3, <4>4
    <3> QED
      BY <3>1, <3>2
  <2> QED
    BY <2>1, <2>2
<1>10. chunksFrom = F(chunksFrom)
  BY <1>9
<1>11. splitMessage(s, max) = IF n <= max THEN <<s>> ELSE chunksFrom[0]
  BY DEF splitMessage
<1> HIDE DEF chunksFrom
<1>12. chunksFrom[n] = <<>>
  BY <1>1, <1>10
<1>13. ASSUME NEW i \in 0..(n - 1)
       PROVE  /\ n - i <= max => chunksFrom[i] = <<SubSeq(s, i + 1, n)>>
              /\ n - i > max => chunksFrom[i] = <<SubSeq(s, i + 1, i + cut(i))>>
                                                   \o chunksFrom[TrimStart(s, i + cut(i))]
  <2>1. i \in 0..n /\ i # n
    BY <1>1
  <2>2. chunksFrom[i] = F(chunksFrom)[i]
    BY <1>10
  <2>3. F(chunksFrom)[i] = IF n - i <= max THEN <<SubSeq(s, i + 1, n)>>
                           ELSE <<SubSeq(s, i + 1, i + cut(i))>>
                                   \o chunksFrom[TrimStart(s, i + cut(i))]
    BY <2>1 DEF cut
  <2> HIDE DEF F
  <2> QED
    BY <1>1, <2>2, <2>3
<1>14. SplitSteps(chunksFrom, s, max)
  <2>1. ASSUME NEW i \in 0..(n - 1), n - i > max
        PROVE  \E c \in 1..max : \E j \in (i + c)..n :
                  /\ i + c < n
                  /\ \A k \in (i + c)..(j - 1) : s[k + 1] \in Blank
                  /\ chunksFrom[i] = <<SubSeq(s, i + 1, i + c)>> \o chunksFrom[j]
    <3>1. cut(i) \in 1..max /\ TrimStart(s, i + cut(i)) \in (i + cut(i))..n /\ i + cut(i) < n
      BY <1>1, <1>2, <1>3, <2>1
    <3> QED
      BY <1>3, <1>13, <2>1, <3>1
  <2>2. ASSUME NEW i \in 0..(n - 1)
        PROVE  IF n - i <= max THEN chunksFrom[i] = <<SubSeq(s, i + 1, n)>>
               ELSE \E c \in 1..max : \E j \in (i + c)..n :
                       /\ i + c < n
                       /\ \A k \in (i + c)..(j - 1) : s[k + 1] \in Blank
                       /\ chunksFrom[i] = <<SubSeq(s, i + 1, i + c)>> \o chunksFrom[j]
    <3>1. CASE n - i <= max
      BY <1>13, <3>1
    <3>2. CASE ~(n - i <= max)
      <4>1. n - i > max
        BY <1>1, <3>2
      <4> QED
        BY <2>1, <3>2, <4>1
    <3> QED
      BY <3>1, <3>2
  <2> QED
    BY <1>12, <2>2 DEF SplitSteps
<1>15. \A i \in 0..n : chunksFrom[i] \in S
  <2> DEFINE G == {i \in 0..n : chunksFrom[i] \in S}
  <2>1. ASSUME NEW i \in 0..n, \A j \in (i + 1)..n : j \in G
        PROVE  i \in G
    <3>1. CASE i = n
      BY <1>1, <1>12, <3>1
    <3>2. CASE i # n
      <4>1. i \in 0..(n - 1)
        BY <1>1, <3>2
      <4>2. CASE n - i <= max
        <5>1. chunksFrom[i] = <<SubSeq(s, i + 1, n)>> /\ SubSeq(s, i + 1, n) \in Seq(C)
          BY <1>5, <1>13, <4>1, <4>2
        <5>2. chunksFrom[i] \in S
          BY <5>1
        <5> QED
          BY <5>2
      <4>3. CASE n - i > max
        <5>1. TrimStart(s, i + cut(i)) \in (i + 1)..n
          BY <1>1, <1>2, <1>3, <4>1, <4>3
        <5>2. chunksFrom[TrimStart(s, i + cut(i))] \in S
          BY <2>1, <5>1
        <5>3. <<SubSeq(s, i + 1, i + cut(i))>> \in S
          BY <1>5, <4>1, <4>3
        <5>4. chunksFrom[i] \in S
          BY <1>13, <4>1, <4>3, <5>2, <5>3, ConcatProperties
        <5> QED
          BY <5>4
      <4> QED
        BY <1>1, <4>1, <4>2, <4>3
    <3> QED
      BY <3>1, <3>2
  <2> HIDE DEF G
  <2>2. \A i \in 0..n : i \in G
    BY <1>1, <2>1, DownwardInduction
  <2> QED
    BY <2>2 DEF G
<1>16. chunksFrom \in [0..n -> S]
  <2>1. chunksFrom = [i \in 0..n |-> chunksFrom[i]]
    BY <1>10
  <2> QED
    BY <1>15, <2>1
<1> QED
  BY <1>11, <1>14, <1>16

-----------------------------------------------------------------------------
(* What can be read of the parts of a message. *)

Part == Seq(Char) \cup {file}

\* The text of the first k parts, without the files.
ShownSteps(f, parts) ==
    /\ f[0] = <<>>
    /\ \A k \in 1..Len(parts) :
          f[k] = IF parts[k] = file THEN f[k - 1] ELSE f[k - 1] \o parts[k]

LEMMA FileIsNoText == \A t \in Seq(Char) : t # file
<1> SUFFICES ASSUME file \in Seq(Char) PROVE FALSE
  OBVIOUS
<1>1. Len(file) = 1 /\ file[1] = "file"
  BY DEF file
<1>2. file[1] \in Char
  BY <1>1, ElementOfSeq
<1> QED
  BY <1>1, <1>2, ChannelsAssumption

LEMMA ShownType ==
    ASSUME NEW n \in Nat, NEW parts, NEW f, f[0] = <<>>,
           \A k \in 1..n : parts[k] \in Part,
           \A k \in 1..n :
              f[k] = IF parts[k] = file THEN f[k - 1] ELSE f[k - 1] \o parts[k]
    PROVE  \A k \in 0..n : f[k] \in Seq(Char)
<1> DEFINE S == Seq(Char)
<1>1. f[0] \in S
  OBVIOUS
<1>2. ASSUME NEW k \in 1..n, f[k - 1] \in S
      PROVE  f[k] \in S
  <2>1. CASE parts[k] = file
    BY <1>2, <2>1
  <2>2. CASE parts[k] # file
    <3>1. parts[k] \in S
      BY <2>2 DEF Part
    <3>2. f[k] = f[k - 1] \o parts[k]
      BY <2>2
    <3> QED
      BY <1>2, <3>1, <3>2, ConcatProperties
  <2> QED
    BY <2>1, <2>2
<1> HIDE DEF S
<1>3. \A k \in 0..n : f[k] \in S
  BY <1>1, <1>2, IteratesType
<1> QED
  BY <1>3 DEF S

\* What is read of the parts can be computed.
LEMMA ShownExists ==
    ASSUME NEW parts \in Seq(Part)
    PROVE  \E f \in [0..Len(parts) -> Seq(Char)] : ShownSteps(f, parts)
<1> DEFINE n == Len(parts)
           S == Seq(Char)
           step == [k \in 1..n |-> [v \in S |-> IF parts[k] = file THEN v ELSE v \o parts[k]]]
<1>1. n \in Nat /\ <<>> \in S /\ \A k \in 1..n : parts[k] \in Part
  OBVIOUS
<1>2. \A k \in 1..n : \A v \in S : step[k][v] \in S
  <2> TAKE k \in 1..n
  <2> TAKE v \in S
  <2>1. CASE parts[k] = file
    BY <2>1
  <2>2. CASE parts[k] # file
    <3>1. parts[k] \in S
      BY <1>1, <2>2 DEF Part
    <3>2. step[k][v] = v \o parts[k]
      BY <2>2
    <3> QED
      BY <3>1, <3>2, ConcatProperties
  <2> QED
    BY <2>1, <2>2
<1>3. PICK f : IsIteration(f, n, S, <<>>, step)
  <2> HIDE DEF n, S, step
  <2> QED
    BY <1>1, <1>2, Iterates
<1>4. f \in [0..n -> S] /\ f[0] = <<>> /\ \A k \in 1..n : f[k] = step[k][f[k - 1]]
  BY <1>3 DEF IsIteration
<1>5. ASSUME NEW k \in 1..n
      PROVE  f[k] = IF parts[k] = file THEN f[k - 1] ELSE f[k - 1] \o parts[k]
  <2>1. k - 1 \in 0..n
    BY <1>1
  <2>2. f[k - 1] \in S
    BY <1>4, <2>1
  <2>3. step[k][f[k - 1]] = IF parts[k] = file THEN f[k - 1] ELSE f[k - 1] \o parts[k]
    BY <2>2
  <2> HIDE DEF step
  <2> QED
    BY <1>4, <2>3
<1> QED
  BY <1>4, <1>5 DEF ShownSteps

\* A text put in front of the parts stands in front of what is read of them.
LEMMA ShownAfterFirst ==
    ASSUME NEW c \in Seq(Char), NEW rest \in Seq(Seq(Char)),
           NEW f, ShownSteps(f, <<c>> \o rest), NEW g, ShownSteps(g, rest)
    PROVE  f[Len(rest) + 1] = c \o g[Len(rest)]
<1> DEFINE n == Len(rest)
           parts == <<c>> \o rest
<1>1. /\ n \in Nat /\ Len(parts) = n + 1 /\ parts[1] = c
      /\ \A k \in 1..n : parts[k + 1] = rest[k] /\ rest[k] \in Seq(Char)
  <2>1. <<c>> \in Seq(Seq(Char)) /\ Len(<<c>>) = 1
    OBVIOUS
  <2>2. /\ Len(parts) = 1 + n
        /\ \A i \in 1..(1 + n) : parts[i] = IF i <= 1 THEN <<c>>[i] ELSE rest[i - 1]
    BY <2>1, ConcatProperties
  <2>3. n \in Nat /\ \A k \in 1..n : rest[k] \in Seq(Char)
    OBVIOUS
  <2> HIDE DEF parts, n
  <2> QED
    BY <2>2, <2>3
<1>2. /\ f[0] = <<>>
      /\ \A k \in 1..(n + 1) : f[k] = IF parts[k] = file THEN f[k - 1] ELSE f[k - 1] \o parts[k]
  BY <1>1 DEF ShownSteps
<1>3. /\ g[0] = <<>>
      /\ \A k \in 1..n : g[k] = IF rest[k] = file THEN g[k - 1] ELSE g[k - 1] \o rest[k]
  BY DEF ShownSteps
<1>4. \A k \in 0..n : g[k] \in Seq(Char)
  <2>1. \A k \in 1..n : rest[k] \in Part
    BY <1>1 DEF Part
  <2> HIDE DEF n
  <2> QED
    BY <1>1, <1>3, <2>1, ShownType
<1> HIDE DEF parts, n
<1> DEFINE Good == {k \in Nat : k <= n => f[k + 1] = c \o g[k]}
<1>5. 0 \in Good
  <2>1. 1 \in 1..(n + 1) /\ 1 - 1 = 0 /\ parts[1] # file
    BY <1>1, FileIsNoText
  <2>2. f[1] = f[0] \o parts[1]
    BY <1>2, <2>1
  <2>3. f[1] = <<>> \o c
    BY <1>1, <1>2, <2>2
  <2>4. <<>> \o c = c /\ c \o <<>> = c
    BY ConcatEmptySeq
  <2>5. f[0 + 1] = c \o g[0]
    BY <1>3, <2>3, <2>4
  <2> QED
    BY <2>5
<1>6. ASSUME NEW k \in Nat, k \in Good
      PROVE  k + 1 \in Good
  <2> SUFFICES ASSUME k + 1 <= n PROVE f[(k + 1) + 1] = c \o g[k + 1]
    OBVIOUS
  <2>1. /\ k + 1 \in 1..n /\ k \in 0..n /\ k + 2 \in 1..(n + 1) /\ (k + 2) - 1 = k + 1
        /\ (k + 1) - 1 = k /\ (k + 1) + 1 = k + 2
        /\ f[k + 1] = c \o g[k]
    BY <1>1, <1>6
  <2>2. rest[k + 1] \in Seq(Char) /\ parts[k + 2] = rest[k + 1] /\ rest[k + 1] # file
    BY <1>1, <2>1, FileIsNoText
  <2>3. f[k + 2] = f[k + 1] \o rest[k + 1]
    BY <1>2, <2>1, <2>2
  <2>4. g[k + 1] = g[k] \o rest[k + 1]
    BY <1>3, <2>1, <2>2
  <2>5. Same((c \o g[k]) \o rest[k + 1], c \o (g[k] \o rest[k + 1]))
    BY <1>4, <2>1, <2>2, Associates
  <2> QED
    BY <2>1, <2>3, <2>4, <2>5 DEF Same
<1> HIDE DEF Good
<1>7. n \in Good
  BY <1>1, <1>5, <1>6, Induction
<1> QED
  BY <1>1, <1>7 DEF Good, n

\* Splitting a text loses and adds nothing but blanks, and no chunk is too long or,
\* unless the text is, empty.
Faithful(q, t, max) ==
    /\ \A k \in 1..Len(q) : Len(q[k]) <= max
    /\ \A k \in 1..Len(q) : Len(q[k]) > 0 \/ t = <<>>
    /\ \A f : ShownSteps(f, q) => Ink(f[Len(q)]) = Ink(t)

LEMMA OneChunkIsFaithful ==
    ASSUME NEW t \in Seq(Char), NEW max, Len(t) <= max
    PROVE  Faithful(<<t>>, t, max)
<1>1. Len(<<t>>) = 1 /\ <<t>>[1] = t
  OBVIOUS
<1>2. ASSUME NEW f, ShownSteps(f, <<t>>)
      PROVE  Ink(f[Len(<<t>>)]) = Ink(t)
  <2>1. f[0] = <<>> /\ f[1] = f[0] \o t
    <3>1. 1 \in 1..Len(<<t>>) /\ 1 - 1 = 0 /\ <<t>>[1] # file
      BY <1>1, FileIsNoText
    <3> QED
      BY <1>1, <1>2, <3>1 DEF ShownSteps
  <2>2. <<>> \o t = t
    BY ConcatEmptySeq
  <2> QED
    BY <1>1, <2>1, <2>2
<1>3. Len(t) > 0 \/ t = <<>>
  OBVIOUS
<1> QED
  BY <1>1, <1>2, <1>3 DEF Faithful

\* splitMessage of any text with any limit: the chunks are texts within the limit,
\* and together they hold all of the text's ink in order.
LEMMA SplitIsFaithfulToText ==
    ASSUME NEW s \in Seq(Char), NEW max \in Nat \ {0}
    PROVE  /\ splitMessage(s, max) \in Seq(Seq(Char))
           /\ Faithful(splitMessage(s, max), s, max)
<1> DEFINE n == Len(s)
           S == Seq(Seq(Char))
           from(i) == SubSeq(s, i + 1, n)
<1>0. n \in Nat
  OBVIOUS
<1>1. PICK q \in [0..n -> S] :
         /\ SplitSteps(q, s, max)
         /\ splitMessage(s, max) = IF n <= max THEN <<s>> ELSE q[0]
  BY SplitIsStepwise
<1>2. \A i \in 0..n : from(i) \in Seq(Char) /\ Len(from(i)) = n - i
  <2> TAKE i \in 0..n
  <2>1. \A k \in (i + 1)..n : s[k] \in Char
    BY <1>0, ElementOfSeq
  <2> QED
    BY <1>0, <2>1, SubSeqProperties
<1> DEFINE G == {i \in 0..n : /\ Faithful(q[i], from(i), max)
                              /\ \A k \in 1..Len(q[i]) : Len(q[i][k]) > 0}
<1>3. ASSUME NEW i \in 0..n, \A j \in (i + 1)..n : j \in G
      PROVE  i \in G
  <2>1. CASE i = n
    <3>1. q[i] = <<>> /\ Len(<<>>) = 0
      BY <1>1, <2>1 DEF SplitSteps
    <3>2. from(i) = <<>>
      BY <1>0, <2>1, SubSeqEmpty
    <3>3. Faithful(<<>>, <<>>, max)
      BY <3>1 DEF Faithful, ShownSteps
    <3>4. \A k \in 1..Len(q[i]) : Len(q[i][k]) > 0
      BY <3>1
    <3> HIDE DEF from
    <3> QED
      BY <3>1, <3>2, <3>3, <3>4
  <2>2. CASE i # n /\ n - i <= max
    <3>1. i \in 0..(n - 1)
      BY <1>0, <2>2
    <3>2. q[i] = <<from(i)>>
      BY <1>1, <2>2, <3>1 DEF SplitSteps
    <3> HIDE DEF from
    <3>3. Faithful(<<from(i)>>, from(i), max)
      BY <1>2, <2>2, OneChunkIsFaithful
    <3>4. Len(<<from(i)>>) = 1 /\ <<from(i)>>[1] = from(i) /\ Len(from(i)) > 0
      BY <1>0, <1>2, <3>1
    <3>5. \A k \in 1..Len(q[i]) : Len(q[i][k]) > 0
      BY <3>2, <3>4
    <3> QED
      BY <3>2, <3>3, <3>5
  <2>3. CASE i # n /\ ~(n - i <= max)
    <3>1. i \in 0..(n - 1)
      BY <1>0, <2>3
    <3>2. PICK cut \in 1..max : \E j \in (i + cut)..n :
             /\ i + cut < n
             /\ \A k \in (i + cut)..(j - 1) : s[k + 1] \in Blank
             /\ q[i] = <<SubSeq(s, i + 1, i + cut)>> \o q[j]
      BY <1>1, <2>3, <3>1 DEF SplitSteps
    <3>3. PICK j \in (i + cut)..n :
             /\ i + cut < n
             /\ \A k \in (i + cut)..(j - 1) : s[k + 1] \in Blank
             /\ q[i] = <<SubSeq(s, i + 1, i + cut)>> \o q[j]
      BY <3>2
    <3> DEFINE c == SubSeq(s, i + 1, i + cut)
               gap == SubSeq(s, i + cut + 1, j)
    <3>4. cut \in Nat /\ i + cut \in 0..n /\ j \in (i + 1)..n /\ j \in 0..n
      BY <1>0, <3>3
    <3>5. c \in Seq(Char) /\ Len(c) = cut
      <4>1. \A k \in (i + 1)..(i + cut) : s[k] \in Char
        BY <1>0, <3>3, <3>4, ElementOfSeq
      <4> QED
        BY <3>4, <4>1, SubSeqProperties
    <3>6. gap \in Seq(Char) /\ Ink(gap) = <<>>
      <4>1. \A k \in (i + cut + 1)..j : s[k] \in Char /\ s[k] \in Blank
        <5> TAKE k \in (i + cut + 1)..j
        <5>1. k - 1 \in (i + cut)..(j - 1) /\ (k - 1) + 1 = k /\ k \in 1..n
          BY <3>4
        <5>2. s[(k - 1) + 1] \in Blank
          BY <3>3, <5>1
        <5> QED
          BY <5>1, <5>2, ElementOfSeq
      <4>2. /\ gap \in Seq(Char)
            /\ Len(gap) = IF i + cut + 1 <= j THEN j - (i + cut + 1) + 1 ELSE 0
            /\ \A k \in 1..(j - (i + cut + 1) + 1) : gap[k] = s[i + cut + 1 + k - 1]
        BY <3>4, <4>1, SubSeqProperties
      <4> HIDE DEF gap
      <4>3. \A k \in 1..Len(gap) : gap[k] \in Blank
        <5> TAKE k \in 1..Len(gap)
        <5>1. /\ k \in 1..(j - (i + cut + 1) + 1)
              /\ i + cut + 1 + k - 1 \in (i + cut + 1)..j
          BY <3>4, <4>2
        <5> QED
          BY <4>1, <4>2, <5>1
      <4> QED
        BY <4>2, <4>3, InkOfBlanks
    <3>7. Ink(from(i)) = Ink(c) \o Ink(from(j))
      <4>1. c \o gap = SubSeq(s, i + 1, j) /\ SubSeq(s, i + 1, j) \o from(j) = from(i)
        <5>1. /\ i + 1 \in 1..(Len(s) + 1) /\ i + cut \in ((i + 1) - 1)..Len(s)
              /\ j \in (i + cut)..Len(s) /\ j \in ((i + 1) - 1)..Len(s) /\ Len(s) \in j..Len(s)
          BY <1>0, <3>4
        <5>2. SubSeq(s, i + 1, i + cut) \o SubSeq(s, (i + cut) + 1, j) = SubSeq(s, i + 1, j)
          BY <5>1, ConcatAdjacentSubSeq
        <5>3. SubSeq(s, i + 1, j) \o SubSeq(s, j + 1, Len(s)) = SubSeq(s, i + 1, Len(s))
          BY <5>1, ConcatAdjacentSubSeq
        <5> QED
          BY <5>2, <5>3
      <4> HIDE DEF c, gap, from
      <4>2. c \o gap \in Seq(Char) /\ from(j) \in Seq(Char)
        BY <1>2, <3>4, <3>5, <3>6, ConcatProperties
      <4>3. Ink(c \o gap) = Ink(c) \o Ink(gap)
        BY <3>5, <3>6, InkConcat
      <4>4. Ink(c) \in Seq(Char)
        BY <3>5, InkType
      <4>5. Ink(c) \o <<>> = Ink(c)
        BY <4>4, ConcatEmptySeq
      <4>6. Ink((c \o gap) \o from(j)) = Ink(c \o gap) \o Ink(from(j))
        BY <4>2, InkConcat
      <4> QED
        BY <3>6, <4>1, <4>3, <4>5, <4>6
    <3>8. Faithful(q[j], from(j), max) /\ \A k \in 1..Len(q[j]) : Len(q[j][k]) > 0
      BY <1>3, <3>4
    <3> DEFINE rest == q[j]
    <3>9. rest \in Seq(Seq(Char))
      BY <3>4
    <3>10. q[i] = <<c>> \o rest
      BY <3>3
    <3> HIDE DEF c, gap, from, rest
    <3>11. /\ Len(q[i]) = Len(rest) + 1 /\ Len(rest) \in Nat
           /\ \A k \in 1..(Len(rest) + 1) : (<<c>> \o rest)[k] = IF k = 1 THEN c ELSE rest[k - 1]
      <4>1. <<c>> \in Seq(Seq(Char)) /\ Len(<<c>>) = 1 /\ <<c>>[1] = c
        BY <3>5
      <4>2. /\ Len(<<c>> \o rest) = 1 + Len(rest)
            /\ \A k \in 1..(1 + Len(rest)) : (<<c>> \o rest)[k] = IF k <= 1 THEN <<c>>[k] ELSE rest[k - 1]
        BY <3>9, <4>1, ConcatProperties
      <4>3. Len(rest) \in Nat
        BY <3>9
      <4> QED
        BY <3>10, <4>1, <4>2, <4>3
    <3>12. \A k \in 1..Len(q[i]) : Len(q[i][k]) <= max /\ Len(q[i][k]) > 0
      <4> TAKE k \in 1..Len(q[i])
      <4>1. CASE k = 1
        BY <3>5, <3>10, <3>11, <4>1
      <4>2. CASE k # 1
        <5>1. k - 1 \in 1..Len(rest) /\ q[i][k] = rest[k - 1]
          BY <3>10, <3>11, <4>2
        <5> QED
          BY <3>8, <5>1 DEF Faithful, rest
      <4> QED
        BY <4>1, <4>2
    <3>13. ASSUME NEW f, ShownSteps(f, q[i])
           PROVE  Ink(f[Len(q[i])]) = Ink(from(i))
      <4>1. PICK g \in [0..Len(rest) -> Seq(Char)] : ShownSteps(g, rest)
        <5>1. rest \in Seq(Part)
          BY <3>9, SeqMonotonic DEF Part
        <5> QED
          BY <5>1, ShownExists
      <4>2. f[Len(rest) + 1] = c \o g[Len(rest)]
        BY <3>5, <3>9, <3>10, <3>13, <4>1, ShownAfterFirst
      <4>3. Ink(g[Len(rest)]) = Ink(from(j))
        BY <3>8, <4>1 DEF Faithful, rest
      <4>4. g[Len(rest)] \in Seq(Char)
        <5> DEFINE last == Len(rest)
        <5>1. last \in 0..last /\ g \in [0..last -> Seq(Char)]
          BY <3>11, <4>1
        <5> HIDE DEF last
        <5>2. g[last] \in Seq(Char)
          BY <5>1
        <5> QED
          BY <5>2 DEF last
      <4>5. Ink(c \o g[Len(rest)]) = Ink(c) \o Ink(g[Len(rest)])
        BY <3>5, <4>4, InkConcat
      <4> QED
        BY <3>7, <3>11, <4>2, <4>3, <4>5
    <3> QED
      BY <3>12, <3>13 DEF Faithful
  <2> QED
    BY <2>1, <2>2, <2>3
<1>4. \A i \in 0..n : i \in G
  <2> HIDE DEF G, n
  <2> QED
    BY <1>0, <1>3, DownwardInduction
<1>5. CASE n <= max
  BY <1>1, <1>5, OneChunkIsFaithful
<1>6. CASE ~(n <= max)
  <2>1. 0 \in 0..n /\ from(0) = s
    <3>1. SubSeq(s, 1, Len(s)) = s
      BY SubSeqFull
    <3> QED
      BY <1>0, <3>1
  <2>2. Faithful(q[0], from(0), max)
    BY <1>4, <2>1
  <2> HIDE DEF from
  <2> QED
    BY <1>1, <1>6, <2>1, <2>2
<1> QED
  BY <1>5, <1>6

-----------------------------------------------------------------------------
(* What Parts promises of a message, and what has been shown of it. *)

\* The texts of a message's parts, and the files that follow them.
TextParts(m) ==
    IF kind = "discord" THEN splitMessage(content[m], MaxLength)
    ELSE IF content[m] = <<>> THEN <<>> ELSE <<content[m]>>

FileParts(m) ==
    IF kind = "discord" THEN IF Files[m] > 0 THEN <<file>> ELSE <<>>
    ELSE [i \in 1..Files[m] |-> file]

LEMMA PartsAreTextsAndFiles ==
    ASSUME NEW m \in Message
    PROVE  Parts(m) = TextParts(m) \o FileParts(m)
BY DEF Parts, TextParts, FileParts

\* The same for the texts of a message, whatever the adapter's kind.
LEMMA TextPartsAreFaithful ==
    ASSUME NEW m \in Message, content[m] \in Seq(Char)
    PROVE  /\ TextParts(m) \in Seq(Seq(Char))
           /\ \A f : ShownSteps(f, TextParts(m)) => Ink(f[Len(TextParts(m))]) = Ink(content[m])
           /\ kind = "discord" => \A k \in 1..Len(TextParts(m)) :
                 /\ Len(TextParts(m)[k]) <= MaxLength
                 /\ Len(TextParts(m)[k]) > 0 \/ content[m] = <<>>
<1> DEFINE c == content[m]
<1>1. CASE kind = "discord"
  <2>1. TextParts(m) = splitMessage(c, MaxLength)
    BY <1>1 DEF TextParts
  <2>2. /\ splitMessage(c, MaxLength) \in Seq(Seq(Char))
        /\ Faithful(splitMessage(c, MaxLength), c, MaxLength)
    BY SplitIsFaithfulToText, ChannelsAssumption
  <2> QED
    BY <2>1, <2>2 DEF Faithful
<1>2. CASE kind # "discord" /\ c = <<>>
  <2>1. TextParts(m) = <<>> /\ Len(<<>>) = 0
    BY <1>2 DEF TextParts
  <2> QED
    BY <1>2, <2>1 DEF ShownSteps
<1>3. CASE kind # "discord" /\ c # <<>>
  <2>1. TextParts(m) = <<c>> /\ <<c>> \in Seq(Seq(Char))
    BY <1>3 DEF TextParts
  <2>2. Len(c) \in Nat /\ Len(c) <= Len(c)
    OBVIOUS
  <2>3. Faithful(<<c>>, c, Len(c))
    BY <2>2, OneChunkIsFaithful
  <2> QED
    BY <1>3, <2>1, <2>3 DEF Faithful
<1> QED
  BY <1>1, <1>2, <1>3

LEMMA FilePartsAreFiles ==
    ASSUME NEW m \in Message
    PROVE  /\ FileParts(m) \in Seq({file})
           /\ \A k \in 1..Len(FileParts(m)) : FileParts(m)[k] = file
<1>1. FileParts(m) \in Seq({file})
  <2>1. Files[m] \in Nat
    BY ChannelsAssumption
  <2> DEFINE n == Files[m]
             one == <<file>>
             all == [i \in 1..n |-> file]
  <2>2. all \in Seq({file}) /\ one \in Seq({file})
    BY <2>1
  <2> HIDE DEF one, all
  <2>3. FileParts(m) \in {one, <<>>, all}
    BY DEF FileParts, one, all
  <2>4. <<>> \in Seq({file})
    OBVIOUS
  <2> QED
    BY <2>2, <2>3, <2>4
<1> QED
  BY <1>1

\* The parts are the texts and then the files.
LEMMA PartsType ==
    ASSUME NEW m \in Message, content[m] \in Seq(Char)
    PROVE  /\ Parts(m) \in Seq(Part)
           /\ Len(Parts(m)) = Len(TextParts(m)) + Len(FileParts(m))
           /\ \A k \in 1..Len(Parts(m)) :
                 Parts(m)[k] = IF k <= Len(TextParts(m)) THEN TextParts(m)[k]
                               ELSE FileParts(m)[k - Len(TextParts(m))]
<1> DEFINE texts == TextParts(m)
           files == FileParts(m)
<1>1. texts \in Seq(Part)
  <2>1. Seq(Char) \subseteq Part
    BY DEF Part
  <2> HIDE DEF texts
  <2> QED
    BY <2>1, TextPartsAreFaithful, SeqMonotonic DEF texts
<1>2. files \in Seq(Part)
  <2>1. {file} \subseteq Part
    BY DEF Part
  <2> HIDE DEF files
  <2> QED
    BY <2>1, FilePartsAreFiles, SeqMonotonic DEF files
<1>3. Parts(m) = texts \o files
  BY PartsAreTextsAndFiles
<1> HIDE DEF texts, files
<1>4. /\ texts \o files \in Seq(Part)
      /\ Len(texts \o files) = Len(texts) + Len(files)
      /\ \A i \in 1..(Len(texts) + Len(files)) :
            (texts \o files)[i] = IF i <= Len(texts) THEN texts[i] ELSE files[i - Len(texts)]
  BY <1>1, <1>2, ConcatProperties
<1> QED
  BY <1>3, <1>4 DEF texts, files

\* Files show nothing that can be read.
LEMMA AllThatIsShown ==
    ASSUME NEW m \in Message, content[m] \in Seq(Char), NEW f, ShownSteps(f, Parts(m))
    PROVE  Ink(f[Len(Parts(m))]) = Ink(content[m])
<1> DEFINE t == Len(TextParts(m))
           n == Len(Parts(m))
           e == Len(FileParts(m))
<1>1. t \in Nat /\ e \in Nat /\ n = t + e
  BY PartsType, TextPartsAreFaithful, FilePartsAreFiles, LenProperties
<1>2. \A k \in 1..t : Parts(m)[k] = TextParts(m)[k]
  BY <1>1, PartsType
<1>3. \A k \in (t + 1)..n : Parts(m)[k] = file
  <2> TAKE k \in (t + 1)..n
  <2>1. k \in 1..n /\ ~(k <= t) /\ k - t \in 1..e
    BY <1>1
  <2>2. Parts(m)[k] = FileParts(m)[k - t]
    BY <2>1, PartsType
  <2> QED
    BY <2>1, <2>2, FilePartsAreFiles
<1>4. /\ f[0] = <<>>
      /\ \A k \in 1..n : f[k] = IF Parts(m)[k] = file THEN f[k - 1] ELSE f[k - 1] \o Parts(m)[k]
  BY DEF ShownSteps
<1>5. ShownSteps(f, TextParts(m))
  BY <1>1, <1>2, <1>4 DEF ShownSteps
<1>6. Ink(f[t]) = Ink(content[m])
  BY <1>5, TextPartsAreFaithful
<1> HIDE DEF t, n, e
<1> DEFINE Good == {j \in Nat : j <= e => f[t + j] = f[t]}
<1>7. 0 \in Good
  BY <1>1
<1>8. ASSUME NEW j \in Nat, j \in Good
      PROVE  j + 1 \in Good
  <2> SUFFICES ASSUME j + 1 <= e PROVE f[t + (j + 1)] = f[t]
    OBVIOUS
  <2>1. /\ t + (j + 1) \in (t + 1)..n /\ t + (j + 1) \in 1..n
        /\ (t + (j + 1)) - 1 = t + j /\ f[t + j] = f[t]
    BY <1>1, <1>8
  <2> QED
    BY <1>3, <1>4, <2>1
<1> HIDE DEF Good
<1>9. e \in Good
  BY <1>1, <1>7, <1>8, Induction
<1>10. f[n] = f[t]
  BY <1>1, <1>9 DEF Good
<1> QED
  BY <1>6, <1>10 DEF n

\* What is shown first stays a beginning of what is shown.
LEMMA ShownGrows ==
    ASSUME NEW parts \in Seq(Part), NEW f, ShownSteps(f, parts), NEW k \in 0..Len(parts)
    PROVE  /\ f[k] \in Seq(Char)
           /\ \E r \in Seq(Char) : Ink(f[Len(parts)]) = Ink(f[k]) \o r
<1> DEFINE n == Len(parts)
<1>1. n \in Nat /\ \A i \in 1..n : parts[i] \in Part
  OBVIOUS
<1>2. /\ f[0] = <<>>
      /\ \A i \in 1..n : f[i] = IF parts[i] = file THEN f[i - 1] ELSE f[i - 1] \o parts[i]
  BY DEF ShownSteps
<1>3. k \in 0..n
  OBVIOUS
<1> HIDE DEF n
<1>4. \A i \in 0..n : f[i] \in Seq(Char)
  BY <1>1, <1>2, ShownType
<1> DEFINE Good == {j \in Nat : k + j <= n => \E r \in Seq(Char) : f[k + j] = f[k] \o r}
<1>5. 0 \in Good
  <2>1. f[k] = f[k] \o <<>>
    BY <1>3, <1>4, ConcatEmptySeq
  <2>2. k + 0 = k /\ <<>> \in Seq(Char)
    BY <1>1, <1>3
  <2> QED
    BY <2>1, <2>2
<1>6. ASSUME NEW j \in Nat, j \in Good
      PROVE  j + 1 \in Good
  <2> SUFFICES ASSUME k + (j + 1) <= n
               PROVE  \E r \in Seq(Char) : f[k + (j + 1)] = f[k] \o r
    OBVIOUS
  <2>1. k + (j + 1) \in 1..n /\ (k + (j + 1)) - 1 = k + j /\ k + j <= n
    BY <1>1, <1>3
  <2>2. PICK r \in Seq(Char) : f[k + j] = f[k] \o r
    BY <1>6, <2>1
  <2> DEFINE part == parts[k + (j + 1)]
  <2>3. CASE part = file
    <3>1. f[k + (j + 1)] = f[k + j]
      BY <1>2, <2>1, <2>3
    <3> QED
      BY <2>2, <3>1
  <2>4. CASE part # file
    <3>1. part \in Seq(Char)
      BY <1>1, <2>1, <2>4 DEF Part
    <3>2. f[k + (j + 1)] = (f[k] \o r) \o part
      BY <1>2, <2>1, <2>2, <2>4
    <3> HIDE DEF part
    <3>3. Same((f[k] \o r) \o part, f[k] \o (r \o part)) /\ r \o part \in Seq(Char)
      BY <1>3, <1>4, <2>2, <3>1, Associates, ConcatProperties
    <3> QED
      BY <3>2, <3>3 DEF Same
  <2> QED
    BY <2>3, <2>4
<1> HIDE DEF Good
<1>7. n - k \in Good
  BY <1>1, <1>3, <1>5, <1>6, Induction
<1>8. PICK r \in Seq(Char) : f[n] = f[k] \o r
  <2>1. n - k \in Nat /\ k + (n - k) = n
    BY <1>1, <1>3
  <2> QED
    BY <1>7, <2>1 DEF Good
<1>9. Ink(f[n]) = Ink(f[k]) \o Ink(r) /\ Ink(r) \in Seq(Char)
  BY <1>3, <1>4, <1>8, InkConcat, InkType
<1> QED
  BY <1>3, <1>4, <1>9 DEF n

\* A text stands at the beginning of what it is continued to.
LEMMA BeginsWith ==
    ASSUME NEW C, NEW a \in Seq(C), NEW r \in Seq(C)
    PROVE  a = SubSeq(a \o r, 1, Len(a))
<1> DEFINE n == Len(a)
           ar == a \o r
           b == SubSeq(ar, 1, n)
<1>1. n \in Nat /\ \A i \in 1..n : ar[i] = a[i] /\ a[i] \in C
  BY ConcatProperties, ElementOfSeq
<1>2. b \in Seq(C) /\ Len(b) = n /\ \A i \in 1..n : b[i] = a[i]
  <2> HIDE DEF n, ar
  <2>1. \A i \in 1..n : ar[i] \in C
    BY <1>1
  <2>2. /\ b \in Seq(C) /\ Len(b) = IF 1 <= n THEN n - 1 + 1 ELSE 0
        /\ \A i \in 1..(n - 1 + 1) : b[i] = ar[1 + i - 1]
    BY <1>1, <2>1, SubSeqProperties
  <2> HIDE DEF b
  <2>3. /\ n - 1 + 1 = n /\ Len(b) = n
        /\ \A i \in 1..n : 1 + i - 1 = i
    BY <1>1, <2>2
  <2> QED
    BY <1>1, <2>2, <2>3
<1> HIDE DEF b
<1>3. a = b
  BY <1>1, <1>2
<1> QED
  BY <1>3 DEF b

\* TextShown is what is read of the first shown[m] parts.
LEMMA TextShownIsStepwise ==
    ASSUME NEW m \in Message, content[m] \in Seq(Char), shown[m] \in 0..Len(Parts(m)),
           NEW f, ShownSteps(f, Parts(m))
    PROVE  TextShown(m) = f[shown[m]]
<1> DEFINE n == shown[m]
           F(g) == [i \in 0..n |->
                      IF i = 0 THEN <<>>
                      ELSE IF Parts(m)[i] = file THEN g[i - 1]
                      ELSE g[i - 1] \o Parts(m)[i]]
           upTo == CHOOSE g : g = F(g)
           h == [i \in 0..n |-> f[i]]
<1>1. n \in Nat /\ \A i \in 1..n : i \in 1..Len(Parts(m)) /\ i - 1 \in 0..n
  BY PartsType, LenProperties
<1>2. /\ f[0] = <<>>
      /\ \A i \in 1..n : f[i] = IF Parts(m)[i] = file THEN f[i - 1] ELSE f[i - 1] \o Parts(m)[i]
  BY <1>1 DEF ShownSteps
<1>3. h = F(h)
  <2>1. \A i \in 0..n : i = 0 \/ i \in 1..n
    BY <1>1
  <2>2. ASSUME NEW i \in 0..n
        PROVE  h[i] = F(h)[i]
    BY <1>1, <1>2, <2>1
  <2> QED
    BY <2>2
<1>4. upTo = F(upTo)
  BY <1>3
<1>5. TextShown(m) = upTo[n]
  BY DEF TextShown
<1> HIDE DEF upTo
<1>6. /\ upTo[0] = <<>>
      /\ \A i \in 1..n :
            upTo[i] = IF Parts(m)[i] = file THEN upTo[i - 1] ELSE upTo[i - 1] \o Parts(m)[i]
  <2>1. \A i \in 0..n : upTo[i] = IF i = 0 THEN <<>>
                                  ELSE IF Parts(m)[i] = file THEN upTo[i - 1]
                                  ELSE upTo[i - 1] \o Parts(m)[i]
    BY <1>4
  <2>2. 0 \in 0..n /\ \A i \in 1..n : i \in 0..n /\ i # 0
    BY <1>1
  <2> HIDE DEF n
  <2> QED
    BY <2>1, <2>2
<1> HIDE DEF n
<1> DEFINE Good == {j \in Nat : j <= n => upTo[j] = f[j]}
<1>7. 0 \in Good
  BY <1>2, <1>6
<1>8. ASSUME NEW j \in Nat, j \in Good
      PROVE  j + 1 \in Good
  <2> SUFFICES ASSUME j + 1 <= n PROVE upTo[j + 1] = f[j + 1]
    OBVIOUS
  <2>1. j + 1 \in 1..n /\ (j + 1) - 1 = j /\ upTo[j] = f[j]
    BY <1>1, <1>8
  <2> QED
    BY <1>2, <1>6, <2>1
<1> HIDE DEF Good
<1>9. n \in Good
  BY <1>1, <1>7, <1>8, Induction
<1> QED
  BY <1>1, <1>5, <1>9 DEF Good, n

\* SplitIsFaithful, of any message whose parts are shown in order.
LEMMA ShownIsFaithful ==
    ASSUME NEW m \in Message, content[m] \in Seq(Char), shown[m] \in 0..Len(Parts(m))
    PROVE  /\ Ink(TextShown(m)) = SubSeq(Ink(content[m]), 1, Len(Ink(TextShown(m))))
           /\ shown[m] = Len(Parts(m)) => Ink(TextShown(m)) = Ink(content[m])
           /\ kind = "discord" =>
                \A i \in 1..Len(Parts(m)) :
                    /\ Len(Parts(m)[i]) <= MaxLength
                    /\ Len(Parts(m)[i]) > 0 \/ content[m] = <<>>
<1>1. Parts(m) \in Seq(Part)
  BY PartsType
<1>2. PICK f : ShownSteps(f, Parts(m))
  BY <1>1, ShownExists
<1> DEFINE a == Ink(f[shown[m]])
<1>3. TextShown(m) = f[shown[m]]
  BY <1>2, TextShownIsStepwise
<1>4. Ink(f[Len(Parts(m))]) = Ink(content[m])
  BY <1>2, AllThatIsShown
<1>5. /\ f[shown[m]] \in Seq(Char)
      /\ \E r \in Seq(Char) : Ink(f[Len(Parts(m))]) = a \o r
  BY <1>1, <1>2, ShownGrows
<1>6. a \in Seq(Char)
  BY <1>5, InkType
<1> HIDE DEF a
<1>7. a = SubSeq(Ink(content[m]), 1, Len(a))
  <2>1. PICK r \in Seq(Char) : Ink(f[Len(Parts(m))]) = a \o r
    BY <1>5
  <2>2. a = SubSeq(a \o r, 1, Len(a))
    BY <1>6, BeginsWith
  <2> QED
    BY <1>4, <2>1, <2>2
<1>8. ASSUME kind = "discord", NEW i \in 1..Len(Parts(m))
      PROVE  Len(Parts(m)[i]) <= MaxLength /\ (Len(Parts(m)[i]) > 0 \/ content[m] = <<>>)
  <2> DEFINE t == Len(TextParts(m))
  <2>1. t \in Nat /\ Len(FileParts(m)) \in Nat
    BY TextPartsAreFaithful, FilePartsAreFiles, LenProperties
  <2>2. CASE i <= t
    <3>1. Parts(m)[i] = TextParts(m)[i] /\ i \in 1..t
      BY <2>1, <2>2, PartsType
    <3> QED
      BY <1>8, <3>1, TextPartsAreFaithful
  <2>3. CASE ~(i <= t)
    <3>1. Parts(m)[i] = FileParts(m)[i - t] /\ i - t \in 1..Len(FileParts(m))
      BY <2>1, <2>3, PartsType
    <3>2. Parts(m)[i] = file /\ Len(file) = 1
      BY <3>1, FilePartsAreFiles DEF file
    <3> QED
      BY <3>2, ChannelsAssumption
  <2> QED
    BY <2>2, <2>3
<1> QED
  BY <1>3, <1>4, <1>7, <1>8 DEF a

-----------------------------------------------------------------------------
(* The messages. *)

Fate == {"idle", "unrouted", "sending", "delivered", "failed"}

\* The messages: parts are shown in order, none before its message is sent and
\* all before it is delivered.
PartsInv ==
    /\ router \in {"idle", "starting", "up", "stopped"}
    /\ connected \in BOOLEAN
    /\ attempts \in 0..MaxReconnects
    /\ status \in [Message -> Fate]
    /\ content \in [Message -> Seq(Char)]
    /\ shown \in [Message -> Nat]
    /\ \A m \in Message :
          /\ shown[m] \in 0..Len(Parts(m))
          /\ status[m] = "idle" => shown[m] = 0
          /\ status[m] = "delivered" => shown[m] = Len(Parts(m))

\* A message whose text stays keeps its parts.
LEMMA SameParts ==
    ASSUME NEW m \in Message, kind' = kind, content'[m] = content[m]
    PROVE  Parts(m)' = Parts(m)
BY DEF Parts

\* What the adapter does besides leaves the messages alone.
LEMMA AdapterKeepsParts ==
    ASSUME PartsInv, Lifecycle \/ LibraryEvent \/ Reconnect
    PROVE  PartsInv' /\ UNCHANGED <<kind, outboundVars>>
<1>1. UNCHANGED <<kind, outboundVars>>
  BY DEF Lifecycle, LibraryEvent, Reconnect, StartAll, LoginSettles, ConnectResolves,
         ConnectRejects, StopAll, PollingFails, ShardDisconnects, Opened, SocketCloses
<1>2. /\ router' \in {"idle", "starting", "up", "stopped"}
      /\ connected' \in BOOLEAN
      /\ attempts' \in 0..MaxReconnects
  <2>1. CASE Lifecycle
    BY <2>1 DEF PartsInv, Lifecycle, StartAll, LoginSettles, ConnectResolves, ConnectRejects,
                StopAll, StartSettled
  <2>2. CASE PollingFails \/ ShardDisconnects \/ Reconnect
    BY <2>2 DEF PartsInv, PollingFails, ShardDisconnects, Reconnect
  <2>3. ASSUME NEW s \in Socket, Opened(s)
        PROVE  /\ router' = router /\ connected' \in BOOLEAN /\ attempts' \in 0..MaxReconnects
    BY <2>3, ChannelsAssumption DEF Opened
  <2>4. ASSUME NEW s \in Socket, SocketCloses(s)
        PROVE  /\ router' = router /\ connected' \in BOOLEAN /\ attempts' \in 0..MaxReconnects
    <3>1. attempts \in Nat /\ attempts <= MaxReconnects /\ MaxReconnects \in Nat
      BY ChannelsAssumption DEF PartsInv
    <3>2. router' = router /\ connected' = FALSE
      BY <2>4 DEF SocketCloses
    <3>3. (attempts < MaxReconnects /\ attempts' = attempts + 1) \/ attempts' = attempts
      BY <2>4 DEF SocketCloses
    <3>4. attempts' \in 0..MaxReconnects
      <4>1. CASE attempts < MaxReconnects /\ attempts' = attempts + 1
        BY <3>1, <4>1
      <4>2. CASE attempts' = attempts
        BY <3>1, <4>2
      <4> QED
        BY <3>3, <4>1, <4>2
    <3> QED
      BY <3>2, <3>4
  <2> QED
    BY <2>1, <2>2, <2>3, <2>4 DEF LibraryEvent, PartsInv
<1>3. \A m \in Message : Parts(m)' = Parts(m)
  BY <1>1, SameParts DEF outboundVars
<1> QED
  BY <1>1, <1>2, <1>3 DEF PartsInv, outboundVars

\* What a step of message m leaves alone.
LEMMA OutboundLeavesTheRest ==
    ASSUME PartsInv, NEW m \in Message, Outbound(m)
    PROVE  /\ UNCHANGED <<kind, router, adapterVars>>
           /\ status' \in [Message -> Fate]
           /\ content' \in [Message -> Seq(Char)]
           /\ shown' \in [Message -> Nat]
           /\ \A p \in Message \ {m} :
                 /\ status'[p] = status[p] /\ content'[p] = content[p] /\ shown'[p] = shown[p]
                 /\ Parts(p)' = Parts(p)
<1>1. UNCHANGED <<kind, router, adapterVars>>
  BY DEF Outbound, SendStep, DropOutbound, RefuseOutbound, SendOutbound, PartShown, PartFails,
         Delivered
<1>2. \E s \in Fate : status' = [status EXCEPT ![m] = s] \/ status' = status
  BY DEF Outbound, SendStep, DropOutbound, RefuseOutbound, SendOutbound, PartShown, PartFails,
         Delivered, SetStatus, Fate
<1>3. content' = content \/ \E text \in Texts[m] : content' = [content EXCEPT ![m] = text]
  BY DEF Outbound, SendStep, DropOutbound, RefuseOutbound, SendOutbound, PartShown, PartFails,
         Delivered
<1>4. shown' = shown \/ shown' = [shown EXCEPT ![m] = shown[m] + 1]
  BY DEF Outbound, SendStep, DropOutbound, RefuseOutbound, SendOutbound, PartShown, PartFails,
         Delivered
<1>5. \A text \in Texts[m] : text \in Seq(Char)
  BY ChannelsAssumption
<1>6. /\ status' \in [Message -> Fate]
      /\ \A p \in Message \ {m} : status'[p] = status[p]
  BY <1>2 DEF PartsInv
<1>7. /\ content' \in [Message -> Seq(Char)]
      /\ \A p \in Message \ {m} : content'[p] = content[p]
  BY <1>3, <1>5 DEF PartsInv
<1>8. /\ shown' \in [Message -> Nat]
      /\ \A p \in Message \ {m} : shown'[p] = shown[p]
  BY <1>4 DEF PartsInv
<1>9. \A p \in Message \ {m} : Parts(p)' = Parts(p)
  BY <1>1, <1>7, SameParts
<1> QED
  BY <1>1, <1>6, <1>7, <1>8, <1>9

\* How a step of message m moves it, in the terms of Delivery.
Moves(m, from, to) == status[m] = from /\ status'[m] = to

LEMMA OutboundMoves ==
    ASSUME PartsInv, NEW m \in Message, Outbound(m)
    PROVE  \/ /\ Moves(m, "idle", "unrouted") \/ Moves(m, "idle", "failed")
              /\ shown'[m] = 0 /\ Parts(m)' = Parts(m)
           \/ Moves(m, "idle", "sending") /\ shown'[m] = 0
           \/ /\ Moves(m, "sending", "sending")
              /\ shown[m] < Len(Parts(m)) /\ shown'[m] = shown[m] + 1
              /\ Parts(m)' = Parts(m)
           \/ /\ Moves(m, "sending", "delivered")
              /\ shown[m] = Len(Parts(m)) /\ shown'[m] = shown[m] /\ Parts(m)' = Parts(m)
           \/ /\ Moves(m, "sending", "failed")
              /\ shown'[m] = shown[m] /\ Parts(m)' = Parts(m)
<1>1. CASE DropOutbound(m) \/ RefuseOutbound(m)
  <2>1. kind' = kind /\ content'[m] = content[m]
    BY <1>1 DEF DropOutbound, RefuseOutbound
  <2>2. Parts(m)' = Parts(m)
    BY <2>1, SameParts
  <2> QED
    BY <1>1, <2>2 DEF DropOutbound, RefuseOutbound, SetStatus, Moves, PartsInv
<1>2. CASE SendOutbound(m)
  BY <1>2 DEF SendOutbound, SetStatus, Moves, PartsInv
<1>3. CASE SendStep(m)
  <2>1. kind' = kind /\ content'[m] = content[m]
    BY <1>3 DEF SendStep, PartShown, PartFails, Delivered
  <2>2. Parts(m)' = Parts(m)
    BY <2>1, SameParts
  <2>3. CASE PartShown(m)
    BY <2>2, <2>3 DEF PartShown, Moves, PartsInv
  <2>4. CASE PartFails(m)
    BY <2>2, <2>4 DEF PartFails, SetStatus, Moves, PartsInv
  <2>5. CASE Delivered(m)
    BY <2>2, <2>5 DEF Delivered, SetStatus, Moves, PartsInv
  <2> QED
    BY <1>3, <2>3, <2>4, <2>5 DEF SendStep
<1> QED
  BY <1>1, <1>2, <1>3 DEF Outbound

LEMMA PartsCount == \A m \in Message : content[m] \in Seq(Char) => Len(Parts(m)) \in Nat
BY PartsType, LenProperties

\* The same after a step.
LEMMA PartsCountNext ==
    \A m \in Message : content'[m] \in Seq(Char) => Len(Parts(m)') \in Nat
<1>1. (\A m \in Message : content[m] \in Seq(Char) => Len(Parts(m)) \in Nat)'
  BY PartsCount, PTL
<1> QED
  BY <1>1

\* A step of a message keeps the order of its parts.
LEMMA OutboundKeepsParts ==
    ASSUME PartsInv, NEW m \in Message, Outbound(m)
    PROVE  PartsInv' /\ Len(Parts(m)') \in Nat
<1>1. Len(Parts(m)) \in Nat
  BY PartsCount DEF PartsInv
<1>2. Len(Parts(m)') \in Nat
  BY OutboundLeavesTheRest, PartsCountNext
<1>3. /\ shown'[m] \in 0..Len(Parts(m)')
      /\ status'[m] = "idle" => shown'[m] = 0
      /\ status'[m] = "delivered" => shown'[m] = Len(Parts(m)')
  <2>1. shown[m] \in 0..Len(Parts(m))
    BY DEF PartsInv
  <2> QED
    BY <1>1, <1>2, <2>1, OutboundMoves DEF Moves
<1>4. \A p \in Message \ {m} :
         /\ shown'[p] \in 0..Len(Parts(p)')
         /\ status'[p] = "idle" => shown'[p] = 0
         /\ status'[p] = "delivered" => shown'[p] = Len(Parts(p)')
  BY OutboundLeavesTheRest DEF PartsInv
<1> QED
  BY <1>2, <1>3, <1>4, OutboundLeavesTheRest DEF PartsInv, adapterVars

LEMMA PartsInductive == Spec => []PartsInv
<1>1. Init => PartsInv
  <2> SUFFICES ASSUME Init PROVE PartsInv
    OBVIOUS
  <2>1. content \in [Message -> Seq(Char)] /\ shown \in [Message -> Nat]
        /\ status \in [Message -> Fate]
    BY DEF Init, Fate
  <2>2. \A m \in Message : shown[m] = 0 /\ status[m] = "idle"
    BY DEF Init
  <2>3. \A m \in Message : content[m] \in Seq(Char)
    BY <2>1
  <2>4. \A m \in Message : shown[m] \in 0..Len(Parts(m))
    BY <2>2, <2>3, PartsCount
  <2>5. attempts = 0 /\ connected = FALSE /\ router = "idle"
    BY DEF Init
  <2>6. attempts \in 0..MaxReconnects
    BY <2>5, ChannelsAssumption
  <2> QED
    BY <2>1, <2>2, <2>4, <2>5, <2>6 DEF PartsInv
<1>2. PartsInv /\ [Next]_vars => PartsInv'
  <2> SUFFICES ASSUME PartsInv, [Next]_vars PROVE PartsInv'
    OBVIOUS
  <2>1. CASE UNCHANGED vars
    <3>1. UNCHANGED <<kind, router, adapterVars, outboundVars>>
      BY <2>1 DEF vars
    <3>2. \A m \in Message : Parts(m)' = Parts(m)
      BY <3>1, SameParts DEF outboundVars
    <3> QED
      BY <3>1, <3>2 DEF PartsInv, outboundVars, adapterVars
  <2> QED
    BY <2>1, AdapterKeepsParts, OutboundKeepsParts DEF Next
<1> QED
  BY <1>1, <1>2, PTL DEF Spec

\* One delivery's state, as the adapter's.
Left == [m \in Message |->
           IF status[m] = "sending" THEN Len(Parts(m)) - shown[m] ELSE 0]

\* Each step of the adapter is a step of Delivery's, or leaves its state alone.
LEMMA StepImplementsDelivery ==
    ASSUME PartsInv, [Next]_vars
    PROVE  [D!Next]_(D!vars)
<1>1. ASSUME UNCHANGED <<kind, outboundVars>>
      PROVE  UNCHANGED D!vars
  <2>1. \A m \in Message : Parts(m)' = Parts(m)
    BY <1>1, SameParts DEF outboundVars
  <2>2. Left' = Left
    BY <1>1, <2>1 DEF Left, outboundVars
  <2> QED
    BY <1>1, <2>2 DEF D!vars, Left, outboundVars
<1>2. ASSUME NEW m \in Message, Outbound(m)
      PROVE  D!Next
  <2>1. /\ status \in [Message -> Fate] /\ status' \in [Message -> Fate]
        /\ \A p \in Message \ {m} : status'[p] = status[p]
    BY <1>2, OutboundLeavesTheRest DEF PartsInv
  <2>2. /\ Left' = [Left EXCEPT ![m] = Left'[m]]
        /\ Left[m] = IF status[m] = "sending" THEN Len(Parts(m)) - shown[m] ELSE 0
        /\ Left'[m] = IF status'[m] = "sending" THEN Len(Parts(m)') - shown'[m] ELSE 0
    BY <1>2, OutboundLeavesTheRest DEF Left
  <2>3. status' = [status EXCEPT ![m] = status'[m]]
    BY <2>1
  <2>4. /\ Len(Parts(m)) \in Nat /\ Len(Parts(m)') \in Nat
        /\ shown[m] \in 0..Len(Parts(m))
    BY <1>2, PartsCount, OutboundKeepsParts DEF PartsInv
  <2>5. CASE /\ Moves(m, "idle", "unrouted") \/ Moves(m, "idle", "failed")
             /\ shown'[m] = 0 /\ Parts(m)' = Parts(m)
    <3>1. Left[m] = 0 /\ Left'[m] = 0
      BY <2>2, <2>5 DEF Moves
    <3>2. Left' = Left
      BY <2>2, <3>1 DEF Left
    <3>3. D!Drop(m) \/ D!Refuse(m)
      BY <2>3, <2>5, <3>2 DEF Moves, D!Drop, D!Refuse, D!Move, Left
    <3> QED
      BY <3>3 DEF D!Next
  <2>6. CASE Moves(m, "idle", "sending") /\ shown'[m] = 0
    <3>1. Left'[m] \in Nat
      BY <2>2, <2>4, <2>6 DEF Moves
    <3>2. D!Accept(m)
      BY <2>2, <2>3, <2>6, <3>1 DEF Moves, D!Accept, D!Move, Left
    <3> QED
      BY <3>2 DEF D!Next
  <2>7. CASE /\ Moves(m, "sending", "sending")
             /\ shown[m] < Len(Parts(m)) /\ shown'[m] = shown[m] + 1
             /\ Parts(m)' = Parts(m)
    <3>1. Left[m] > 0 /\ Left'[m] = Left[m] - 1
      BY <2>2, <2>4, <2>7 DEF Moves
    <3>2. Left' = [Left EXCEPT ![m] = Left[m] - 1] /\ status' = status
      BY <2>1, <2>2, <2>3, <2>7, <3>1 DEF Moves
    <3>3. D!Show(m)
      BY <2>7, <3>1, <3>2 DEF Moves, D!Show, Left
    <3> QED
      BY <3>3 DEF D!Next
  <2>8. CASE /\ Moves(m, "sending", "delivered")
             /\ shown[m] = Len(Parts(m)) /\ shown'[m] = shown[m] /\ Parts(m)' = Parts(m)
    <3>1. Left[m] = 0 /\ Left'[m] = 0
      BY <2>2, <2>4, <2>8 DEF Moves
    <3>2. Left' = Left
      BY <2>2, <3>1 DEF Left
    <3>3. D!Deliver(m)
      BY <2>3, <2>8, <3>1, <3>2 DEF Moves, D!Deliver, D!Move, Left
    <3> QED
      BY <3>3 DEF D!Next
  <2>9. CASE /\ Moves(m, "sending", "failed")
             /\ shown'[m] = shown[m] /\ Parts(m)' = Parts(m)
    <3>1. Left'[m] = 0
      BY <2>2, <2>9 DEF Moves
    <3>2. D!Fail(m)
      BY <2>2, <2>3, <2>9, <3>1 DEF Moves, D!Fail, D!Move, Left
    <3> QED
      BY <3>2 DEF D!Next
  <2> QED
    BY <1>2, <2>5, <2>6, <2>7, <2>8, <2>9, OutboundMoves
<1>3. CASE Lifecycle \/ LibraryEvent \/ Reconnect
  BY <1>1, <1>3, AdapterKeepsParts
<1>4. CASE UNCHANGED vars
  BY <1>1, <1>4 DEF vars
<1> QED
  BY <1>2, <1>3, <1>4 DEF Next

\* Whatever texts and attachments are sent, and whatever becomes of the connection:
\* an outbound message is unrouted, or settled once, delivered only after its last
\* part (router.ts 177-215, the adapters' send).
THEOREM AdapterImplementsDelivery == Spec => ImplementsDeliverySafely
<1>1. Init => D!Init
  BY DEF Init, D!Init
<1>2. PartsInv /\ [Next]_vars => [D!Next]_(D!vars)
  BY StepImplementsDelivery
<1> QED
  BY <1>1, <1>2, PartsInductive, PTL DEF Spec, ImplementsDeliverySafely, D!SafeSpec

\* For texts of any length and any limit of the platform: what the user has seen is
\* a beginning of the answer but for blanks, all of it once the answer is delivered,
\* and no chunk is empty or longer than Discord accepts (message-utils.ts 9-36).
THEOREM SplittingIsFaithful == Spec => []SplitIsFaithful
<1>1. PartsInv => SplitIsFaithful
  <2> SUFFICES ASSUME PartsInv, NEW m \in Message
               PROVE  LET seen == Ink(TextShown(m))
                          all  == Ink(content[m])
                      IN  /\ seen = SubSeq(all, 1, Len(seen))
                          /\ status[m] = "delivered" => seen = all
                          /\ kind = "discord" =>
                               \A i \in 1..Len(Parts(m)) :
                                   /\ Len(Parts(m)[i]) <= MaxLength
                                   /\ Len(Parts(m)[i]) > 0 \/ content[m] = <<>>
    BY DEF SplitIsFaithful
  <2>1. /\ content[m] \in Seq(Char) /\ shown[m] \in 0..Len(Parts(m))
        /\ status[m] = "delivered" => shown[m] = Len(Parts(m))
    BY DEF PartsInv
  <2> QED
    BY <2>1, ShownIsFaithful
<1> QED
  BY <1>1, PartsInductive, PTL

\* The state keeps its shape, however often the connection breaks: at most
\* MaxReconnects attempts are counted, and never more parts shown than there are
\* (whatsapp/adapter.ts 106-108, the adapters' send).
THEOREM ChannelsTypeCorrect == Spec => []TypeOK
<1>1. ConnectionInv /\ PartsInv => TypeOK
  BY DEF ConnectionInv, PartsInv, TypeOK, Fate
<1> QED
  BY <1>1, ConnectionInvariant, PartsInductive, PTL
=============================================================================
