-------------------------- MODULE ExtensionsProofs --------------------------
(***************************************************************************)
(* Proofs about the bundled extensions: the browser extension loses a browser *)
(* only in a race of launches and closes or when it would not close, and      *)
(* knows every ref that an undisturbed snapshot printed, whatever the page;    *)
(* the setup of an account never saves a token beside the credentials of      *)
(* another client.                                                         *)
(***************************************************************************)
EXTENDS Browser, Gmail, TLAPS, SequenceTheorems, WellFoundedInduction

-----------------------------------------------------------------------------
(* Induction over the numbers, from the library's WFMin: a set of numbers   *)
(* stands for the predicate.                                               *)

\* Every set of numbers has a least one.
LEMMA LeastNatural ==
    ASSUME NEW T, T \subseteq Nat, T # {}
    PROVE  \E x \in T : \A y \in T : x <= y
<1> DEFINE R == {pair \in Nat \X Nat : pair[1] < pair[2]}
<1>1. IsWellFoundedOn(R, Nat)
  BY NatLessThanWellFounded DEF OpToRel
<1> HIDE DEF R
<1>2. \E x \in T : \A y \in T : <<y, x>> \notin R
  BY <1>1, WFMin
<1>3. \A x, y \in Nat : <<y, x>> \notin R => x <= y
  BY DEF R
<1> QED
  BY <1>2, <1>3

\* What holds of 0 and of every successor holds of every number.
LEMMA Induction ==
    ASSUME NEW T, 0 \in T, \A n \in Nat : n \in T => n + 1 \in T
    PROVE  \A n \in Nat : n \in T
<1> DEFINE Out == {n \in Nat : n \notin T}
<1> SUFFICES ASSUME Out # {} PROVE FALSE
  OBVIOUS
<1>1. PICK x \in Out : \A y \in Out : x <= y
  BY LeastNatural
<1>2. x # 0 /\ x \in Nat /\ x - 1 \in Nat
  OBVIOUS
<1>3. x - 1 \notin Out
  BY <1>1, <1>2
<1> QED
  BY <1>2, <1>3

\* f applies the steps one after the other, from base on.
IsIteration(f, n, S, base, step) ==
    /\ f \in [0..n -> S] /\ f[0] = base
    /\ \A k \in 1..n : f[k] = step[k][f[k - 1]]

\* There is such a function, if the steps stay in S.
LEMMA Iterates ==
    ASSUME NEW n \in Nat, NEW S, NEW base \in S, NEW step,
           \A k \in 1..n : \A v \in S : step[k][v] \in S
    PROVE  \E f : IsIteration(f, n, S, base, step)
<1> DEFINE IsUpTo(f, k) == /\ f \in [0..k -> S] /\ f[0] = base
                           /\ \A i \in 1..k : f[i] = step[i][f[i - 1]]
           Good == {k \in Nat : k <= n => \E f : IsUpTo(f, k)}
<1>1. 0 \in Good
  <2>1. IsUpTo([i \in 0..0 |-> base], 0)
    OBVIOUS
  <2> QED
    BY <2>1
<1>2. ASSUME NEW k \in Nat, k \in Good
      PROVE  k + 1 \in Good
  <2> HIDE DEF IsUpTo
  <2> SUFFICES ASSUME k + 1 <= n PROVE \E f : IsUpTo(f, k + 1)
    OBVIOUS
  <2>1. PICK f : IsUpTo(f, k)
    BY <1>2
  <2> USE DEF IsUpTo
  <2> DEFINE g == [i \in 0..(k + 1) |-> IF i = k + 1 THEN step[i][f[k]] ELSE f[i]]
  <2>2. f[k] \in S /\ k + 1 \in 1..n
    BY <2>1
  <2>3. step[k + 1][f[k]] \in S
    BY <2>2
  <2>4. g \in [0..(k + 1) -> S] /\ g[0] = base
    BY <2>1, <2>3
  <2>5. ASSUME NEW i \in 1..(k + 1)
        PROVE  g[i] = step[i][g[i - 1]]
    <3>1. i - 1 \in 0..k /\ i - 1 # k + 1
      OBVIOUS
    <3>2. g[i - 1] = f[i - 1]
      BY <3>1
    <3>3. CASE i = k + 1
      BY <3>2, <3>3
    <3>4. CASE i # k + 1
      <4>1. i \in 1..k
        BY <3>4
      <4> QED
        BY <2>1, <3>2, <3>4, <4>1
    <3> QED
      BY <3>3, <3>4
  <2>6. IsUpTo(g, k + 1)
    BY <2>4, <2>5
  <2> QED
    BY <2>6
<1> HIDE DEF Good
<1>3. n \in Good
  BY <1>1, <1>2, Induction
<1> QED
  BY <1>3 DEF Good, IsIteration

\* Whatever satisfies the steps has the values of S.
LEMMA IteratesType ==
    ASSUME NEW n \in Nat, NEW S, NEW g, g[0] \in S,
           \A k \in 1..n : g[k - 1] \in S => g[k] \in S
    PROVE  \A k \in 0..n : g[k] \in S
<1> DEFINE Good == {k \in Nat : k <= n => g[k] \in S}
<1>1. 0 \in Good
  OBVIOUS
<1>2. ASSUME NEW k \in Nat, k \in Good
      PROVE  k + 1 \in Good
  <2> SUFFICES ASSUME k + 1 <= n PROVE g[k + 1] \in S
    OBVIOUS
  <2>1. k + 1 \in 1..n /\ (k + 1) - 1 = k /\ g[k] \in S
    BY <1>2
  <2> QED
    BY <2>1
<1> HIDE DEF Good
<1>3. \A k \in Nat : k \in Good
  BY <1>1, <1>2, Induction
<1> QED
  BY <1>3 DEF Good

-----------------------------------------------------------------------------
(* The map of refs.                                                        *)

Ref == Nat \ {0}
Target == [el : Element, dom : BOOLEAN]
Maps == UNION {[D -> Target] : D \in SUBSET Ref}

\* The entries carry the refs that follow on first.
Numbered(entries, first) ==
    /\ entries \in Seq(Entry)
    /\ \A i \in 1..Len(entries) : entries[i].ref = first + i

\* One refMap.set.
Entered(map, p) ==
    [n \in DOMAIN map \cup {p.ref} |->
        IF n = p.ref THEN [el |-> p.el, dom |-> p.dom] ELSE map[n]]

\* One more ref leaves the others what they are.
LEMMA EnteredType ==
    ASSUME NEW map \in Maps, NEW p \in Entry
    PROVE  /\ Entered(map, p) \in Maps
           /\ DOMAIN Entered(map, p) = DOMAIN map \cup {p.ref}
           /\ Entered(map, p)[p.ref] = [el |-> p.el, dom |-> p.dom]
           /\ \A n \in DOMAIN map : n # p.ref => Entered(map, p)[n] = map[n]
<1>1. DOMAIN map \in SUBSET Ref /\ \A n \in DOMAIN map : map[n] \in Target
  BY DEF Maps
<1>2. p.ref \in Ref /\ [el |-> p.el, dom |-> p.dom] \in Target
  BY DEF Entry, Target, Ref
<1>3. DOMAIN map \cup {p.ref} \in SUBSET Ref
  BY <1>1, <1>2
<1>4. Entered(map, p) \in [DOMAIN map \cup {p.ref} -> Target]
  BY <1>1, <1>2 DEF Entered
<1> QED
  BY <1>3, <1>4 DEF Maps, Entered

\* Known enters the entries one after the other.
LEMMA KnownSteps ==
    ASSUME NEW map \in Maps, NEW entries \in Seq(Entry)
    PROVE  \E f : /\ f[0] = map
                  /\ \A k \in 1..Len(entries) : f[k] = Entered(f[k - 1], entries[k])
                  /\ Known(map, entries) = f[Len(entries)]
<1> DEFINE n == Len(entries)
           step == [k \in 1..n |-> [v \in Maps |-> Entered(v, entries[k])]]
           F(g) == [k \in 0..Len(entries) |->
                      IF k = 0 THEN map
                      ELSE LET p == entries[k]
                           IN  [i \in DOMAIN g[k - 1] \cup {p.ref} |->
                                  IF i = p.ref THEN [el |-> p.el, dom |-> p.dom] ELSE g[k - 1][i]]]
           upTo == CHOOSE g : g = F(g)
<1>1. n \in Nat /\ \A k \in 1..n : entries[k] \in Entry
  OBVIOUS
<1>2. \A k \in 1..n : \A v \in Maps : Entered(v, entries[k]) \in Maps
  BY <1>1, EnteredType
<1>3. \A k \in 1..n : \A v \in Maps : step[k][v] \in Maps
  BY <1>2
<1>4. PICK f : IsIteration(f, n, Maps, map, step)
  <2> HIDE DEF n, step
  <2> QED
    BY <1>1, <1>3, Iterates
<1>5. /\ f \in [0..n -> Maps] /\ f[0] = map
      /\ \A k \in 1..n : f[k] = Entered(f[k - 1], entries[k])
  <2>1. f \in [0..n -> Maps] /\ f[0] = map /\ \A k \in 1..n : f[k] = step[k][f[k - 1]]
    BY <1>4 DEF IsIteration
  <2>2. \A k \in 1..n : f[k - 1] \in Maps
    BY <1>1, <2>1
  <2> QED
    BY <2>1, <2>2
<1>6. f = F(f)
  <2>1. f = [i \in 0..n |-> f[i]]
    BY <1>5
  <2>2. ASSUME NEW k \in 0..n
        PROVE  f[k] = F(f)[k]
    <3>1. CASE k = 0
      BY <1>1, <1>5, <3>1
    <3>2. CASE k # 0
      <4>1. k \in 1..n
        BY <1>1, <3>2
      <4>2. f[k] = Entered(f[k - 1], entries[k])
        BY <1>5, <4>1
      <4> QED
        BY <3>2, <4>2 DEF Entered
    <3> QED
      BY <3>1, <3>2
  <2> QED
    BY <2>1, <2>2
<1>7. upTo = F(upTo)
  BY <1>6
<1>8. Known(map, entries) = upTo[n]
  BY DEF Known
<1> HIDE DEF upTo
<1>9. upTo[0] = map
  <2>1. 0 \in 0..n
    BY <1>1
  <2> QED
    BY <1>7, <2>1
<1>10. \A k \in 1..n : upTo[k] = Entered(upTo[k - 1], entries[k])
  <2> TAKE k \in 1..n
  <2>1. k \in 0..n /\ k # 0
    BY <1>1
  <2> QED
    BY <1>7, <2>1 DEF Entered
<1> QED
  BY <1>8, <1>9, <1>10

\* m is map with the first k of the entries.
HoldsFirst(m, map, first, entries, k) ==
    /\ m \in Maps
    /\ DOMAIN m = DOMAIN map \cup ((first + 1)..(first + k))
    /\ \A i \in 1..k : m[first + i] = [el |-> entries[i].el, dom |-> entries[i].dom]
    /\ \A r \in DOMAIN map : r <= first => m[r] = map[r]

\* Entries whose refs follow each other are all in the map, and push out none of
\* what has another ref.
LEMMA KnownMap ==
    ASSUME NEW map \in Maps, NEW first \in Nat, NEW entries, Numbered(entries, first)
    PROVE  HoldsFirst(Known(map, entries), map, first, entries, Len(entries))
<1> DEFINE n == Len(entries)
<1>1. /\ n \in Nat
      /\ \A k \in 1..n : entries[k] \in Entry /\ entries[k].ref = first + k
  BY DEF Numbered
<1>2. PICK f : /\ f[0] = map
               /\ \A k \in 1..n : f[k] = Entered(f[k - 1], entries[k])
               /\ Known(map, entries) = f[n]
  BY KnownSteps DEF Numbered
<1> HIDE DEF n
<1> DEFINE Good == {k \in Nat : k <= n => HoldsFirst(f[k], map, first, entries, k)}
<1>3. 0 \in Good
  BY <1>2 DEF HoldsFirst
<1>4. ASSUME NEW k \in Nat, k \in Good
      PROVE  k + 1 \in Good
  <2> SUFFICES ASSUME k + 1 <= n PROVE HoldsFirst(f[k + 1], map, first, entries, k + 1)
    OBVIOUS
  <2>1. HoldsFirst(f[k], map, first, entries, k)
    BY <1>1, <1>4
  <2>2. k + 1 \in 1..n /\ (k + 1) - 1 = k
    OBVIOUS
  <2> DEFINE p == entries[k + 1]
             m == f[k]
             e == f[k + 1]
  <2>3. p \in Entry /\ p.ref = first + (k + 1) /\ e = Entered(m, p)
    BY <1>1, <1>2, <2>2
  <2>4. m \in Maps
    BY <2>1 DEF HoldsFirst
  <2>5. /\ e \in Maps
        /\ DOMAIN e = DOMAIN m \cup {first + (k + 1)}
        /\ e[first + (k + 1)] = [el |-> p.el, dom |-> p.dom]
        /\ \A i \in DOMAIN m : i # first + (k + 1) => e[i] = m[i]
    <3> HIDE DEF p, m, e
    <3>1. /\ Entered(m, p) \in Maps
          /\ DOMAIN Entered(m, p) = DOMAIN m \cup {p.ref}
          /\ Entered(m, p)[p.ref] = [el |-> p.el, dom |-> p.dom]
          /\ \A i \in DOMAIN m : i # p.ref => Entered(m, p)[i] = m[i]
      BY <2>3, <2>4, EnteredType
    <3> QED
      BY <2>3, <3>1
  <2>6. DOMAIN map \subseteq Ref
    BY DEF Maps
  <2>7. DOMAIN e = DOMAIN map \cup ((first + 1)..(first + (k + 1)))
    <3>1. (first + 1)..(first + (k + 1)) = ((first + 1)..(first + k)) \cup {first + (k + 1)}
      OBVIOUS
    <3> HIDE DEF e, m
    <3> QED
      BY <2>1, <2>5, <3>1 DEF HoldsFirst, m
  <2>8. \A i \in 1..(k + 1) : e[first + i] = [el |-> entries[i].el, dom |-> entries[i].dom]
    <3> TAKE i \in 1..(k + 1)
    <3>1. CASE i = k + 1
      BY <2>5, <3>1
    <3>2. CASE i # k + 1
      <4>1. i \in 1..k /\ first + i \in DOMAIN m /\ first + i # first + (k + 1)
        BY <2>1, <3>2 DEF HoldsFirst
      <4> QED
        BY <2>1, <2>5, <4>1 DEF HoldsFirst
    <3> QED
      BY <3>1, <3>2
  <2>9. \A r \in DOMAIN map : r <= first => e[r] = map[r]
    <3> TAKE r \in DOMAIN map
    <3> HAVE r <= first
    <3>1. r \in DOMAIN m /\ r # first + (k + 1)
      BY <2>1, <2>6 DEF HoldsFirst, Ref
    <3> HIDE DEF e, m
    <3> QED
      BY <2>1, <2>5, <3>1 DEF HoldsFirst, m
  <2> QED
    BY <2>5, <2>7, <2>8, <2>9 DEF HoldsFirst
<1> HIDE DEF Good
<1>5. n \in Good
  BY <1>1, <1>3, <1>4, Induction
<1>6. HoldsFirst(f[n], map, first, entries, n)
  BY <1>1, <1>5 DEF Good
<1> QED
  BY <1>2, <1>6 DEF n

-----------------------------------------------------------------------------
(* The walk of the document.                                               *)

\* What is found after some of the items, when the walk began with ref `first`.
Found(items) ==
    [seen : SUBSET {<<item.section, item.key>> : item \in Range(items)},
     ref : Nat, attrs : [Element -> Nat], printed : Seq(Entry)]

FoundInv(found, items, first) ==
    /\ found \in Found(items)
    /\ Numbered(found.printed, first)
    /\ found.ref = first + Len(found.printed)

\* An item gets the next ref, or none.
LEMMA ExtractKeeps ==
    ASSUME NEW items, NEW item \in Range(items), item.el \in Element \cup {None},
           NEW first \in Nat, NEW found, FoundInv(found, items, first)
    PROVE  FoundInv(Extract(found, item), items, first)
<1> DEFINE key == <<item.section, item.key>>
           n == found.ref + 1
           entry == [ref |-> n, el |-> item.el, dom |-> TRUE]
<1>1. /\ found \in Found(items) /\ Numbered(found.printed, first)
      /\ found.ref = first + Len(found.printed)
  BY DEF FoundInv
<1>2. found.seen \cup {key} \in SUBSET {<<i.section, i.key>> : i \in Range(items)}
  BY <1>1 DEF Found
<1>3. CASE IsDouble(found.seen, item)
  BY <1>3 DEF Extract
<1>4. CASE ~IsDouble(found.seen, item) /\ item.el = None
  <2>1. Extract(found, item) = [found EXCEPT !.seen = found.seen \cup {key}]
    BY <1>4 DEF Extract
  <2> HIDE DEF key
  <2>2. /\ Extract(found, item) \in Found(items)
        /\ Extract(found, item).printed = found.printed /\ Extract(found, item).ref = found.ref
    BY <1>1, <1>2, <2>1 DEF Found
  <2> QED
    BY <1>1, <2>2 DEF FoundInv
<1>5. CASE ~IsDouble(found.seen, item) /\ item.el # None
  <2> DEFINE attrs == [found.attrs EXCEPT ![item.el] = n]
             shown == Append(found.printed, entry)
             seen == found.seen \cup {key}
  <2>1. Extract(found, item) = [seen |-> seen, ref |-> n, attrs |-> attrs, printed |-> shown]
    BY <1>5 DEF Extract
  <2>2. /\ found.printed \in Seq(Entry) /\ Len(found.printed) \in Nat
        /\ found.ref \in Nat /\ found.attrs \in [Element -> Nat]
    BY <1>1 DEF Found, Numbered
  <2>3. n \in Nat /\ n \in Ref /\ n = first + (Len(found.printed) + 1)
    BY <1>1, <2>2 DEF Ref
  <2>4. entry \in Entry
    BY <1>5, <2>3 DEF Entry
  <2>5. attrs \in [Element -> Nat]
    BY <2>2, <2>3
  <2>6. /\ shown \in Seq(Entry) /\ Len(shown) = Len(found.printed) + 1
        /\ \A i \in 1..Len(found.printed) : shown[i] = found.printed[i]
        /\ shown[Len(found.printed) + 1] = entry
    <3> HIDE DEF entry
    <3> QED
      BY <2>2, <2>4, AppendProperties
  <2>7. Numbered(shown, first)
    <3>1. entry.ref = n
      OBVIOUS
    <3> HIDE DEF shown, entry, n
    <3>2. ASSUME NEW i \in 1..Len(shown)
          PROVE  shown[i].ref = first + i
      <4>1. CASE i = Len(found.printed) + 1
        BY <2>3, <2>6, <3>1, <4>1
      <4>2. CASE i # Len(found.printed) + 1
        <5>1. i \in 1..Len(found.printed)
          BY <2>2, <2>6, <4>2
        <5> QED
          BY <1>1, <2>6, <5>1 DEF Numbered
      <4> QED
        BY <4>1, <4>2
    <3> QED
      BY <2>6, <3>2 DEF Numbered
  <2> DEFINE keys == {<<i.section, i.key>> : i \in Range(items)}
  <2>8. Found(items) = [seen : SUBSET keys, ref : Nat, attrs : [Element -> Nat],
                        printed : Seq(Entry)]
    BY DEF Found
  <2>9. seen \in SUBSET keys
    BY <1>2
  <2> HIDE DEF seen, keys, attrs, shown, n
  <2>10. /\ Extract(found, item) \in Found(items)
         /\ Extract(found, item).printed = shown /\ Extract(found, item).ref = n
    BY <2>1, <2>3, <2>5, <2>6, <2>8, <2>9
  <2> QED
    BY <2>3, <2>6, <2>7, <2>10 DEF FoundInv
<1> QED
  BY <1>3, <1>4, <1>5, <1>1 DEF FoundInv

\* And so the refs of a walk follow each other.
LEMMA WalkedKeeps ==
    ASSUME NEW items, items \in Seq(Range(items)),
           \A item \in Range(items) : item.el \in Element \cup {None},
           NEW first \in Nat, NEW start, FoundInv(start, items, first)
    PROVE  FoundInv(Walked(start, items), items, first)
<1> DEFINE n == Len(items)
           S == {f \in Found(items) : FoundInv(f, items, first)}
           step == [k \in 1..n |-> [v \in S |-> Extract(v, items[k])]]
           F(g) == [k \in 0..Len(items) |->
                      IF k = 0 THEN start ELSE Extract(g[k - 1], items[k])]
           found == CHOOSE g : g = F(g)
<1>1. n \in Nat /\ \A k \in 1..n : items[k] \in Range(items)
  OBVIOUS
<1>2. start \in S
  BY DEF FoundInv
<1>3. ASSUME NEW k \in 1..n, NEW v \in S
      PROVE  Extract(v, items[k]) \in S
  <2>1. FoundInv(v, items, first)
    OBVIOUS
  <2>2. FoundInv(Extract(v, items[k]), items, first)
    BY <1>1, <2>1, ExtractKeeps
  <2> QED
    BY <2>2 DEF FoundInv
<1>4. \A k \in 1..n : \A v \in S : step[k][v] \in S
  BY <1>3
<1>5. PICK f : IsIteration(f, n, S, start, step)
  <2> HIDE DEF n, S, step
  <2> QED
    BY <1>1, <1>2, <1>4, Iterates
<1>6. /\ f \in [0..n -> S] /\ f[0] = start
      /\ \A k \in 1..n : f[k] = Extract(f[k - 1], items[k])
  <2>1. f \in [0..n -> S] /\ f[0] = start /\ \A k \in 1..n : f[k] = step[k][f[k - 1]]
    BY <1>5 DEF IsIteration
  <2> HIDE DEF S
  <2>2. \A k \in 1..n : f[k - 1] \in S
    BY <1>1, <2>1
  <2> QED
    BY <2>1, <2>2
<1> HIDE DEF S, step
<1>7. f = F(f)
  <2>1. f = [i \in 0..n |-> f[i]]
    BY <1>6
  <2>2. \A k \in 0..n : f[k] = IF k = 0 THEN start ELSE Extract(f[k - 1], items[k])
    <3> TAKE k \in 0..n
    <3>1. k = 0 \/ k \in 1..n
      BY <1>1
    <3> QED
      BY <1>6, <3>1
  <2> QED
    BY <2>1, <2>2
<1>8. found = F(found)
  BY <1>7
<1>9. Walked(start, items) = found[n]
  BY DEF Walked
<1> HIDE DEF found
<1>10. found[0] = start
  <2>1. 0 \in 0..n
    BY <1>1
  <2> QED
    BY <1>8, <2>1
<1>11. \A k \in 1..n : found[k] = Extract(found[k - 1], items[k])
  <2> TAKE k \in 1..n
  <2>1. k \in 0..n /\ k # 0
    BY <1>1
  <2> QED
    BY <1>8, <2>1
<1>12. \A k \in 1..n : found[k - 1] \in S => found[k] \in S
  BY <1>3, <1>11
<1>13. \A k \in 0..n : found[k] \in S
  <2> HIDE DEF n
  <2> QED
    BY <1>1, <1>2, <1>10, <1>12, IteratesType
<1>14. found[n] \in S
  BY <1>1, <1>13
<1> QED
  BY <1>9, <1>14 DEF S

-----------------------------------------------------------------------------
(* The ways to read a page.                                                *)

KnownIn(map, entries) ==
    \A p \in entries : p.ref \in DOMAIN map /\ map[p.ref] = [el |-> p.el, dom |-> p.dom]

\* The counter is past every ref in the map.
Bounded(map, n) == \A r \in DOMAIN map : r <= n

\* No ref is lost, none points at something else.
Keeps(map, next) == \A r \in DOMAIN map : r \in DOMAIN next /\ next[r] = map[r]

\* What was known is known later.
LEMMA KeepsKnown ==
    ASSUME NEW map, NEW next, Keeps(map, next), NEW entries, KnownIn(map, entries)
    PROVE  KnownIn(next, entries)
BY DEF Keeps, KnownIn

\* An empty map knows the refs of a text without any.
LEMMA NoRefs ==
    /\ <<>> \in Maps /\ DOMAIN <<>> = {}
    /\ \A n : Bounded(<<>>, n)
    /\ \A map : KnownIn(map, {})
<1>1. <<>> \in [{} -> Target] /\ {} \in SUBSET Ref
  OBVIOUS
<1> QED
  BY <1>1 DEF Maps, KnownIn, Bounded

\* A map stays one, and what follows each other is an entry.
LEMMA KnownType ==
    ASSUME NEW map \in Maps, NEW first \in Nat, NEW entries, Numbered(entries, first)
    PROVE  /\ Known(map, entries) \in Maps
           /\ Range(entries) \in SUBSET Entry /\ Len(entries) \in Nat
<1>1. HoldsFirst(Known(map, entries), map, first, entries, Len(entries))
  BY KnownMap
<1>2. entries \in Seq(Entry) /\ Len(entries) \in Nat
  BY DEF Numbered
<1>3. \A i \in DOMAIN entries : entries[i] \in Entry
  BY <1>2
<1> QED
  BY <1>1, <1>2, <1>3 DEF HoldsFirst, Range

\* What is registered is known, and what was known stays so.
LEMMA EntriesAreKnown ==
    ASSUME NEW map \in Maps, NEW first \in Nat, Bounded(map, first),
           NEW entries, Numbered(entries, first)
    PROVE  /\ KnownIn(Known(map, entries), Range(entries))
           /\ Keeps(map, Known(map, entries))
           /\ Bounded(Known(map, entries), first + Len(entries))
<1> DEFINE n == Len(entries)
           next == Known(map, entries)
<1>1. /\ \A r \in DOMAIN map : r <= first
      /\ DOMAIN map \subseteq Ref
  BY DEF Bounded, Maps
<1>2. /\ n \in Nat /\ entries \in Seq(Entry)
      /\ \A i \in 1..n : entries[i].ref = first + i
  BY DEF Numbered
<1>3. HoldsFirst(next, map, first, entries, n)
  BY KnownMap
<1> HIDE DEF n, next
<1>4. /\ DOMAIN next = DOMAIN map \cup ((first + 1)..(first + n))
      /\ \A i \in 1..n : next[first + i] = [el |-> entries[i].el, dom |-> entries[i].dom]
      /\ \A r \in DOMAIN map : next[r] = map[r]
  BY <1>1, <1>3 DEF HoldsFirst
<1>5. Keeps(map, next)
  BY <1>4 DEF Keeps
<1>6. KnownIn(next, Range(entries))
  <2>1. ASSUME NEW p \in Range(entries)
        PROVE  p.ref \in DOMAIN next /\ next[p.ref] = [el |-> p.el, dom |-> p.dom]
    <3>1. PICK i \in 1..n : p = entries[i]
      BY <1>2 DEF Range, n
    <3>2. p.ref = first + i /\ first + i \in (first + 1)..(first + n)
      BY <1>2, <3>1
    <3> QED
      BY <1>4, <3>1, <3>2
  <2> QED
    BY <2>1 DEF KnownIn
<1>7. Bounded(next, first + n)
  <2> SUFFICES ASSUME NEW r \in DOMAIN next PROVE r <= first + n
    BY DEF Bounded
  <2>1. CASE r \in DOMAIN map
    <3>1. r \in Nat /\ r <= first
      BY <1>1, <2>1 DEF Ref
    <3> QED
      BY <1>2, <3>1
  <2>2. CASE r \in (first + 1)..(first + n)
    BY <1>2, <2>2
  <2> QED
    BY <1>4, <2>1, <2>2
<1> QED
  BY <1>5, <1>6, <1>7 DEF next, n

\* What is known of the documents.
LEMMA ContentType ==
    ASSUME NEW content \in Content
    PROVE  /\ content.items \in Seq(Range(content.items))
           /\ \A item \in Range(content.items) : item.el \in Element \cup {None}
           /\ content.nodes \in Seq(Element) /\ content.allNodes \in Seq(Element)
BY SnapshotAssumption

\* The walk of the DOM prints the refs that follow the one it is given.
LEMMA WalkPrints ==
    ASSUME NEW first \in Nat, NEW attrs \in [Element -> Nat], NEW content \in Content
    PROVE  LET found == extractPage(first, attrs, content)
           IN  /\ Numbered(found.printed, first)
               /\ found.attrs \in [Element -> Nat] /\ found.ref \in Nat
               /\ found.ref = first + Len(found.printed)
<1> DEFINE start == [seen |-> {}, ref |-> first, attrs |-> attrs, printed |-> <<>>]
           items == content.items
<1>1. FoundInv(start, items, first)
  <2>1. Numbered(<<>>, first) /\ Len(<<>>) = 0
    BY DEF Numbered
  <2> QED
    BY <2>1 DEF FoundInv, Found
<1>2. FoundInv(Walked(start, items), items, first)
  <2> HIDE DEF start, items
  <2>1. /\ items \in Seq(Range(items))
        /\ \A item \in Range(items) : item.el \in Element \cup {None}
    BY ContentType DEF items
  <2> QED
    BY <1>1, <2>1, WalkedKeeps
<1> DEFINE found == Walked(start, items)
<1>3. extractPage(first, attrs, content) = found
  BY DEF extractPage
<1> HIDE DEF found
<1>4. FoundInv(found, items, first)
  BY <1>2 DEF found
<1> QED
  BY <1>3, <1>4 DEF FoundInv, Found

\* So do the nodes of the accessibility tree.
LEMMA TreePrints ==
    ASSUME NEW first \in Nat, NEW nodes \in Seq(Element)
    PROVE  Numbered(flattenA11yTree(first, nodes), first)
<1> DEFINE entries == [i \in 1..Len(nodes) |-> [ref |-> first + i, el |-> nodes[i], dom |-> FALSE]]
<1>1. Len(nodes) \in Nat /\ \A i \in 1..Len(nodes) : nodes[i] \in Element
  OBVIOUS
<1>2. \A i \in 1..Len(nodes) : entries[i] \in Entry /\ entries[i].ref = first + i
  BY <1>1 DEF Entry
<1>3. entries \in [1..Len(nodes) -> Entry]
  BY <1>2
<1>4. entries \in Seq(Entry) /\ Len(entries) = Len(nodes)
  <2> HIDE DEF entries
  <2> QED
    BY <1>1, <1>3
<1> QED
  BY <1>2, <1>4 DEF Numbered, flattenA11yTree

-----------------------------------------------------------------------------
(* The state of the browser extension is well formed.                      *)

\* What a call holds at its stages.
LEMMA StageOf ==
    ASSUME NEW call \in Waiting
    PROVE  /\ call.at \in {"newContext", "newPage", "close"} => call.browser \in BrowserId
           /\ call.at \in {"goto", "act"} => call.page \in Page /\ call.tab \in Tab \cup {None}
           /\ call.at \in {"closePage", "ready", "walk", "tree", "fullTree"} => call.page \in Page
           /\ call.at = "walk" => call.start \in Nat
           /\ call.at \in {"tree", "fullTree"} => call.texts \in SUBSET SUBSET Entry
           /\ call.at = "fullTree" => call.tree \in SUBSET Entry
<1> HIDE DEF Entry
<1>1. CASE call \in {Idle} \cup [at : {"launch", "addInitScript", "cookies"}]
  BY <1>1 DEF Idle
<1>2. CASE call \in [at : {"newContext", "newPage", "close"}, browser : BrowserId]
  BY <1>2
<1>3. CASE call \in [at : {"goto", "act"}, page : Page, tab : Tab \cup {None}]
  BY <1>3
<1>4. CASE call \in [at : {"closePage", "ready"}, page : Page]
  BY <1>4
<1>5. CASE call \in [at : {"walk"}, page : Page, start : Nat]
  BY <1>5
<1>6. CASE call \in [at : {"tree"}, page : Page, texts : SUBSET SUBSET Entry]
  BY <1>6
<1>7. CASE call \in [at : {"fullTree"}, page : Page, texts : SUBSET SUBSET Entry,
                     tree : SUBSET Entry]
  BY <1>7
<1> QED
  BY <1>1, <1>2, <1>3, <1>4, <1>5, <1>6, <1>7 DEF Waiting

\* What a page may hold.
Documents == [browser : BrowserId, tab : Tab, content : Content, attrs : [Element -> Nat]]

LifecycleInv ==
    /\ browser \in BrowserId \cup {None} /\ context \in BrowserId \cup {None}
    /\ alive \subseteq BrowserId /\ raced \subseteq BrowserId /\ unclosed \subseteq BrowserId

\* A page in the map has its listeners made for the tab it is under.
TabsInv ==
    /\ tabCounter \in 0..MaxTabs
    /\ DOMAIN docs \subseteq Page
    /\ \A p \in DOMAIN docs : docs[p] \in Documents /\ docs[p].browser \in alive
    /\ DOMAIN pages \subseteq Tab
    /\ \A t \in DOMAIN pages : pages[t] \in DOMAIN docs /\ docs[pages[t]].tab = t
    /\ activePage \in DOMAIN docs \cup {None}

RefsInv ==
    /\ refMap \in Maps /\ refCounter \in Nat
    /\ holders \subseteq ToolCall /\ alone \subseteq ToolCall
    /\ answer \in [refs : SUBSET Entry, page : Page \cup {None}, alone : BOOLEAN]

CallsInv == calls \in [ToolCall -> Waiting]

TypeInv == LifecycleInv /\ TabsInv /\ RefsInv /\ CallsInv

LEMMA TypeInvIsTypeOK ==
    ASSUME TypeInv
    PROVE  BrowserTypeOK
<1>1. \A p \in DOMAIN docs :
          docs[p] \in [browser : alive, tab : Tab, content : Content, attrs : [Element -> Nat]]
  <2> SUFFICES ASSUME NEW p \in DOMAIN docs
               PROVE  docs[p] \in [browser : alive, tab : Tab, content : Content,
                                   attrs : [Element -> Nat]]
    OBVIOUS
  <2>1. docs[p] \in Documents /\ docs[p].browser \in alive
    BY DEF TypeInv, TabsInv
  <2> QED
    BY <2>1 DEF Documents
<1>2. /\ DOMAIN refMap \subseteq Nat \ {0}
      /\ \A n \in DOMAIN refMap : refMap[n] \in [el : Element, dom : BOOLEAN]
  <2>1. refMap \in Maps
    BY DEF TypeInv, RefsInv
  <2>2. PICK D \in SUBSET Ref : refMap \in [D -> Target]
    BY <2>1 DEF Maps
  <2> QED
    BY <2>2 DEF Ref, Target
<1> QED
  BY <1>1, <1>2 DEF TypeInv, LifecycleInv, TabsInv, RefsInv, CallsInv, BrowserTypeOK

LEMMA TypeInvInit ==
    ASSUME BrowserInit
    PROVE  TypeInv
<1>1. Idle \in Waiting
  BY DEF Waiting
<1>2. answer \in [refs : SUBSET Entry, page : Page \cup {None}, alone : BOOLEAN]
  BY DEF BrowserInit, NoAnswer
<1> QED
  BY <1>1, <1>2, NoRefs, BrowserAssumption
     DEF BrowserInit, TypeInv, LifecycleInv, TabsInv, RefsInv, CallsInv

\* The groups of variables that a step leaves alone keep their part.
LEMMA Unchanged ==
    ASSUME TypeInv
    PROVE  /\ UNCHANGED lifecycle => LifecycleInv'
           /\ UNCHANGED <<tabs, alive>> => TabsInv'
           /\ UNCHANGED refs => RefsInv'
           /\ UNCHANGED calls => CallsInv'
BY DEF TypeInv, LifecycleInv, TabsInv, RefsInv, CallsInv, lifecycle, tabs, refs

\* A call goes to one of its stages.
LEMMA WaitsTypes ==
    ASSUME CallsInv, NEW c \in ToolCall, NEW stage \in Waiting, Waits(c, stage)
    PROVE  CallsInv'
BY DEF CallsInv, Waits

LEMMA EndsTypes ==
    ASSUME CallsInv, NEW c \in ToolCall, Ends(c)
    PROVE  CallsInv'
<1>1. Idle \in Waiting
  BY DEF Waiting
<1> QED
  BY <1>1, WaitsTypes DEF Ends

\* The first page of a map is one of its pages.
LEMMA FirstPageIsOpen ==
    ASSUME NEW open, NEW D, DOMAIN open \subseteq Nat, \A t \in DOMAIN open : open[t] \in D
    PROVE  FirstPage(open) \in D \cup {None}
<1>1. CASE DOMAIN open = {}
  BY <1>1 DEF FirstPage
<1>2. CASE DOMAIN open # {}
  <2>1. PICK n \in DOMAIN open : \A m \in DOMAIN open : n <= m
    BY <1>2, LeastNatural
  <2>2. Min(DOMAIN open) \in DOMAIN open
    BY <2>1 DEF Min
  <2> QED
    BY <1>2, <2>2 DEF FirstPage
<1> QED
  BY <1>1, <1>2

LEMMA ActivePageIsOpen ==
    ASSUME TabsInv
    PROVE  getActivePage \in DOMAIN docs \cup {None} /\ DOMAIN docs \subseteq Page
<1>1. DOMAIN pages \subseteq Nat /\ \A t \in DOMAIN pages : pages[t] \in DOMAIN docs
  BY BrowserAssumption DEF TabsInv, Tab
<1>2. FirstPage(pages) \in DOMAIN docs \cup {None}
  BY <1>1, FirstPageIsOpen
<1> QED
  BY <1>2 DEF getActivePage, TabsInv

\* A tool turns to one of the pages that are open.
LEMMA TurnsToPage ==
    ASSUME TypeInv, NEW p \in DOMAIN docs, activePage' = p,
           UNCHANGED <<lifecycle, pages, tabCounter, docs, refs>>, CallsInv'
    PROVE  TypeInv'
<1>1. TabsInv'
  BY DEF TypeInv, TabsInv, lifecycle
<1> QED
  BY <1>1, Unchanged DEF TypeInv

\* Pages that close leave the map; the others stay under their tabs.
LEMMA PagesLeft ==
    ASSUME TabsInv, NEW closed \in SUBSET DOMAIN docs,
           docs' = [p \in DOMAIN docs \ closed |-> docs[p]],
           pages' = Left(closed)
    PROVE  /\ DOMAIN docs' = DOMAIN docs \ closed
           /\ \A p \in DOMAIN docs' : docs'[p] = docs[p]
           /\ DOMAIN pages' \subseteq DOMAIN pages
           /\ \A t \in DOMAIN pages' : /\ pages'[t] = pages[t] /\ pages'[t] \in DOMAIN docs'
                                       /\ docs'[pages'[t]].tab = t
<1>1. \A t \in DOMAIN pages : pages[t] \in DOMAIN docs /\ docs[pages[t]].tab = t
  BY DEF TabsInv
<1>2. \A t \in DOMAIN pages' : t \in DOMAIN pages /\ pages'[t] = pages[t]
                               /\ t \notin {docs[p].tab : p \in closed}
  BY DEF Left
<1>3. \A t \in DOMAIN pages' : pages[t] \notin closed
  BY <1>1, <1>2
<1> QED
  BY <1>1, <1>2, <1>3

\* A set of pages closes, and with it perhaps a browser.
LEMMA ClosedTypes ==
    ASSUME TabsInv, NEW closed \in SUBSET DOMAIN docs, Closed(closed), UNCHANGED tabCounter,
           \A p \in DOMAIN docs \ closed : docs[p].browser \in alive'
    PROVE  TabsInv'
<1>1. /\ docs' = [p \in DOMAIN docs \ closed |-> docs[p]] /\ pages' = Left(closed)
      /\ activePage' = IF activePage \in closed THEN None ELSE activePage
  BY DEF Closed
<1>2. /\ DOMAIN docs' = DOMAIN docs \ closed
      /\ \A p \in DOMAIN docs' : docs'[p] = docs[p]
      /\ DOMAIN pages' \subseteq DOMAIN pages
      /\ \A t \in DOMAIN pages' : pages'[t] \in DOMAIN docs' /\ docs'[pages'[t]].tab = t
  BY <1>1, PagesLeft
<1> QED
  BY <1>1, <1>2 DEF TabsInv

\* A document gets other content, or other attributes.
LEMMA DocumentTypes ==
    ASSUME TabsInv, UNCHANGED <<alive, pages, tabCounter>>,
           NEW p \in DOMAIN docs, NEW doc \in Documents,
           doc.browser = docs[p].browser, doc.tab = docs[p].tab,
           docs' = [docs EXCEPT ![p] = doc],
           activePage' \in {activePage, p}
    PROVE  TabsInv'
<1>1. DOMAIN docs' = DOMAIN docs
  OBVIOUS
<1>2. \A q \in DOMAIN docs : /\ docs'[q] \in Documents
                             /\ docs'[q].browser = docs[q].browser /\ docs'[q].tab = docs[q].tab
  BY DEF TabsInv
<1> QED
  BY <1>1, <1>2 DEF TabsInv

\* closeBrowser forgets everything but the calls that are under way.
LEMMA ForgetTypes ==
    ASSUME TypeInv, Forget, alive' \subseteq BrowserId, raced' \subseteq BrowserId,
           unclosed' \subseteq BrowserId, holders' \subseteq ToolCall, CallsInv',
           DOMAIN docs' \subseteq DOMAIN docs,
           \A p \in DOMAIN docs' : docs'[p] = docs[p] /\ docs[p].browser \in alive'
    PROVE  TypeInv'
<1>1. LifecycleInv'
  BY DEF Forget, LifecycleInv
<1>2. TabsInv'
  BY BrowserAssumption DEF Forget, TypeInv, TabsInv
<1>3. answer' \in [refs : SUBSET Entry, page : Page \cup {None}, alone : BOOLEAN]
  BY DEF Forget, NoAnswer
<1>4. RefsInv'
  BY <1>3, NoRefs DEF Forget, RefsInv
<1> QED
  BY <1>1, <1>2, <1>4 DEF TypeInv

\* The text of a call becomes the answer.
LEMMA AnswersTypes ==
    ASSUME TypeInv, NEW c \in ToolCall, calls[c].page \in Page,
           NEW text \in SUBSET Entry, Answers(c, text)
    PROVE  /\ CallsInv'
           /\ answer' \in [refs : SUBSET Entry, page : Page \cup {None}, alone : BOOLEAN]
<1>1. CallsInv'
  BY EndsTypes DEF Answers, TypeInv
<1>2. (c \in alone) \in BOOLEAN
  OBVIOUS
<1>3. [refs |-> text, page |-> calls[c].page, alone |-> c \in alone]
        \in [refs : SUBSET Entry, page : Page \cup {None}, alone : BOOLEAN]
  BY <1>2
<1> QED
  BY <1>1, <1>3 DEF Answers

-----------------------------------------------------------------------------
(* The steps of a call keep the state well formed.                         *)

LEMMA StageTypes ==
    ASSUME TypeInv, NEW c \in ToolCall
    PROVE  calls[c] \in Waiting
BY DEF TypeInv, CallsInv

\* An await that only moves the call on.
LEMMA OnlyWaits ==
    ASSUME TypeInv, CallsInv', UNCHANGED <<lifecycle, tabs, refs>>
    PROVE  TypeInv'
<1>1. UNCHANGED <<tabs, alive>>
  BY DEF lifecycle
<1> QED
  BY <1>1, Unchanged DEF TypeInv

LEMMA AsksForPageTypes ==
    ASSUME TypeInv, NEW c \in ToolCall, AsksForPage(c)
    PROVE  CallsInv'
<1>1. CASE context = None
  BY <1>1, EndsTypes DEF AsksForPage, TypeInv
<1>2. CASE context # None
  <2>1. [at |-> "newPage", browser |-> context] \in Waiting
    BY <1>2 DEF TypeInv, LifecycleInv, Waiting
  <2> QED
    BY <1>2, <2>1, WaitsTypes DEF AsksForPage, TypeInv
<1> QED
  BY <1>1, <1>2

LEMMA EnsureBrowserTypes ==
    ASSUME TypeInv, NEW c \in ToolCall, EnsureBrowser(c)
    PROVE  TypeInv'
<1>1. [at |-> "launch"] \in Waiting
  BY DEF Waiting
<1>2. CallsInv'
  BY <1>1, AsksForPageTypes, WaitsTypes DEF EnsureBrowser, TypeInv
<1> QED
  BY <1>2, OnlyWaits DEF EnsureBrowser

LEMMA LaunchedTypes ==
    ASSUME TypeInv, NEW c \in ToolCall, Launched(c)
    PROVE  TypeInv'
<1>1. PICK b \in Fresh :
          /\ browser' = b /\ alive' = alive \cup {b}
          /\ raced' \in {raced \ {b}, raced \cup {b}} /\ unclosed' = unclosed \ {b}
          /\ Waits(c, [at |-> "newContext", browser |-> b])
          /\ UNCHANGED <<context, tabs, refs>>
  BY DEF Launched
<1>2. b \in BrowserId
  BY DEF Fresh
<1>3. LifecycleInv'
  BY <1>1, <1>2 DEF TypeInv, LifecycleInv
<1>4. TabsInv'
  BY <1>1 DEF TypeInv, TabsInv, tabs
<1>5. [at |-> "newContext", browser |-> b] \in Waiting
  BY <1>2 DEF Waiting
<1>6. CallsInv'
  BY <1>1, <1>5, WaitsTypes DEF TypeInv
<1> QED
  BY <1>1, <1>3, <1>4, <1>6, Unchanged DEF TypeInv

LEMMA ContextMadeTypes ==
    ASSUME TypeInv, NEW c \in ToolCall, ContextMade(c)
    PROVE  TypeInv'
<1>1. calls[c].browser \in BrowserId
  BY StageTypes, StageOf DEF ContextMade
<1>2. LifecycleInv'
  BY <1>1 DEF ContextMade, TypeInv, LifecycleInv
<1>3. [at |-> "addInitScript"] \in Waiting
  BY DEF Waiting
<1>4. CallsInv'
  BY <1>3, WaitsTypes DEF ContextMade, TypeInv
<1> QED
  BY <1>2, <1>4, Unchanged DEF ContextMade, TypeInv

LEMMA PageOpenedTypes ==
    ASSUME TypeInv, NEW c \in ToolCall, NEW content \in Content, PageOpened(c, content)
    PROVE  TypeInv'
<1> DEFINE b == calls[c].browser
           tab == tabCounter + 1
           doc == [browser |-> b, tab |-> tab, content |-> content, attrs |-> NoAttrs]
<1>1. b \in BrowserId /\ b \in alive
  BY StageTypes, StageOf DEF PageOpened
<1>2. tab \in Tab /\ tab \in 0..MaxTabs /\ tabCounter' = tab
  BY BrowserAssumption DEF PageOpened, TypeInv, TabsInv, Tab
<1>3. doc \in Documents /\ doc.browser = b /\ doc.tab = tab
  BY <1>1, <1>2 DEF Documents, NoAttrs
<1>4. PICK p \in NewPages :
          /\ docs' = [q \in DOMAIN docs \cup {p} |-> IF q = p THEN doc ELSE docs[q]]
          /\ pages' = [t \in DOMAIN pages \cup {tab} |-> IF t = tab THEN p ELSE pages[t]]
          /\ activePage' = p
          /\ Waits(c, [at |-> "goto", page |-> p, tab |-> tab])
  BY <1>2 DEF PageOpened
<1>5. p \in Page /\ p \notin DOMAIN docs
  BY DEF NewPages
<1> HIDE DEF doc, tab, b
<1>6. TabsInv'
  <2>1. DOMAIN docs' = DOMAIN docs \cup {p} /\ DOMAIN pages' = DOMAIN pages \cup {tab}
    BY <1>4
  <2>2. \A q \in DOMAIN docs' : docs'[q] \in Documents /\ docs'[q].browser \in alive'
    BY <1>1, <1>3, <1>4 DEF TypeInv, TabsInv, PageOpened, lifecycle
  <2>3. ASSUME NEW t \in DOMAIN pages'
        PROVE  pages'[t] \in DOMAIN docs' /\ docs'[pages'[t]].tab = t
    <3>1. CASE t = tab
      BY <1>3, <1>4, <3>1
    <3>2. CASE t # tab
      <4>1. pages'[t] = pages[t] /\ pages[t] \in DOMAIN docs /\ docs[pages[t]].tab = t
        BY <1>4, <3>2 DEF TypeInv, TabsInv
      <4> QED
        BY <1>4, <1>5, <4>1
    <3> QED
      BY <3>1, <3>2
  <2> QED
    BY <1>2, <1>4, <1>5, <2>1, <2>2, <2>3 DEF TypeInv, TabsInv
<1>7. [at |-> "goto", page |-> p, tab |-> tab] \in Waiting
  BY <1>2, <1>5 DEF Waiting
<1>8. CallsInv'
  BY <1>4, <1>7, WaitsTypes DEF TypeInv
<1> QED
  BY <1>6, <1>8, Unchanged DEF PageOpened, TypeInv

LEMMA LoadedTypes ==
    ASSUME TypeInv, NEW c \in ToolCall, NEW content \in Content, Loaded(c, content)
    PROVE  TypeInv'
<1> DEFINE p == calls[c].page
           doc == [docs[p] EXCEPT !.content = content, !.attrs = NoAttrs]
<1>1. p \in Page /\ calls[c].tab \in Tab \cup {None} /\ p \in DOMAIN docs
  BY StageTypes, StageOf DEF Loaded
<1>2. docs[p] \in Documents
  BY <1>1 DEF TypeInv, TabsInv
<1>3. doc \in Documents /\ doc.browser = docs[p].browser /\ doc.tab = docs[p].tab
  BY <1>2 DEF Documents, NoAttrs
<1>4. docs' = [docs EXCEPT ![p] = doc]
  BY DEF Loaded
<1>5. UNCHANGED <<lifecycle, alive, pages, tabCounter, refs>> /\ activePage' = activePage
  BY DEF Loaded, lifecycle
<1>6. [at |-> "act", page |-> p, tab |-> calls[c].tab] \in Waiting
  BY <1>1 DEF Waiting
<1>7. CallsInv'
  BY <1>6, WaitsTypes DEF Loaded, TypeInv
<1> HIDE DEF p, doc
<1>8. TabsInv'
  BY <1>1, <1>3, <1>4, <1>5, DocumentTypes DEF TypeInv
<1> QED
  BY <1>5, <1>7, <1>8, Unchanged DEF TypeInv

\* The tools that begin with an await on the active page, or a page of the map.
LEMMA ActsTypes ==
    ASSUME TypeInv, NEW c \in ToolCall, NEW p \in DOMAIN docs, activePage' = p,
           UNCHANGED <<lifecycle, pages, tabCounter, docs, refs>>,
           \/ Waits(c, [at |-> "goto", page |-> p, tab |-> None])
           \/ Waits(c, [at |-> "act", page |-> p, tab |-> None])
           \/ Waits(c, [at |-> "closePage", page |-> p])
    PROVE  TypeInv'
<1>1. p \in Page
  BY DEF TypeInv, TabsInv
<1>2. /\ [at |-> "goto", page |-> p, tab |-> None] \in Waiting
      /\ [at |-> "act", page |-> p, tab |-> None] \in Waiting
      /\ [at |-> "closePage", page |-> p] \in Waiting
  BY <1>1 DEF Waiting
<1>3. CallsInv'
  BY <1>2, WaitsTypes DEF TypeInv
<1> QED
  BY <1>3, TurnsToPage

LEMMA BeginTypes ==
    ASSUME TypeInv, NEW c \in ToolCall, Begin(c)
    PROVE  TypeInv'
<1>1. getActivePage \in DOMAIN docs \cup {None} /\ DOMAIN docs \subseteq Page
  BY ActivePageIsOpen DEF TypeInv
<1>2. None \notin Page
  BY BrowserAssumption
<1>3. CASE Open(c) \/ Navigate(c)
  BY <1>1, <1>3, EnsureBrowserTypes, ActsTypes DEF Open, Navigate
<1>4. CASE Act(c) \/ CloseTab(c) \/ \E ref \in DOMAIN refMap : Click(c, ref)
  BY <1>1, <1>4, ActsTypes DEF Act, CloseTab, Click
<1>5. CASE \E tab \in DOMAIN pages : Switch(c, tab)
  <2>1. PICK tab \in DOMAIN pages : Switch(c, tab)
    BY <1>5
  <2>2. pages[tab] \in DOMAIN docs
    BY DEF TypeInv, TabsInv
  <2> QED
    BY <2>1, <2>2, ActsTypes DEF Switch
<1>6. CASE Quit(c)
  <2>1. browser \in BrowserId
    BY <1>6 DEF Quit, TypeInv, LifecycleInv
  <2>2. [at |-> "close", browser |-> browser] \in Waiting /\ [at |-> "cookies"] \in Waiting
    BY <2>1 DEF Waiting
  <2>3. CallsInv'
    BY <1>6, <2>2, WaitsTypes DEF Quit, TypeInv
  <2> QED
    BY <1>6, <2>3, OnlyWaits DEF Quit
<1>7. CASE ListTabs
  <2>1. getActivePage # None
    <3>1. /\ DOMAIN pages \subseteq Nat
          /\ \A t \in DOMAIN pages : pages[t] \in DOMAIN docs
      BY BrowserAssumption DEF TypeInv, TabsInv, Tab
    <3>2. PICK n \in DOMAIN pages : \A m \in DOMAIN pages : n <= m
      BY <1>7, <3>1, LeastNatural DEF ListTabs
    <3>3. Min(DOMAIN pages) \in DOMAIN pages
      BY <3>2 DEF Min
    <3>4. FirstPage(pages) \in DOMAIN docs
      BY <1>7, <3>1, <3>3 DEF FirstPage, ListTabs
    <3> QED
      BY <1>1, <1>2, <3>4 DEF getActivePage
  <2>2. CallsInv'
    BY <1>7, Unchanged DEF ListTabs
  <2> QED
    BY <1>1, <1>7, <2>1, <2>2, TurnsToPage DEF ListTabs
<1>8. CASE \E content \in Content : Evaluate(content)
  <2>1. PICK content \in Content : Evaluate(content)
    BY <1>8
  <2> DEFINE p == getActivePage
             doc == [docs[p] EXCEPT !.content = content]
  <2>2. p \in DOMAIN docs /\ docs[p] \in Documents
    BY <1>1, <2>1 DEF Evaluate, TypeInv, TabsInv
  <2>3. doc \in Documents /\ doc.browser = docs[p].browser /\ doc.tab = docs[p].tab
    <3> HIDE DEF p
    <3> QED
      BY <2>2 DEF Documents
  <2>4. /\ docs' = [docs EXCEPT ![p] = doc] /\ activePage' = p
        /\ UNCHANGED <<lifecycle, alive, pages, tabCounter, refs, calls>>
    BY <2>1 DEF Evaluate, lifecycle
  <2> HIDE DEF p, doc
  <2>5. TabsInv'
    BY <2>2, <2>3, <2>4, DocumentTypes DEF TypeInv
  <2> QED
    BY <2>4, <2>5, Unchanged DEF TypeInv
<1> QED
  BY <1>3, <1>4, <1>5, <1>6, <1>7, <1>8 DEF Begin

LEMMA TabClosedTypes ==
    ASSUME TypeInv, NEW c \in ToolCall, TabClosed(c)
    PROVE  TypeInv'
<1> DEFINE closed == {calls[c].page} \cap DOMAIN docs
<1>1. /\ docs' = [p \in DOMAIN docs \ closed |-> docs[p]] /\ pages' = Left(closed)
      /\ activePage' = IF activePage \in closed \cup {None} THEN FirstPage(Left(closed))
                       ELSE activePage
      /\ Ends(c) /\ UNCHANGED <<lifecycle, tabCounter, refs>>
  BY DEF TabClosed
<1>2. closed \in SUBSET DOMAIN docs
  OBVIOUS
<1> HIDE DEF closed
<1>3. /\ DOMAIN docs' = DOMAIN docs \ closed
      /\ \A p \in DOMAIN docs' : docs'[p] = docs[p]
      /\ DOMAIN pages' \subseteq DOMAIN pages
      /\ \A t \in DOMAIN pages' : pages'[t] \in DOMAIN docs' /\ docs'[pages'[t]].tab = t
  BY <1>1, <1>2, PagesLeft DEF TypeInv
<1>4. DOMAIN pages' \subseteq Nat
  BY <1>3, BrowserAssumption DEF TypeInv, TabsInv, Tab
<1>5. FirstPage(pages') \in DOMAIN docs' \cup {None}
  BY <1>3, <1>4, FirstPageIsOpen
<1>6. TabsInv'
  BY <1>1, <1>3, <1>5 DEF TypeInv, TabsInv, lifecycle
<1>7. CallsInv'
  BY <1>1, EndsTypes DEF TypeInv
<1> QED
  BY <1>1, <1>6, <1>7, Unchanged DEF TypeInv

LEMMA CookiesSavedTypes ==
    ASSUME TypeInv, NEW c \in ToolCall, CookiesSaved(c)
    PROVE  TypeInv'
<1>1. CASE browser = None
  BY <1>1, EndsTypes, OnlyWaits DEF CookiesSaved, TypeInv
<1>2. CASE browser # None
  <2>1. [at |-> "close", browser |-> browser] \in Waiting
    BY <1>2 DEF TypeInv, LifecycleInv, Waiting
  <2> QED
    BY <1>2, <2>1, WaitsTypes, OnlyWaits DEF CookiesSaved, TypeInv
<1> QED
  BY <1>1, <1>2

LEMMA BrowserClosedTypes ==
    ASSUME TypeInv, NEW c \in ToolCall, BrowserClosed(c)
    PROVE  TypeInv'
<1> DEFINE b == calls[c].browser
<1>1. b \in BrowserId
  BY StageTypes, StageOf DEF BrowserClosed
<1>2. /\ Forget /\ Ends(c) /\ UNCHANGED <<raced, holders>>
      /\ \/ /\ alive' = alive \ {b} /\ UNCHANGED unclosed
            /\ docs' = [p \in DOMAIN docs \ PagesOf(b) |-> docs[p]]
         \/ unclosed' = unclosed \cup {b} /\ UNCHANGED <<alive, docs>>
  BY DEF BrowserClosed
<1> HIDE DEF b
<1>3. /\ alive' \subseteq BrowserId /\ raced' \subseteq BrowserId
      /\ unclosed' \subseteq BrowserId /\ holders' \subseteq ToolCall
  BY <1>1, <1>2 DEF TypeInv, LifecycleInv, RefsInv
<1>4. /\ DOMAIN docs' \subseteq DOMAIN docs
      /\ \A p \in DOMAIN docs' : docs'[p] = docs[p] /\ docs[p].browser \in alive'
  BY <1>2 DEF PagesOf, TypeInv, TabsInv
<1>5. CallsInv'
  BY <1>2, EndsTypes DEF TypeInv
<1> QED
  BY <1>2, <1>3, <1>4, <1>5, ForgetTypes

LEMMA StartSnapshotTypes ==
    ASSUME TypeInv, NEW c \in ToolCall, StartSnapshot(c)
    PROVE  TypeInv'
<1>1. calls[c].page \in Page
  BY StageTypes, StageOf DEF StartSnapshot
<1>2. PageOf(calls[c]) \in Page
  BY <1>1 DEF StartSnapshot, PageOf, TypeInv, TabsInv
<1>3. [at |-> "ready", page |-> PageOf(calls[c])] \in Waiting
  BY <1>2 DEF Waiting
<1>4. CallsInv'
  BY <1>3, WaitsTypes DEF StartSnapshot, TypeInv
<1>5. answer' \in [refs : SUBSET Entry, page : Page \cup {None}, alone : BOOLEAN]
  BY DEF StartSnapshot, NoAnswer
<1>6. RefsInv'
  BY <1>5, NoRefs DEF StartSnapshot, RefsInv
<1> QED
  BY <1>4, <1>6, Unchanged DEF StartSnapshot, TypeInv, lifecycle

LEMMA PageReadyTypes ==
    ASSUME TypeInv, NEW c \in ToolCall, PageReady(c)
    PROVE  TypeInv'
<1> DEFINE p == calls[c].page
<1>1. p \in Page /\ refCounter \in Nat
  BY StageTypes, StageOf DEF PageReady, TypeInv, RefsInv
<1>2. /\ [at |-> "walk", page |-> p, start |-> refCounter] \in Waiting
      /\ [at |-> "tree", page |-> p, texts |-> {}] \in Waiting
  <2> HIDE DEF p, Entry
  <2> QED
    BY <1>1 DEF Waiting
<1>3. CallsInv'
  BY <1>2, WaitsTypes DEF PageReady, TypeInv
<1>4. RefsInv'
  BY DEF PageReady, TypeInv, RefsInv
<1> QED
  BY <1>3, <1>4, Unchanged DEF PageReady, TypeInv, lifecycle

\* What the walk of a page finds, as far as the steps need it.
LEMMA WalkFinds ==
    ASSUME TypeInv, NEW c \in ToolCall, PageWalked(c)
    PROVE  LET p == calls[c].page
               found == extractPage(calls[c].start, docs[p].attrs, docs[p].content)
           IN  /\ p \in Page /\ p \in DOMAIN docs /\ calls[c].start \in Nat
               /\ docs[p] \in Documents
               /\ Numbered(found.printed, calls[c].start)
               /\ found.attrs \in [Element -> Nat] /\ found.ref \in Nat
               /\ found.ref = calls[c].start + Len(found.printed)
               /\ Range(found.printed) \in SUBSET Entry
               /\ Known(refMap, found.printed) \in Maps
<1> DEFINE p == calls[c].page
           start == calls[c].start
           found == extractPage(start, docs[p].attrs, docs[p].content)
<1>1. p \in Page /\ p \in DOMAIN docs /\ start \in Nat
  BY StageTypes, StageOf DEF PageWalked
<1>2. docs[p] \in Documents
  BY <1>1 DEF TypeInv, TabsInv
<1>3. docs[p].attrs \in [Element -> Nat] /\ docs[p].content \in Content
  BY <1>2 DEF Documents
<1>4. /\ Numbered(found.printed, start)
      /\ found.attrs \in [Element -> Nat] /\ found.ref \in Nat
      /\ found.ref = start + Len(found.printed)
  <2> HIDE DEF start, p
  <2> QED
    BY <1>1, <1>3, WalkPrints
<1>5. refMap \in Maps
  BY DEF TypeInv, RefsInv
<1> HIDE DEF found, start, p
<1>6. Range(found.printed) \in SUBSET Entry /\ Known(refMap, found.printed) \in Maps
  BY <1>1, <1>4, <1>5, KnownType
<1> QED
  BY <1>1, <1>2, <1>4, <1>6 DEF found, start, p

LEMMA PageWalkedTypes ==
    ASSUME TypeInv, NEW c \in ToolCall, PageWalked(c)
    PROVE  TypeInv'
<1> DEFINE p == calls[c].page
           found == extractPage(calls[c].start, docs[p].attrs, docs[p].content)
           text == Range(found.printed)
           doc == [docs[p] EXCEPT !.attrs = found.attrs]
<1>1. /\ p \in Page /\ p \in DOMAIN docs /\ docs[p] \in Documents
      /\ found.attrs \in [Element -> Nat] /\ found.ref \in Nat
      /\ text \in SUBSET Entry /\ Known(refMap, found.printed) \in Maps
  BY WalkFinds
<1>2. /\ docs' = [docs EXCEPT ![p] = doc]
      /\ refMap' = IF c \in holders THEN Known(refMap, found.printed) ELSE refMap
      /\ refCounter' = found.ref
      /\ holders' = holders \ {c}
      /\ \/ Waits(c, [at |-> "tree", page |-> p, texts |-> {text}]) /\ UNCHANGED answer
         \/ Answers(c, text)
      /\ UNCHANGED <<lifecycle, alive, pages, activePage, tabCounter, alone>>
  BY DEF PageWalked, lifecycle
<1>3. [at |-> "tree", page |-> p, texts |-> {text}] \in Waiting
  <2> HIDE DEF text, p, Entry
  <2> QED
    BY <1>1 DEF Waiting
<1> HIDE DEF found, text
<1>4. doc \in Documents /\ doc.browser = docs[p].browser /\ doc.tab = docs[p].tab
  <2> HIDE DEF p
  <2> QED
    BY <1>1 DEF Documents
<1>5. TabsInv'
  <2> HIDE DEF p, doc
  <2> QED
    BY <1>1, <1>2, <1>4, DocumentTypes DEF TypeInv
<1>6. /\ CallsInv'
      /\ answer' \in [refs : SUBSET Entry, page : Page \cup {None}, alone : BOOLEAN]
  <2>1. CASE Waits(c, [at |-> "tree", page |-> p, texts |-> {text}]) /\ UNCHANGED answer
    BY <1>3, <2>1, WaitsTypes DEF TypeInv, RefsInv
  <2>2. CASE Answers(c, text)
    BY <1>1, <2>2, AnswersTypes
  <2> QED
    BY <1>2, <2>1, <2>2
<1>7. RefsInv'
  BY <1>1, <1>2, <1>6 DEF TypeInv, RefsInv
<1> QED
  BY <1>2, <1>5, <1>6, <1>7, Unchanged DEF TypeInv

LEMMA WalkFailedTypes ==
    ASSUME TypeInv, NEW c \in ToolCall, WalkFailed(c)
    PROVE  TypeInv'
<1> DEFINE p == calls[c].page
<1>1. p \in Page
  BY StageTypes, StageOf DEF WalkFailed
<1>2. [at |-> "tree", page |-> p, texts |-> {}] \in Waiting
  <2> HIDE DEF p, Entry
  <2> QED
    BY <1>1 DEF Waiting
<1>3. CallsInv'
  BY <1>2, WaitsTypes DEF WalkFailed, TypeInv
<1>4. RefsInv'
  BY DEF WalkFailed, TypeInv, RefsInv
<1> QED
  BY <1>3, <1>4, Unchanged DEF WalkFailed, TypeInv, lifecycle

\* What one read of the accessibility tree registers.
LEMMA TreeRegisters ==
    ASSUME TypeInv, NEW p \in DOMAIN docs, NEW nodes,
           nodes = docs[p].content.nodes \/ nodes = docs[p].content.allNodes
    PROVE  LET entries == flattenA11yTree(refCounter, nodes)
           IN  /\ Numbered(entries, refCounter) /\ Len(entries) \in Nat
               /\ Range(entries) \in SUBSET Entry /\ Known(refMap, entries) \in Maps
<1> DEFINE entries == flattenA11yTree(refCounter, nodes)
<1>1. docs[p].content \in Content
  BY DEF TypeInv, TabsInv, Documents
<1>2. nodes \in Seq(Element) /\ refCounter \in Nat /\ refMap \in Maps
  BY <1>1, ContentType DEF TypeInv, RefsInv
<1>3. Numbered(entries, refCounter)
  BY <1>2, TreePrints
<1> HIDE DEF entries
<1> QED
  BY <1>2, <1>3, KnownType DEF entries

LEMMA TreeReadTypes ==
    ASSUME TypeInv, NEW c \in ToolCall, TreeRead(c)
    PROVE  TypeInv'
<1> DEFINE p == calls[c].page
           texts == calls[c].texts
           entries == flattenA11yTree(refCounter, docs[p].content.nodes)
           tree == Range(entries)
<1>1. p \in Page /\ texts \in SUBSET SUBSET Entry /\ p \in DOMAIN docs
  BY StageTypes, StageOf DEF TreeRead
<1>2. /\ tree \in SUBSET Entry /\ Known(refMap, entries) \in Maps /\ Len(entries) \in Nat
  BY <1>1, TreeRegisters
<1>3. /\ refMap' = Known(refMap, entries) /\ refCounter' = refCounter + Len(entries)
      /\ \/ \E text \in texts \cup {tree} : Answers(c, text)
         \/ /\ Waits(c, [at |-> "fullTree", page |-> p, texts |-> texts, tree |-> tree])
            /\ UNCHANGED answer
      /\ UNCHANGED <<lifecycle, tabs, holders, alone>>
  BY DEF TreeRead, Registers
<1> HIDE DEF entries, tree, texts
<1>4. /\ CallsInv'
      /\ answer' \in [refs : SUBSET Entry, page : Page \cup {None}, alone : BOOLEAN]
  <2>1. CASE \E text \in texts \cup {tree} : Answers(c, text)
    <3>1. PICK text \in texts \cup {tree} : Answers(c, text)
      BY <2>1
    <3>2. text \in SUBSET Entry
      BY <1>1, <1>2
    <3> QED
      BY <1>1, <3>1, <3>2, AnswersTypes
  <2>2. CASE /\ Waits(c, [at |-> "fullTree", page |-> p, texts |-> texts, tree |-> tree])
             /\ UNCHANGED answer
    <3>1. [at |-> "fullTree", page |-> p, texts |-> texts, tree |-> tree] \in Waiting
      <4> HIDE DEF p, Entry
      <4> QED
        BY <1>1, <1>2 DEF Waiting
    <3> QED
      BY <2>2, <3>1, WaitsTypes DEF TypeInv, RefsInv
  <2> QED
    BY <1>3, <2>1, <2>2
<1>5. RefsInv'
  BY <1>2, <1>3, <1>4 DEF TypeInv, RefsInv
<1> QED
  BY <1>3, <1>4, <1>5, Unchanged DEF TypeInv, lifecycle

LEMMA FullTreeReadTypes ==
    ASSUME TypeInv, NEW c \in ToolCall, FullTreeRead(c)
    PROVE  TypeInv'
<1> DEFINE p == calls[c].page
           texts == calls[c].texts
           entries == flattenA11yTree(refCounter, docs[p].content.allNodes)
<1>1. /\ p \in Page /\ texts \in SUBSET SUBSET Entry /\ p \in DOMAIN docs
      /\ calls[c].tree \in SUBSET Entry
  BY StageTypes, StageOf DEF FullTreeRead
<1>2. /\ Range(entries) \in SUBSET Entry /\ Known(refMap, entries) \in Maps
      /\ Len(entries) \in Nat
  BY <1>1, TreeRegisters
<1>3. /\ refMap' = Known(refMap, entries) /\ refCounter' = refCounter + Len(entries)
      /\ \E text \in texts \cup {calls[c].tree, Range(entries)} : Answers(c, text)
      /\ UNCHANGED <<lifecycle, tabs, holders, alone>>
  BY DEF FullTreeRead, Registers
<1> HIDE DEF entries, texts
<1>4. /\ CallsInv'
      /\ answer' \in [refs : SUBSET Entry, page : Page \cup {None}, alone : BOOLEAN]
  <2>1. PICK text \in texts \cup {calls[c].tree, Range(entries)} : Answers(c, text)
    BY <1>3
  <2>2. text \in SUBSET Entry
    BY <1>1, <1>2
  <2> QED
    BY <1>1, <2>1, <2>2, AnswersTypes
<1>5. RefsInv'
  BY <1>2, <1>3, <1>4 DEF TypeInv, RefsInv
<1> QED
  BY <1>3, <1>4, <1>5, Unchanged DEF TypeInv, lifecycle

LEMMA TreeFailedTypes ==
    ASSUME TypeInv, NEW c \in ToolCall, TreeFailed(c)
    PROVE  TypeInv'
<1>1. calls[c].page \in Page /\ calls[c].texts \in SUBSET SUBSET Entry
  BY StageTypes, StageOf DEF TreeFailed
<1>2. PICK text \in calls[c].texts \cup {{}} : Answers(c, text)
  BY DEF TreeFailed
<1>3. text \in SUBSET Entry
  BY <1>1
<1>4. /\ CallsInv'
      /\ answer' \in [refs : SUBSET Entry, page : Page \cup {None}, alone : BOOLEAN]
  BY <1>1, <1>2, <1>3, AnswersTypes
<1>5. RefsInv'
  BY <1>4 DEF TreeFailed, TypeInv, RefsInv
<1> QED
  BY <1>4, <1>5, Unchanged DEF TreeFailed, TypeInv, lifecycle

LEMMA ContinueTypes ==
    ASSUME TypeInv, NEW c \in ToolCall, Continue(c)
    PROVE  TypeInv'
<1>1. CASE Launched(c) \/ ContextMade(c) \/ ScriptsAdded(c)
  BY <1>1, LaunchedTypes, ContextMadeTypes, AsksForPageTypes, OnlyWaits DEF ScriptsAdded
<1>2. CASE \E content \in Content : PageOpened(c, content) \/ Loaded(c, content)
  BY <1>2, PageOpenedTypes, LoadedTypes
<1>3. CASE TabClosed(c) \/ CookiesSaved(c) \/ BrowserClosed(c)
  BY <1>3, TabClosedTypes, CookiesSavedTypes, BrowserClosedTypes
<1>4. CASE StartSnapshot(c) \/ PageReady(c) \/ PageWalked(c) \/ WalkFailed(c)
  BY <1>4, StartSnapshotTypes, PageReadyTypes, PageWalkedTypes, WalkFailedTypes
<1>5. CASE TreeRead(c) \/ FullTreeRead(c) \/ TreeFailed(c)
  BY <1>5, TreeReadTypes, FullTreeReadTypes, TreeFailedTypes
<1>6. CASE Fails(c)
  BY <1>6, EndsTypes, OnlyWaits DEF Fails, TypeInv
<1> QED
  BY <1>1, <1>2, <1>3, <1>4, <1>5, <1>6 DEF Continue

\* What happens to the browsers, their pages and the process.
LEMMA CrashTypes ==
    ASSUME TypeInv, NEW b \in alive, Crash(b)
    PROVE  TypeInv'
<1>1. PagesOf(b) \in SUBSET DOMAIN docs /\ alive' = alive \ {b}
  BY DEF PagesOf, Crash
<1>2. \A p \in DOMAIN docs \ PagesOf(b) : docs[p].browser \in alive'
  BY <1>1 DEF PagesOf, TypeInv, TabsInv
<1>3. TabsInv'
  BY <1>1, <1>2, ClosedTypes DEF Crash, TypeInv
<1>4. LifecycleInv'
  BY <1>1 DEF Crash, TypeInv, LifecycleInv
<1> QED
  BY <1>3, <1>4, Unchanged DEF Crash, TypeInv

LEMMA PageClosesTypes ==
    ASSUME TypeInv, NEW p \in DOMAIN docs, PageCloses(p)
    PROVE  TypeInv'
<1>1. {p} \in SUBSET DOMAIN docs /\ \A q \in DOMAIN docs \ {p} : docs[q].browser \in alive'
  BY DEF PageCloses, lifecycle, TypeInv, TabsInv
<1>2. TabsInv'
  BY <1>1, ClosedTypes DEF PageCloses, TypeInv
<1> QED
  BY <1>2, Unchanged DEF PageCloses, TypeInv

LEMMA PageChangesTypes ==
    ASSUME TypeInv, NEW p \in DOMAIN docs, NEW content \in Content, PageChanges(p, content)
    PROVE  TypeInv'
<1>1. docs[p] \in Documents
  BY DEF TypeInv, TabsInv
<1>2. PICK attrs \in {docs[p].attrs, NoAttrs} :
          docs' = [docs EXCEPT ![p].content = content, ![p].attrs = attrs]
  BY DEF PageChanges
<1>3. attrs \in [Element -> Nat]
  BY <1>1, <1>2 DEF Documents, NoAttrs
<1> DEFINE doc == [docs[p] EXCEPT !.content = content, !.attrs = attrs]
<1>4. doc \in Documents /\ doc.browser = docs[p].browser /\ doc.tab = docs[p].tab
  BY <1>1, <1>3 DEF Documents
<1>5. docs' = [docs EXCEPT ![p] = doc]
  BY <1>2
<1>6. UNCHANGED <<lifecycle, alive, pages, tabCounter, refs, calls>> /\ activePage' = activePage
  BY DEF PageChanges, lifecycle
<1> HIDE DEF doc
<1>7. TabsInv'
  BY <1>4, <1>5, <1>6, DocumentTypes DEF TypeInv
<1> QED
  BY <1>6, <1>7, Unchanged DEF TypeInv

LEMMA RestartTypes ==
    ASSUME TypeInv, Restart
    PROVE  TypeInv'
<1>1. Idle \in Waiting
  BY DEF Waiting
<1>2. CallsInv'
  BY <1>1 DEF Restart, CallsInv
<1>3. DOMAIN docs' = {}
  BY DEF Restart
<1> QED
  BY <1>2, <1>3, ForgetTypes DEF Restart

LEMMA TypeInvInductive ==
    ASSUME TypeInv, [BrowserNext]_browserVars
    PROVE  TypeInv'
<1>1. CASE \E c \in ToolCall : Begin(c) \/ Continue(c)
  BY <1>1, BeginTypes, ContinueTypes
<1>2. CASE \E b \in alive : Crash(b)
  BY <1>2, CrashTypes
<1>3. CASE \E p \in DOMAIN docs :
              PageCloses(p) \/ \E content \in Content : PageChanges(p, content)
  BY <1>3, PageClosesTypes, PageChangesTypes
<1>4. CASE Restart
  BY <1>4, RestartTypes
<1>5. CASE UNCHANGED browserVars
  BY <1>5, Unchanged DEF browserVars, lifecycle, tabs, refs, TypeInv
<1> QED
  BY <1>1, <1>2, <1>3, <1>4, <1>5 DEF BrowserNext

\* Every variable of the browser extension keeps its type through calls that overlap
\* at any of their awaits, in particular: an open page belongs to a browser that runs,
\* the map of tabs and the active page name open pages only, a call holds what its
\* stage needs, and every ref in the map points at an element (client.mjs,
\* utils/snapshot.mjs).
THEOREM BrowserTypeCorrect == BrowserSpec => []BrowserTypeOK
<1>1. TypeInv => BrowserTypeOK
  BY TypeInvIsTypeOK
<1>2. QED
  BY <1>1, TypeInvInit, TypeInvInductive, PTL DEF BrowserSpec

-----------------------------------------------------------------------------
(* The browsers.                                                           *)

\* What a step may lose: a browser launched in a race, or one that would not close.
Excused == raced \cup unclosed

\* While a launch or a close is awaited, the variable is about to be overwritten.
LostInv ==
    /\ alive \ {browser} \subseteq Excused
    /\ \A c \in ToolCall :
           \/ /\ calls[c].at = "launch"
              /\ browser \in alive => browser \in Excused
           \/ /\ calls[c].at = "close"
              /\ browser \in alive => browser = calls[c].browser \/ browser \in Excused
           \/ calls[c].at \notin {"launch", "close"}

LEMMA LostInvInit ==
    ASSUME BrowserInit
    PROVE  LostInv
BY DEF BrowserInit, LostInv, Idle

\* A step that leaves the browsers alone, and takes one call to a stage of which it
\* holds what the invariant asks.
LEMMA StaysFound ==
    ASSUME TypeInv, LostInv, UNCHANGED <<browser, raced, unclosed>>, alive' \subseteq alive,
           NEW c \in ToolCall, NEW stage, Waits(c, stage),
           stage.at = "launch" => browser \notin alive,
           stage.at = "close" => stage.browser = browser
    PROVE  LostInv'
<1>1. /\ calls'[c] = stage
      /\ \A d \in ToolCall \ {c} : calls'[d] = calls[d]
  BY DEF Waits, TypeInv, CallsInv
<1>2. Excused' = Excused
  BY DEF Excused
<1> QED
  BY <1>1, <1>2 DEF LostInv

\* A step that moves no call.
LEMMA StaysFoundStill ==
    ASSUME LostInv, UNCHANGED <<browser, raced, unclosed, calls>>, alive' \subseteq alive
    PROVE  LostInv'
<1>1. Excused' = Excused
  BY DEF Excused
<1> QED
  BY <1>1 DEF LostInv

LEMMA AsksForPageStaysFound ==
    ASSUME TypeInv, LostInv, UNCHANGED lifecycle, NEW c \in ToolCall, AsksForPage(c)
    PROVE  LostInv'
BY StaysFound DEF AsksForPage, Ends, Idle, lifecycle

LEMMA EndsStaysFound ==
    ASSUME TypeInv, LostInv, UNCHANGED <<browser, raced, unclosed>>, alive' \subseteq alive,
           NEW c \in ToolCall, Ends(c)
    PROVE  LostInv'
BY StaysFound DEF Ends, Idle

\* ensureBrowser asks for a launch only when the browser it knows does not run.
LEMMA EnsureBrowserStaysFound ==
    ASSUME TypeInv, LostInv, NEW c \in ToolCall, EnsureBrowser(c)
    PROVE  LostInv'
<1>1. CASE isConnected
  BY <1>1, AsksForPageStaysFound DEF EnsureBrowser
<1>2. CASE ~isConnected
  <2>1. browser \notin alive
    BY <1>2, BrowserAssumption DEF isConnected, TypeInv, LifecycleInv
  <2> QED
    BY <1>2, <2>1, StaysFound DEF EnsureBrowser, lifecycle
<1> QED
  BY <1>1, <1>2

LEMMA BeginStaysFound ==
    ASSUME TypeInv, LostInv, NEW c \in ToolCall, Begin(c)
    PROVE  LostInv'
<1>1. CASE Open(c) \/ Navigate(c)
  BY <1>1, EnsureBrowserStaysFound, StaysFound DEF Open, Navigate, lifecycle
<1>2. CASE \/ Act(c) \/ CloseTab(c) \/ \E ref \in DOMAIN refMap : Click(c, ref)
           \/ \E tab \in DOMAIN pages : Switch(c, tab)
  BY <1>2, StaysFound DEF Act, CloseTab, Click, Switch, lifecycle
<1>3. CASE Quit(c)
  BY <1>3, StaysFound DEF Quit, lifecycle
<1>4. CASE ListTabs \/ \E content \in Content : Evaluate(content)
  BY <1>4, StaysFoundStill DEF ListTabs, Evaluate, lifecycle
<1> QED
  BY <1>1, <1>2, <1>3, <1>4 DEF Begin

\* The browser that the new one takes the place of did not run when its launch was
\* asked for, and has come since only in a race.
LEMMA LaunchedStaysFound ==
    ASSUME TypeInv, LostInv, NEW c \in ToolCall, Launched(c)
    PROVE  LostInv'
<1>1. PICK b \in Fresh :
          /\ browser' = b /\ alive' = alive \cup {b}
          /\ raced' = IF Rivals(c) = {} THEN raced \ {b} ELSE raced \cup {b}
          /\ unclosed' = unclosed \ {b}
          /\ Waits(c, [at |-> "newContext", browser |-> b])
  BY DEF Launched
<1>2. b \notin alive /\ b # browser
  BY DEF Fresh
<1>3. alive \subseteq Excused
  BY DEF Launched, LostInv
<1>4. alive' \ {browser'} \subseteq Excused'
  BY <1>1, <1>2, <1>3 DEF Excused
<1>5. /\ calls'[c].at = "newContext"
      /\ \A d \in ToolCall \ {c} : calls'[d] = calls[d]
  BY <1>1 DEF Waits, TypeInv, CallsInv
<1>6. \A d \in ToolCall \ {c} : calls[d].at \in {"launch", "close"} => browser' \in Excused'
  BY <1>1 DEF Rivals, Excused
<1> QED
  BY <1>4, <1>5, <1>6 DEF LostInv

\* What the variable holds when close has settled is the browser that was closed, or
\* has come in a race.
LEMMA BrowserClosedStaysFound ==
    ASSUME TypeInv, LostInv, NEW c \in ToolCall, BrowserClosed(c)
    PROVE  LostInv'
<1> DEFINE b == calls[c].browser
<1>1. /\ \/ alive' = alive \ {b} /\ UNCHANGED unclosed
         \/ unclosed' = unclosed \cup {b} /\ UNCHANGED alive
      /\ browser' = None /\ Ends(c) /\ UNCHANGED raced
  BY DEF BrowserClosed, Forget
<1>2. alive \subseteq Excused \cup {b}
  BY DEF BrowserClosed, LostInv
<1> HIDE DEF b
<1>3. alive' \subseteq Excused'
  BY <1>1, <1>2 DEF Excused
<1>4. browser' \notin alive'
  BY <1>1, BrowserAssumption DEF TypeInv, LifecycleInv
<1> QED
  BY <1>3, <1>4 DEF LostInv

LEMMA ContinueStaysFound ==
    ASSUME TypeInv, LostInv, NEW c \in ToolCall, Continue(c)
    PROVE  LostInv'
<1>1. CASE Launched(c) \/ BrowserClosed(c)
  BY <1>1, LaunchedStaysFound, BrowserClosedStaysFound
<1>2. CASE ContextMade(c) \/ ScriptsAdded(c)
  BY <1>2, StaysFound, AsksForPageStaysFound DEF ContextMade, ScriptsAdded
<1>3. CASE \E content \in Content : PageOpened(c, content) \/ Loaded(c, content)
  BY <1>3, StaysFound DEF PageOpened, Loaded, lifecycle
<1>4. CASE CookiesSaved(c)
  BY <1>4, StaysFound, EndsStaysFound DEF CookiesSaved, lifecycle
<1>5. CASE StartSnapshot(c) \/ PageReady(c) \/ WalkFailed(c)
  BY <1>5, StaysFound DEF StartSnapshot, PageReady, WalkFailed, lifecycle
<1>6. CASE PageWalked(c)
  BY <1>6, StaysFound, EndsStaysFound DEF PageWalked, Answers, lifecycle
<1>7. CASE TreeRead(c) \/ FullTreeRead(c) \/ TreeFailed(c)
  BY <1>7, StaysFound, EndsStaysFound
     DEF TreeRead, FullTreeRead, TreeFailed, Answers, lifecycle
<1>8. CASE TabClosed(c) \/ Fails(c)
  BY <1>8, EndsStaysFound DEF TabClosed, Fails, lifecycle
<1> QED
  BY <1>1, <1>2, <1>3, <1>4, <1>5, <1>6, <1>7, <1>8 DEF Continue

LEMMA LostInvInductive ==
    ASSUME TypeInv, LostInv, [BrowserNext]_browserVars
    PROVE  LostInv'
<1>1. CASE \E c \in ToolCall : Begin(c) \/ Continue(c)
  BY <1>1, BeginStaysFound, ContinueStaysFound
<1>2. CASE \E b \in alive : Crash(b)
  BY <1>2, StaysFoundStill DEF Crash
<1>3. CASE \E p \in DOMAIN docs :
              PageCloses(p) \/ \E content \in Content : PageChanges(p, content)
  BY <1>3, StaysFoundStill DEF PageCloses, PageChanges, lifecycle
<1>4. CASE Restart
  BY <1>4 DEF Restart, LostInv, Idle
<1>5. CASE UNCHANGED browserVars
  BY <1>5, StaysFoundStill DEF browserVars
<1> QED
  BY <1>1, <1>2, <1>3, <1>4, <1>5 DEF BrowserNext

\* With any number of calls overlapping at their awaits, and after any sequence of
\* launches that fail half-way, crashes, quits and restarts of the process, every
\* browser that runs and is not the one browser-quit would close was launched while
\* another call awaited a launch or a close, or would not close (client.mjs
\* ensureBrowser and closeBrowser).
THEOREM NoBrowserIsLost == BrowserSpec => []NoLostBrowser
<1>1. LostInv => NoLostBrowser
  BY DEF LostInv, Excused, NoLostBrowser
<1>2. QED
  BY <1>1, TypeInvInit, TypeInvInductive, LostInvInit, LostInvInductive, PTL DEF BrowserSpec

-----------------------------------------------------------------------------
(* The refs of a snapshot that nothing disturbs.                           *)

\* What such a snapshot relies on at its stages: that it is the only one, that it walks
\* with the map and the counter of the moment, and that what it has read is known.
Undisturbed(c) ==
    /\ \A d \in ToolCall \ {c} : ~InSnapshot(d)
    /\ Bounded(refMap, refCounter)
    /\ calls[c].at = "walk" => c \in holders /\ calls[c].start = refCounter
    /\ calls[c].at \in {"tree", "fullTree"} => \A text \in calls[c].texts : KnownIn(refMap, text)
    /\ calls[c].at = "fullTree" => KnownIn(refMap, calls[c].tree)

\* The answer of one is known until the next snapshot begins.
AloneInv ==
    /\ \A c \in alone : InSnapshot(c) => Undisturbed(c)
    /\ answer.alone => KnownIn(refMap, answer.refs) /\ \A d \in ToolCall : ~InSnapshot(d)

LEMMA AloneInvInit ==
    ASSUME BrowserInit
    PROVE  AloneInv
BY DEF BrowserInit, AloneInv, NoAnswer

\* Nobody's snapshot is disturbed by a call outside of any.
LEMMA OthersDoNotDisturb ==
    ASSUME TypeInv, AloneInv, UNCHANGED <<refMap, refCounter, alone, answer, holders>>,
           \A c \in ToolCall : calls'[c] = calls[c] \/ (~InSnapshot(c))'
    PROVE  AloneInv'
<1>1. \A c \in ToolCall : InSnapshot(c)' => InSnapshot(c) /\ calls'[c] = calls[c]
  BY DEF InSnapshot
<1>2. alone \subseteq ToolCall
  BY DEF TypeInv, RefsInv
<1> QED
  BY <1>1, <1>2 DEF AloneInv, Undisturbed, Bounded, KnownIn

LEMMA WaitsOutside ==
    ASSUME TypeInv, AloneInv, UNCHANGED refs, NEW c \in ToolCall, NEW stage,
           stage.at \notin {"ready", "walk", "tree", "fullTree"}, Waits(c, stage)
    PROVE  AloneInv'
<1>1. \A d \in ToolCall : calls'[d] = calls[d] \/ (~InSnapshot(d))'
  BY DEF Waits, InSnapshot, TypeInv, CallsInv
<1> QED
  BY <1>1, OthersDoNotDisturb DEF refs

LEMMA NoCallMoves ==
    ASSUME TypeInv, AloneInv, UNCHANGED <<refs, calls>>
    PROVE  AloneInv'
BY OthersDoNotDisturb DEF refs

LEMMA EndsOutside ==
    ASSUME TypeInv, AloneInv, UNCHANGED refs, NEW c \in ToolCall, Ends(c)
    PROVE  AloneInv'
BY WaitsOutside DEF Ends, Idle

LEMMA BeginDoesNotDisturb ==
    ASSUME TypeInv, AloneInv, NEW c \in ToolCall, Begin(c)
    PROVE  AloneInv'
<1>1. CASE Open(c) \/ (Navigate(c) /\ EnsureBrowser(c))
  BY <1>1, WaitsOutside, EndsOutside DEF Open, EnsureBrowser, AsksForPage
<1>2. CASE Navigate(c) /\ ~EnsureBrowser(c)
  BY <1>2, WaitsOutside DEF Navigate
<1>3. CASE \/ Act(c) \/ CloseTab(c) \/ \E ref \in DOMAIN refMap : Click(c, ref)
           \/ \E tab \in DOMAIN pages : Switch(c, tab)
  BY <1>3, WaitsOutside DEF Act, CloseTab, Click, Switch
<1>4. CASE Quit(c)
  BY <1>4, WaitsOutside DEF Quit
<1>5. CASE ListTabs \/ \E content \in Content : Evaluate(content)
  BY <1>5, NoCallMoves DEF ListTabs, Evaluate
<1> QED
  BY <1>1, <1>2, <1>3, <1>4, <1>5 DEF Begin

\* The first in the snapshots is the only one that counts as undisturbed.
LEMMA StartSnapshotIsAlone ==
    ASSUME TypeInv, AloneInv, NEW c \in ToolCall, StartSnapshot(c)
    PROVE  AloneInv'
<1>1. /\ alone' = (IF \E d \in ToolCall \ {c} : InSnapshot(d) THEN {} ELSE {c})
      /\ refMap' = <<>> /\ refCounter' = 0 /\ ~answer'.alone
  BY DEF StartSnapshot, NoAnswer
<1>2. /\ calls'[c].at = "ready"
      /\ \A d \in ToolCall \ {c} : calls'[d] = calls[d]
  BY DEF StartSnapshot, Waits, TypeInv, CallsInv
<1>3. Bounded(refMap', refCounter')
  BY <1>1, NoRefs
<1> QED
  BY <1>1, <1>2, <1>3 DEF AloneInv, Undisturbed, InSnapshot, Bounded

\* A step of a snapshot: it is disturbed already, or leaves what it relies on.
LEMMA SnapshotGoesOn ==
    ASSUME TypeInv, AloneInv, NEW c \in ToolCall, InSnapshot(c), UNCHANGED <<alone, answer>>,
           holders \ {c} \subseteq holders',
           \A d \in ToolCall \ {c} : calls'[d] = calls[d],
           c \in alone => /\ Bounded(refMap', refCounter')
                          /\ calls'[c].at = "walk" => c \in holders' /\ calls'[c].start = refCounter'
                          /\ calls'[c].at \in {"tree", "fullTree"} =>
                                 \A text \in calls'[c].texts : KnownIn(refMap', text)
                          /\ calls'[c].at = "fullTree" => KnownIn(refMap', calls'[c].tree)
    PROVE  AloneInv'
<1>1. ~answer.alone
  BY DEF AloneInv
<1>2. \A d \in ToolCall \ {c} : InSnapshot(d)' <=> InSnapshot(d)
  BY DEF InSnapshot
<1>3. alone \subseteq ToolCall
  BY DEF TypeInv, RefsInv
<1>4. ASSUME NEW d \in alone, d # c, InSnapshot(d)
      PROVE  FALSE
  BY <1>3, <1>4 DEF AloneInv, Undisturbed
<1>5. CASE c \in alone
  <2>1. Undisturbed(c)
    BY <1>5 DEF AloneInv
  <2>2. Undisturbed(c)'
    BY <1>2, <1>5, <2>1 DEF Undisturbed, Bounded, KnownIn
  <2> QED
    BY <1>1, <1>2, <1>3, <1>4, <2>2 DEF AloneInv
<1>6. CASE c \notin alone
  BY <1>1, <1>2, <1>3, <1>4, <1>6 DEF AloneInv
<1> QED
  BY <1>5, <1>6

\* The end of a snapshot: if nothing disturbed it, its text is known.
LEMMA SnapshotEnds ==
    ASSUME TypeInv, AloneInv, NEW c \in ToolCall, InSnapshot(c), UNCHANGED alone,
           NEW text, Answers(c, text), c \in alone => KnownIn(refMap', text)
    PROVE  AloneInv'
<1>1. /\ answer'.alone = (c \in alone) /\ answer'.refs = text
      /\ calls'[c] = Idle /\ \A d \in ToolCall \ {c} : calls'[d] = calls[d]
  BY DEF Answers, Ends, Waits, TypeInv, CallsInv
<1>2. \A d \in ToolCall : InSnapshot(d)' <=> InSnapshot(d) /\ d # c
  BY <1>1 DEF InSnapshot, Idle
<1>3. alone \subseteq ToolCall
  BY DEF TypeInv, RefsInv
<1>4. ASSUME NEW d \in alone, d # c, InSnapshot(d)
      PROVE  FALSE
  BY <1>3, <1>4 DEF AloneInv, Undisturbed
<1>5. c \in alone => \A d \in ToolCall : (~InSnapshot(d))'
  BY <1>2 DEF AloneInv, Undisturbed
<1>6. c \in alone => KnownIn(refMap', answer'.refs)
  BY <1>1
<1> QED
  BY <1>1, <1>2, <1>3, <1>4, <1>5, <1>6 DEF AloneInv, KnownIn

LEMMA PageReadyGoesOn ==
    ASSUME TypeInv, AloneInv, NEW c \in ToolCall, PageReady(c)
    PROVE  AloneInv'
<1>1. InSnapshot(c) /\ UNCHANGED <<alone, answer, refMap, refCounter>>
  BY DEF PageReady, InSnapshot
<1>2. c \in alone => Bounded(refMap, refCounter)
  BY <1>1 DEF AloneInv, Undisturbed
<1>3. /\ \A d \in ToolCall \ {c} : calls'[d] = calls[d]
      /\ holders \subseteq holders'
      /\ \/ calls'[c].at = "walk" /\ calls'[c].start = refCounter /\ c \in holders'
         \/ calls'[c].at = "tree" /\ calls'[c].texts = {}
  BY DEF PageReady, Waits, TypeInv, CallsInv
<1> QED
  BY <1>1, <1>2, <1>3, SnapshotGoesOn DEF Bounded

\* The walk registers with the map and the counter it took along.
LEMMA PageWalkedGoesOn ==
    ASSUME TypeInv, AloneInv, NEW c \in ToolCall, PageWalked(c)
    PROVE  AloneInv'
<1> DEFINE p == calls[c].page
           first == calls[c].start
           found == extractPage(first, docs[p].attrs, docs[p].content)
           text == Range(found.printed)
           map == Known(refMap, found.printed)
<1>1. /\ first \in Nat /\ Numbered(found.printed, first)
      /\ found.ref = first + Len(found.printed)
  BY WalkFinds
<1>2. /\ calls[c].at = "walk" /\ InSnapshot(c) /\ UNCHANGED alone
      /\ refMap' = (IF c \in holders THEN map ELSE refMap) /\ refCounter' = found.ref
      /\ holders' = holders \ {c}
      /\ \/ Waits(c, [at |-> "tree", page |-> p, texts |-> {text}]) /\ UNCHANGED answer
         \/ Answers(c, text)
  BY DEF PageWalked, InSnapshot
<1> HIDE DEF found, text, first, map
<1>3. c \in alone => /\ refMap' = map /\ KnownIn(map, text) /\ Bounded(map, refCounter')
  <2> SUFFICES ASSUME c \in alone
               PROVE  refMap' = map /\ KnownIn(map, text) /\ Bounded(map, refCounter')
    OBVIOUS
  <2>1. c \in holders /\ first = refCounter /\ Bounded(refMap, first) /\ refMap \in Maps
    BY <1>2 DEF AloneInv, Undisturbed, TypeInv, RefsInv, first
  <2>2. /\ KnownIn(Known(refMap, found.printed), Range(found.printed))
        /\ Bounded(Known(refMap, found.printed), first + Len(found.printed))
    BY <1>1, <2>1, EntriesAreKnown
  <2> QED
    BY <1>1, <1>2, <2>1, <2>2 DEF map, text
<1>4. CASE Waits(c, [at |-> "tree", page |-> p, texts |-> {text}]) /\ UNCHANGED answer
  <2>1. /\ \A d \in ToolCall \ {c} : calls'[d] = calls[d]
        /\ calls'[c].at = "tree" /\ calls'[c].texts = {text}
    BY <1>4 DEF Waits, TypeInv, CallsInv
  <2> QED
    BY <1>2, <1>3, <1>4, <2>1, SnapshotGoesOn
<1>5. CASE Answers(c, text)
  BY <1>2, <1>3, <1>5, SnapshotEnds
<1> QED
  BY <1>2, <1>4, <1>5

LEMMA WalkFailedGoesOn ==
    ASSUME TypeInv, AloneInv, NEW c \in ToolCall, WalkFailed(c)
    PROVE  AloneInv'
<1>1. InSnapshot(c) /\ UNCHANGED <<alone, answer, refMap, refCounter>>
  BY DEF WalkFailed, InSnapshot
<1>2. c \in alone => Bounded(refMap, refCounter)
  BY <1>1 DEF AloneInv, Undisturbed
<1>3. /\ \A d \in ToolCall \ {c} : calls'[d] = calls[d]
      /\ holders' = holders \ {c}
      /\ calls'[c].at = "tree" /\ calls'[c].texts = {}
  BY DEF WalkFailed, Waits, TypeInv, CallsInv
<1> QED
  BY <1>1, <1>2, <1>3, SnapshotGoesOn DEF Bounded

\* One read of the accessibility tree: what was known stays so.
LEMMA TreeIsKnown ==
    ASSUME TypeInv, AloneInv, NEW c \in alone, InSnapshot(c), NEW entries,
           Numbered(entries, refCounter), Registers(entries)
    PROVE  /\ KnownIn(refMap', Range(entries))
           /\ Keeps(refMap, refMap')
           /\ Bounded(refMap', refCounter')
<1>1. Bounded(refMap, refCounter) /\ refMap \in Maps /\ refCounter \in Nat
  BY DEF AloneInv, Undisturbed, TypeInv, RefsInv
<1>2. refMap' = Known(refMap, entries) /\ refCounter' = refCounter + Len(entries)
  BY DEF Registers
<1>3. /\ KnownIn(Known(refMap, entries), Range(entries))
      /\ Keeps(refMap, Known(refMap, entries))
      /\ Bounded(Known(refMap, entries), refCounter + Len(entries))
  BY <1>1, EntriesAreKnown
<1> QED
  BY <1>2, <1>3

LEMMA TreeReadGoesOn ==
    ASSUME TypeInv, AloneInv, NEW c \in ToolCall, TreeRead(c)
    PROVE  AloneInv'
<1> DEFINE p == calls[c].page
           texts == calls[c].texts
           entries == flattenA11yTree(refCounter, docs[p].content.nodes)
           tree == Range(entries)
<1>1. /\ p \in DOMAIN docs /\ calls[c].at = "tree" /\ InSnapshot(c)
      /\ Registers(entries) /\ UNCHANGED <<holders, alone>>
      /\ \/ \E text \in texts \cup {tree} : Answers(c, text)
         \/ /\ Waits(c, [at |-> "fullTree", page |-> p, texts |-> texts, tree |-> tree])
            /\ UNCHANGED answer
  BY DEF TreeRead, InSnapshot
<1>2. Numbered(entries, refCounter)
  BY <1>1, TreeRegisters
<1> HIDE DEF entries
<1>3. c \in alone => /\ KnownIn(refMap', tree) /\ Keeps(refMap, refMap')
                     /\ Bounded(refMap', refCounter')
  BY <1>1, <1>2, TreeIsKnown
<1>4. c \in alone => \A text \in texts : KnownIn(refMap, text)
  BY <1>1 DEF AloneInv, Undisturbed
<1> HIDE DEF tree, texts
<1>5. c \in alone => \A text \in texts : KnownIn(refMap', text)
  BY <1>3, <1>4, KeepsKnown
<1>6. CASE \E text \in texts \cup {tree} : Answers(c, text)
  BY <1>1, <1>3, <1>5, <1>6, SnapshotEnds
<1>7. CASE /\ Waits(c, [at |-> "fullTree", page |-> p, texts |-> texts, tree |-> tree])
           /\ UNCHANGED answer
  <2>1. /\ \A d \in ToolCall \ {c} : calls'[d] = calls[d]
        /\ calls'[c].at = "fullTree" /\ calls'[c].texts = texts /\ calls'[c].tree = tree
    BY <1>7 DEF Waits, TypeInv, CallsInv
  <2> QED
    BY <1>1, <1>3, <1>5, <1>7, <2>1, SnapshotGoesOn
<1> QED
  BY <1>1, <1>6, <1>7

LEMMA FullTreeReadEnds ==
    ASSUME TypeInv, AloneInv, NEW c \in ToolCall, FullTreeRead(c)
    PROVE  AloneInv'
<1> DEFINE p == calls[c].page
           texts == calls[c].texts
           tree == calls[c].tree
           entries == flattenA11yTree(refCounter, docs[p].content.allNodes)
<1>1. /\ p \in DOMAIN docs /\ calls[c].at = "fullTree" /\ InSnapshot(c)
      /\ Registers(entries) /\ UNCHANGED <<holders, alone>>
      /\ \E text \in texts \cup {tree, Range(entries)} : Answers(c, text)
  BY DEF FullTreeRead, InSnapshot
<1>2. Numbered(entries, refCounter)
  BY <1>1, TreeRegisters
<1> HIDE DEF entries
<1>3. c \in alone => KnownIn(refMap', Range(entries)) /\ Keeps(refMap, refMap')
  BY <1>1, <1>2, TreeIsKnown
<1>4. c \in alone => \A text \in texts \cup {tree} : KnownIn(refMap, text)
  BY <1>1 DEF AloneInv, Undisturbed
<1> HIDE DEF tree, texts
<1>5. c \in alone => \A text \in texts \cup {tree, Range(entries)} : KnownIn(refMap', text)
  BY <1>3, <1>4, KeepsKnown
<1> QED
  BY <1>1, <1>5, SnapshotEnds

LEMMA TreeFailedEnds ==
    ASSUME TypeInv, AloneInv, NEW c \in ToolCall, TreeFailed(c)
    PROVE  AloneInv'
<1>1. /\ calls[c].at \in {"tree", "fullTree"} /\ InSnapshot(c)
      /\ UNCHANGED <<refMap, alone>>
      /\ \E text \in calls[c].texts \cup {{}} : Answers(c, text)
  BY DEF TreeFailed, InSnapshot
<1>2. c \in alone => \A text \in calls[c].texts \cup {{}} : KnownIn(refMap, text)
  BY <1>1, NoRefs DEF AloneInv, Undisturbed
<1>3. c \in alone => \A text \in calls[c].texts \cup {{}} : KnownIn(refMap', text)
  BY <1>1, <1>2
<1> QED
  BY <1>1, <1>3, SnapshotEnds

\* closeBrowser leaves no answer to keep, and no snapshot undisturbed.
LEMMA ForgetEnds ==
    ASSUME Forget
    PROVE  AloneInv'
BY DEF Forget, AloneInv, NoAnswer

LEMMA ContinueDoesNotDisturb ==
    ASSUME TypeInv, AloneInv, NEW c \in ToolCall, Continue(c)
    PROVE  AloneInv'
<1>1. CASE Launched(c) \/ ContextMade(c)
  BY <1>1, WaitsOutside DEF Launched, ContextMade
<1>2. CASE ScriptsAdded(c)
  BY <1>2, WaitsOutside, EndsOutside DEF ScriptsAdded, AsksForPage
<1>3. CASE \E content \in Content : PageOpened(c, content) \/ Loaded(c, content)
  BY <1>3, WaitsOutside DEF PageOpened, Loaded
<1>4. CASE TabClosed(c) \/ Fails(c)
  BY <1>4, EndsOutside DEF TabClosed, Fails
<1>5. CASE CookiesSaved(c)
  BY <1>5, WaitsOutside, EndsOutside DEF CookiesSaved
<1>6. CASE BrowserClosed(c)
  BY <1>6, ForgetEnds DEF BrowserClosed
<1>7. CASE StartSnapshot(c) \/ PageReady(c) \/ PageWalked(c) \/ WalkFailed(c)
  BY <1>7, StartSnapshotIsAlone, PageReadyGoesOn, PageWalkedGoesOn, WalkFailedGoesOn
<1>8. CASE TreeRead(c) \/ FullTreeRead(c) \/ TreeFailed(c)
  BY <1>8, TreeReadGoesOn, FullTreeReadEnds, TreeFailedEnds
<1> QED
  BY <1>1, <1>2, <1>3, <1>4, <1>5, <1>6, <1>7, <1>8 DEF Continue

LEMMA AloneInvInductive ==
    ASSUME TypeInv, AloneInv, [BrowserNext]_browserVars
    PROVE  AloneInv'
<1>1. CASE \E c \in ToolCall : Begin(c) \/ Continue(c)
  BY <1>1, BeginDoesNotDisturb, ContinueDoesNotDisturb
<1>2. CASE \E b \in alive : Crash(b)
  BY <1>2, NoCallMoves DEF Crash
<1>3. CASE \E p \in DOMAIN docs :
              PageCloses(p) \/ \E content \in Content : PageChanges(p, content)
  BY <1>3, NoCallMoves DEF PageCloses, PageChanges
<1>4. CASE Restart
  BY <1>4, ForgetEnds DEF Restart
<1>5. CASE UNCHANGED browserVars
  BY <1>5, NoCallMoves DEF browserVars, refs
<1> QED
  BY <1>1, <1>2, <1>3, <1>4, <1>5 DEF BrowserNext

\* A ref that the agent has read in the last answer is known to resolveRef, as the
\* element it was printed beside, if no other call's snapshot overlapped this one and no
\* quit ended it: whatever is on the pages and however often, however the walk of the DOM
\* and the two reads of the accessibility tree failed or followed each other, and whatever
\* else the overlapping calls did meanwhile (snapshot.mjs getSnapshot, addRef,
\* setRefCounter).
THEOREM PrintedRefsStayKnown == BrowserSpec => []PrintedRefsAreKnown
<1>1. AloneInv => PrintedRefsAreKnown
  BY DEF AloneInv, KnownIn, PrintedRefsAreKnown, AreKnown
<1>2. QED
  BY <1>1, TypeInvInit, TypeInvInductive, AloneInvInit, AloneInvInductive, PTL DEF BrowserSpec

-----------------------------------------------------------------------------
(* The setup of an account.                                                *)

LEMMA GmailTypeInit ==
    ASSUME GmailInit
    PROVE  GmailTypeOK
<1>1. config \in [id : Client \cup {Null}, token : Client \cup {Null}, configured : BOOLEAN]
  BY DEF GmailInit
<1>2. checks \in [Call -> {NoCheck, [at |-> "stopping"]} \cup Exchanging]
  BY DEF GmailInit
<1>3. QED
  BY <1>1, <1>2 DEF GmailInit, GmailTypeOK

LEMMA NextProcessTypes ==
    ASSUME GmailTypeOK, NextProcess
    PROVE  GmailTypeOK'
BY DEF NextProcess, GmailTypeOK

LEMMA SetupStartTypes ==
    ASSUME GmailTypeOK, NEW id \in Client, SetupStart(id)
    PROVE  GmailTypeOK'
<1>1. PICK new \in Server \ (listening \cup {server}) :
          /\ config' = [config EXCEPT !.id = id]
          /\ authCode' = Null /\ authError' = FALSE /\ server' = new
          /\ listening' = {new} \/ listening' = listening \ {server}
          /\ offered' = offered \cup {id} \/ offered' = offered
          /\ UNCHANGED <<loaded, checks>>
  BY DEF SetupStart
<1>2. QED
  BY <1>1 DEF GmailTypeOK

LEMMA RedirectedTypes ==
    ASSUME GmailTypeOK, NEW id \in Client, Redirected(id)
    PROVE  GmailTypeOK'
BY DEF Redirected, GmailTypeOK

\* A call that waits for Google holds the configuration and the code it read.
LEMMA SetupCheckTypes ==
    ASSUME GmailTypeOK, NEW call \in Call, SetupCheck(call)
    PROVE  GmailTypeOK'
<1>1. CASE authError \/ config.id = Null
  BY <1>1 DEF SetupCheck, StopServer, GmailTypeOK
<1>2. CASE ~authError /\ config.id # Null
  <2>1. authCode \in Client
    BY <1>2 DEF SetupCheck, GmailTypeOK
  <2>2. [at |-> "exchanging", config |-> config, code |-> authCode] \in Exchanging
    BY <1>2, <2>1 DEF GmailTypeOK, Exchanging
  <2>3. /\ checks' = [checks EXCEPT ![call] =
                         [at |-> "exchanging", config |-> config, code |-> authCode]]
        /\ UNCHANGED <<config, loaded, server, listening, authCode, authError, offered>>
    BY <1>2 DEF SetupCheck, auth
  <2>4. checks' \in [Call -> {NoCheck, [at |-> "stopping"]} \cup Exchanging]
    BY <2>2, <2>3 DEF GmailTypeOK
  <2>5. QED
    BY <2>3, <2>4 DEF GmailTypeOK
<1>3. QED
  BY <1>1, <1>2 DEF GmailTypeOK

\* Only such a call is in the exchange.
LEMMA ExchangingCheck ==
    ASSUME GmailTypeOK, NEW call \in Call, checks[call].at = "exchanging"
    PROVE  /\ checks[call].config \in [id : Client, token : Client \cup {Null},
                                       configured : BOOLEAN]
           /\ checks[call].code \in Client
<1>1. checks[call] \in {NoCheck, [at |-> "stopping"]} \cup Exchanging
  BY DEF GmailTypeOK
<1>2. checks[call] \in Exchanging
  BY <1>1 DEF NoCheck
<1>3. QED
  BY <1>2 DEF Exchanging

LEMMA ExchangedTypes ==
    ASSUME GmailTypeOK, NEW call \in Call, Exchanged(call)
    PROVE  GmailTypeOK'
<1>1. checks[call].at = "exchanging"
  BY DEF Exchanged
<1>2. Saved(checks[call]) \in [id : Client, token : Client, configured : BOOLEAN]
  BY <1>1, ExchangingCheck DEF Saved
<1>3. config' \in [id : Client \cup {Null}, token : Client \cup {Null},
                   configured : BOOLEAN]
  <2>1. config' = Saved(checks[call]) \/ config' = config
    BY DEF Exchanged
  <2>2. QED
    BY <2>1, <1>2 DEF GmailTypeOK
<1>4. QED
  BY <1>3 DEF Exchanged, StopServer, GmailTypeOK

LEMMA StoppedTypes ==
    ASSUME GmailTypeOK, NEW call \in Call, Stopped(call)
    PROVE  GmailTypeOK'
BY DEF Stopped, GmailTypeOK

LEMMA GmailTypeInductive ==
    ASSUME GmailTypeOK, [GmailNext]_gmailVars
    PROVE  GmailTypeOK'
<1>1. CASE GmailNext
  BY <1>1, SetupStartTypes, RedirectedTypes, SetupCheckTypes, ExchangedTypes, StoppedTypes,
     NextProcessTypes DEF GmailNext
<1>2. CASE UNCHANGED gmailVars
  BY <1>2 DEF gmailVars, GmailTypeOK
<1>3. QED
  BY <1>1, <1>2

\* The exchange writes the token beside the client it was issued for: the code in
\* the call is compared by Google with the configuration in the same call.
LEMMA TokenStep ==
    ASSUME GmailTypeOK, [GmailNext]_gmailVars
    PROVE  [config'.token # config.token => config'.token = config'.id]_gmailVars
<1>1. CASE UNCHANGED config
  BY <1>1
<1>2. ASSUME NEW id \in Client, SetupStart(id)
      PROVE  config'.token = config.token
  BY <1>2 DEF SetupStart, GmailTypeOK
<1>3. ASSUME NEW call \in Call, Exchanged(call), config' # config
      PROVE  config'.token = config'.id
  <2>1. /\ checks[call].at = "exchanging"
        /\ checks[call].code = checks[call].config.id
        /\ config' = Saved(checks[call])
    BY <1>3 DEF Exchanged
  <2>2. QED
    BY <2>1, ExchangingCheck DEF Saved
<1>4. CASE GmailNext
  BY <1>1, <1>2, <1>3, <1>4 DEF GmailNext, Redirected, SetupCheck, Stopped, NextProcess
<1>5. CASE UNCHANGED gmailVars
  BY <1>5 DEF gmailVars
<1>6. QED
  BY <1>4, <1>5

\* Every variable of the setup keeps its type, in particular: a check that waits for
\* Google holds the credentials and the code it was made with, and a code that is taken
\* was issued for a client (setup-check.mjs, setup-server.mjs).
THEOREM GmailTypeCorrect == GmailSpec => []GmailTypeOK
<1>1. QED
  BY GmailTypeInit, GmailTypeInductive, PTL DEF GmailSpec

\* A step that saves a token leaves it in the file beside the client it was issued for,
\* however setups, checks and restarts cross, for any clients, servers and overlapping
\* calls (setup-check.mjs handleSetupCheck).  Of the steps that save none it says
\* nothing: gmail-setup-start may later put a new client beside the old token.
THEOREM TokensMatchTheirClient == GmailSpec => TokensAreSavedWithTheirClient
<1>1. GmailTypeOK /\ [GmailNext]_gmailVars
        => [config'.token # config.token => config'.token = config'.id]_gmailVars
  BY TokenStep
<1>2. QED
  BY <1>1, GmailTypeInit, GmailTypeInductive, PTL DEF GmailSpec, TokensAreSavedWithTheirClient
=============================================================================
