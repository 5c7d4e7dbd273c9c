------------------------- MODULE ExtensionHostProofs -------------------------
(***************************************************************************)
(* Proofs about ExtensionHost, for any directories, entries, children and  *)
(* calls, however the operations, the callbacks, the timers and the changes *)
(* of the directories interleave, overlapping starts and children that     *)
(* outlive their successors' starts included.  The proofs hold without a    *)
(* hypothesis on the environment: what the code cannot promise is an        *)
(* exception that the property itself states.                              *)
(***************************************************************************)
EXTENDS ExtensionHost, TLAPS

Status == {"none", "discovered", "starting", "running", "stopped", "crashed"}
Msg    == {"register_tool", "ready", "error"} \cup CallId

(* The invariants.                                                         *)

\* The entries of the map: made, one for a name, and their process their child.
EntriesInv ==
    /\ \A e \in known : status[e] # "none"
    /\ \A e, f \in known : NameOf[e] = NameOf[f] => e = f
    /\ \A e \in Ext : process[e] # None => /\ process[e] \in Forked
                                          /\ extOf[process[e]] = e
    /\ \A e \in Ext : status[e] = "starting" => process[e] # None

\* The children that were forked, and only they, have an extension and a life.
ChildrenInv ==
    /\ inbox \in [Child -> Seq(Msg)]
    /\ \A c \in Forked : /\ extOf[c] \in Ext /\ status[extOf[c]] # "none"
                         /\ life[c] # "none"
    /\ \A c \in Child \ Forked : life[c] = "none" /\ inbox[c] = <<>>
    /\ exitSeen \subseteq resolved
    /\ \A c \in exitSeen : life[c] = "dead"
    /\ \A c \in Child : \A k \in 1..Len(inbox[c]) :
          inbox[c][k] = "error" => life[c] = "dead"
    /\ \A i \in Pending : callee[i] \in Forked

ShapeInv == EntriesInv /\ ChildrenInv

\* Two children of which one was forked while the start of the other was unanswered.
Overlap(c, d) == c \in beside[d] \/ d \in beside[c]

\* Starts that are unanswered together overlap, and what runs was answered beside
\* those that are unanswered still.
OverlapInv ==
    /\ \A c, d \in Starting : extOf[c] # extOf[d] => Overlap(c, d)
    /\ \A e \in Running : \A c \in Starting :
          extOf[c] # e => \E d \in readied : extOf[d] = e /\ Overlap(c, d)
    /\ OneAtATimeButForOverlaps

\* A child that the host has not lost: it may be ready or become so, nobody asked it to
\* end, its exit was not heard, and no other child's events have misled the host.
InSight(c) ==
    c \in (Starting \cup readied) \ (strayed \cup exitSeen) /\ signal[c] = "none"

\* A child whose start was answered otherwise is dead or was killed; one in sight is the
\* process of its extension, which runs, or starts as the child does, and is in the map.
SightInv ==
    /\ readied \subseteq resolved
    /\ \A c \in resolved \ readied : life[c] = "dead" \/ signal[c] # "none"
    /\ \A c \in Child : InSight(c) =>
          /\ process[extOf[c]] = c
          /\ \/ status[extOf[c]] = "running"
             \/ c \in Starting /\ status[extOf[c]] = "starting"
          /\ extOf[c] \in known \/ shutdown = "done"

-----------------------------------------------------------------------------
(* Lemmas about the operators.                                             *)

\* A discovery keeps the entries that have a directory or run, adds fresh ones
\* for names that had none, and changes no other status
\* (extension-host.ts, discoverAll).
LEMMA Discovers ==
    ASSUME NEW disk \in SUBSET Dir, NEW entries \in SUBSET Ext, NEW state \in [Ext -> Status],
           \A e, f \in entries : NameOf[e] = NameOf[f] => e = f,
           discoverAll(disk, entries, state)
    PROVE  /\ known' \subseteq Ext
           /\ status' \in [Ext -> Status]
           /\ \A e \in entries :
                 NameOf[e] \in disk \/ state[e] = "running" => e \in known'
           /\ \A e \in known' :
                 e \in entries \/ (status[e] = "none" /\ status'[e] = "discovered")
           /\ \A e \in Ext :
                 \/ status'[e] = state[e]
                 \/ status[e] = "none" /\ status'[e] = "discovered"
           /\ \A e, f \in known' : NameOf[e] = NameOf[f] => e = f
<1> DEFINE names == {n \in disk : Named(entries, n) = {} /\ Unmade(n) # {}}
           pick(n) == CHOOSE e \in Unmade(n) : TRUE
           fresh == {pick(n) : n \in names}
           kept == {e \in entries : NameOf[e] \in disk \/ state[e] = "running"}
<1>1. \A n \in names : pick(n) \in Unmade(n)
  OBVIOUS
<1>2. \A n \in names : /\ pick(n) \in Ext /\ NameOf[pick(n)] = n
                      /\ status[pick(n)] = "none"
                      /\ \A e \in entries : NameOf[e] # n
  BY <1>1 DEF Unmade, Named
<1>3. known' = kept \cup fresh
  BY DEF discoverAll
<1>4. status' = [e \in Ext |-> IF e \in fresh THEN "discovered" ELSE state[e]]
  BY DEF discoverAll
<1> HIDE DEF pick, names
<1>5. \A e \in fresh : /\ e \in Ext /\ status[e] = "none"
                      /\ e = pick(NameOf[e])
                      /\ \A f \in entries : NameOf[f] # NameOf[e]
  BY <1>2
<1> HIDE DEF fresh
<1>6. kept \subseteq entries
  OBVIOUS
<1>7. \A e, f \in known' : NameOf[e] = NameOf[f] => e = f
  <2> HIDE DEF kept
  <2> QED
    BY <1>3, <1>5, <1>6
<1>8. status' \in [Ext -> Status]
  BY <1>4 DEF Status
<1> QED
  BY <1>3, <1>4, <1>5, <1>7, <1>8

\* What the registry does with a tool keeps it a set of entries.
LEMMA RegistryType ==
    ASSUME registry \subseteq Ext, NEW e \in Ext
    PROVE  Register(e) \subseteq Ext /\ Unregister(e) \subseteq registry
BY DEF Register, Unregister, Named

\* Terminate tells a child to end and does not weaken what it was told.
LEMMA TerminateTells ==
    ASSUME signal \in [Child -> {"none", "term", "kill"}], NEW c \in Child \cup {None}
    PROVE  /\ Terminate(c) \in [Child -> {"none", "term", "kill"}]
           /\ \A d \in Child : Terminate(c)[d] = "none" => signal[d] = "none" /\ d # c
BY HostAssumption DEF Terminate, Child

\* A message that the host handles comes from a child that was forked, and what is
\* left in the inbox was there before.
LEMMA TakeShape ==
    ASSUME TypeOK, ChildrenInv, NEW c \in Child, NEW m, Take(c, m)
    PROVE  /\ c \in Forked /\ extOf[c] \in Ext /\ status[extOf[c]] # "none"
           /\ m = "error" => life[c] = "dead"
           /\ inbox' \in [Child -> Seq(Msg)]
           /\ \A d \in Child : inbox[d] = <<>> => inbox'[d] = <<>>
           /\ \A d \in Child : \A k \in 1..Len(inbox'[d]) :
                 inbox'[d][k] = "error" => life[d] = "dead"
<1>1. inbox[c] \in Seq(Msg) /\ inbox[c] # <<>> /\ m = inbox[c][1] /\ 1 \in 1..Len(inbox[c])
  BY DEF Take, ChildrenInv
<1>2. inbox' \in [Child -> Seq(Msg)]
  BY <1>1 DEF Take, ChildrenInv
<1>3. \A d \in Child : inbox'[d] = IF d = c THEN Tail(inbox[c]) ELSE inbox[d]
  BY DEF Take, ChildrenInv
<1>4. \A k \in 1..Len(Tail(inbox[c])) :
         k + 1 \in 1..Len(inbox[c]) /\ Tail(inbox[c])[k] = inbox[c][k + 1]
  BY <1>1
<1>5. \A d \in Child : \A k \in 1..Len(inbox'[d]) :
         inbox'[d][k] = "error" => life[d] = "dead"
  <2> SUFFICES ASSUME NEW d \in Child, NEW k \in 1..Len(inbox'[d]),
                      inbox'[d][k] = "error"
               PROVE  life[d] = "dead"
    OBVIOUS
  <2>1. CASE d = c
    <3>1. inbox'[c] = Tail(inbox[c])
      BY <1>3
    <3>2. k + 1 \in 1..Len(inbox[c]) /\ inbox[c][k + 1] = "error"
      BY <1>4, <2>1, <3>1
    <3> QED
      BY <2>1, <3>2 DEF ChildrenInv
  <2>2. CASE d # c
    <3>1. inbox'[d] = inbox[d]
      BY <1>3, <2>2
    <3> QED
      BY <3>1 DEF ChildrenInv
  <2> QED
    BY <2>1, <2>2
<1>6. c \in Forked /\ extOf[c] \in Ext /\ status[extOf[c]] # "none"
  BY <1>1 DEF ChildrenInv
<1> QED
  BY <1>1, <1>2, <1>3, <1>5, <1>6 DEF ChildrenInv

\* A message joins the inbox of a child; "error" only that of a child that is dead.
LEMMA SendShape ==
    ASSUME TypeOK, ChildrenInv, NEW c \in Child, NEW m \in Msg, Send(c, m),
           \A d \in Child : life[d] = "dead" => life'[d] = "dead",
           m = "error" => life'[c] = "dead"
    PROVE  /\ inbox' \in [Child -> Seq(Msg)]
           /\ \A d \in Child \ {c} : inbox'[d] = inbox[d]
           /\ \A d \in Child : \A k \in 1..Len(inbox'[d]) :
                 inbox'[d][k] = "error" => life'[d] = "dead"
<1>1. inbox[c] \in Seq(Msg)
  BY DEF ChildrenInv
<1>2. \A d \in Child : inbox'[d] = IF d = c THEN Append(inbox[c], m) ELSE inbox[d]
  BY DEF Send, ChildrenInv
<1>3. inbox' \in [Child -> Seq(Msg)]
  BY <1>1 DEF Send, ChildrenInv
<1>4. \A k \in 1..Len(Append(inbox[c], m)) :
         \/ k \in 1..Len(inbox[c]) /\ Append(inbox[c], m)[k] = inbox[c][k]
         \/ Append(inbox[c], m)[k] = m
  BY <1>1
<1>5. ASSUME NEW d \in Child, NEW k \in 1..Len(inbox'[d]), inbox'[d][k] = "error"
      PROVE  life'[d] = "dead"
  <2>1. CASE d = c
    <3>1. inbox'[c] = Append(inbox[c], m)
      BY <1>2
    <3>2. (k \in 1..Len(inbox[c]) /\ inbox[c][k] = "error") \/ m = "error"
      BY <1>4, <1>5, <2>1, <3>1
    <3> QED
      BY <2>1, <3>2 DEF ChildrenInv
  <2>2. CASE d # c
    <3>1. inbox'[d] = inbox[d]
      BY <1>2, <2>2
    <3> QED
      BY <1>5, <3>1 DEF ChildrenInv
  <2> QED
    BY <2>1, <2>2
<1> QED
  BY <1>2, <1>3, <1>5

-----------------------------------------------------------------------------
(* Type correctness and the shape of the state.                            *)

\* The entries keep their shape when none is added, none is unmade and no process
\* is set.
LEMMA KeepEntries ==
    ASSUME TypeOK, EntriesInv, known' \subseteq known,
           \A e \in Ext : status[e] # "none" => status'[e] # "none",
           \A e \in Ext : process'[e] \in {process[e], None},
           \A e \in Ext :
              status'[e] = "starting" => status[e] = "starting" /\ process'[e] = process[e],
           UNCHANGED <<forks, extOf>>
    PROVE  EntriesInv'
BY DEF EntriesInv, TypeOK, Forked

\* The children keep theirs when nothing is forked, sent or newly awaited.
LEMMA KeepChildren ==
    ASSUME TypeOK, ChildrenInv, UNCHANGED <<forks, extOf, life, inbox, exitSeen>>,
           \A e \in Ext : status[e] # "none" => status'[e] # "none",
           resolved \subseteq resolved',
           \A i \in CallId :
              call'[i] = "pending" => call[i] = "pending" /\ callee'[i] = callee[i]
    PROVE  ChildrenInv'
BY DEF ChildrenInv, Forked, Pending

\* A discovery keeps the shape of the entries.
LEMMA DiscoverShape ==
    ASSUME TypeOK, EntriesInv, NEW disk \in SUBSET Dir, NEW entries \in SUBSET known,
           NEW state \in [Ext -> Status],
           \A e \in Ext : status[e] # "none" => state[e] # "none",
           discoverAll(disk, entries, state),
           \A e \in Ext : process'[e] \in {process[e], None},
           \A e \in Ext :
              state[e] = "starting" => status[e] = "starting" /\ process'[e] = process[e],
           UNCHANGED <<forks, extOf>>
    PROVE  /\ EntriesInv' /\ known' \subseteq Ext /\ status' \in [Ext -> Status]
           /\ strayed' \subseteq Forked
           /\ \A e \in Ext : status[e] # "none" => status'[e] # "none"
<1>1. /\ entries \in SUBSET Ext
      /\ \A e, f \in entries : NameOf[e] = NameOf[f] => e = f
  BY DEF TypeOK, EntriesInv
<1>2. /\ known' \subseteq Ext
      /\ status' \in [Ext -> Status]
      /\ \A e \in known' :
            e \in entries \/ (status[e] = "none" /\ status'[e] = "discovered")
      /\ \A e \in Ext :
            \/ status'[e] = state[e]
            \/ status[e] = "none" /\ status'[e] = "discovered"
      /\ \A e, f \in known' : NameOf[e] = NameOf[f] => e = f
  BY <1>1, Discovers
<1>3. \A e \in Ext : status[e] # "none" => status'[e] # "none"
  BY <1>2
<1>4. \A e \in known' : status'[e] # "none"
  BY <1>1, <1>2, <1>3 DEF EntriesInv
<1>5. \A e \in Ext : status'[e] = "starting" => process'[e] # None
  BY <1>2 DEF EntriesInv
<1>6. strayed' \subseteq Forked
  <2>1. strayed' = strayed \cup StartsForgotten(disk, entries, state)
    BY DEF discoverAll
  <2>2. \A e \in entries : state[e] = "starting" => process[e] \in Forked
    BY <1>1 DEF EntriesInv
  <2> QED
    BY <2>1, <2>2 DEF StartsForgotten, TypeOK
<1> QED
  BY <1>2, <1>3, <1>4, <1>5, <1>6 DEF EntriesInv, TypeOK, Forked

\* A fork adds a child, the process of its extension.
LEMMA ForkShape ==
    ASSUME TypeOK, ShapeInv, NEW e \in Ext, Fork(e), status[e] # "none",
           signal' \in [Child -> {"none", "term", "kill"}], registry' \subseteq Ext,
           strayed' \subseteq Forked
    PROVE  TypeOK' /\ ShapeInv'
<1>1. /\ forks \in Nat /\ forks' = forks + 1 /\ forks' \in Child
      /\ Forked' = Forked \cup {forks'} /\ forks' \notin Forked /\ Forked \subseteq Child
  BY HostAssumption DEF Fork, TypeOK, Forked, Child
<1>2. /\ \A c \in Child : extOf'[c] = IF c = forks' THEN e ELSE extOf[c]
      /\ \A c \in Child : life'[c] = IF c = forks' THEN "activating" ELSE life[c]
      /\ \A f \in Ext : process'[f] = IF f = e THEN forks' ELSE process[f]
      /\ \A f \in Ext : status'[f] = IF f = e THEN "starting" ELSE status[f]
      /\ UNCHANGED <<onDisk, known, resolved, exitSeen, inbox, call, callee, shutdown,
                     readied, intruded>>
  BY <1>1 DEF Fork, TypeOK
<1>3. TypeOK'
  <2>1. /\ forks' \in 0..MaxForks
        /\ extOf' \in [Child -> Ext \cup {None}]
        /\ life' \in [Child -> {"none", "activating", "serving", "dead"}]
    BY <1>1, HostAssumption DEF Fork, TypeOK, Child
  <2>2. /\ process' \in [Ext -> Child \cup {None}]
        /\ status' \in [Ext -> {"none", "discovered", "starting", "running", "stopped",
                                "crashed"}]
        /\ tools' \subseteq Ext
    BY <1>1 DEF Fork, TypeOK
  <2>3. beside' \in [Child -> SUBSET Child]
    BY <1>1 DEF Fork, TypeOK, Starting
  <2> QED
    BY <1>1, <1>2, <2>1, <2>2, <2>3 DEF TypeOK
<1>4. EntriesInv'
  <2>1. \A f \in known' : status'[f] # "none"
    BY <1>2 DEF EntriesInv, ShapeInv, TypeOK
  <2>2. ASSUME NEW f \in Ext, process'[f] # None
        PROVE  process'[f] \in Forked' /\ extOf'[process'[f]] = f
    <3>1. CASE f = e
      BY <1>1, <1>2, <3>1
    <3>2. CASE f # e
      <4>1. /\ process'[f] = process[f] /\ process[f] \in Forked
            /\ extOf[process[f]] = f
        BY <1>2, <2>2, <3>2 DEF EntriesInv, ShapeInv
      <4> QED
        BY <1>1, <1>2, <4>1
    <3> QED
      BY <3>1, <3>2
  <2>3. \A f \in Ext : status'[f] = "starting" => process'[f] # None
    BY <1>1, <1>2, HostAssumption DEF EntriesInv, ShapeInv
  <2> QED
    BY <1>2, <2>1, <2>2, <2>3 DEF EntriesInv, ShapeInv
<1>5. ChildrenInv'
  <2>1. Pending' = Pending
    BY <1>2 DEF Pending
  <2>2. \A c \in Child : life[c] = "dead" => c # forks'
    BY <1>1 DEF ShapeInv, ChildrenInv
  <2>3. \A c \in exitSeen : c \in Child /\ c # forks'
    BY <1>1 DEF TypeOK
  <2>4. ASSUME NEW c \in Forked'
        PROVE  extOf'[c] \in Ext /\ status'[extOf'[c]] # "none" /\ life'[c] # "none"
    <3>1. CASE c = forks'
      BY <1>1, <1>2, <3>1
    <3>2. CASE c # forks'
      <4>1. c \in Forked /\ c \in Child
        BY <1>1, <3>2
      <4>2. extOf[c] \in Ext /\ status[extOf[c]] # "none" /\ life[c] # "none"
        BY <4>1 DEF ShapeInv, ChildrenInv
      <4> QED
        BY <1>2, <3>2, <4>1, <4>2
    <3> QED
      BY <3>1, <3>2
  <2>5. \A c \in Child \ Forked' : life'[c] = "none" /\ inbox'[c] = <<>>
    BY <1>1, <1>2 DEF ShapeInv, ChildrenInv
  <2>6. \A c \in Child : \A k \in 1..Len(inbox'[c]) :
           inbox'[c][k] = "error" => life'[c] = "dead"
    BY <1>2, <2>2 DEF ShapeInv, ChildrenInv
  <2>7. \A c \in exitSeen' : life'[c] = "dead"
    BY <1>2, <2>3 DEF ShapeInv, ChildrenInv
  <2> QED
    BY <1>1, <1>2, <2>1, <2>4, <2>5, <2>6, <2>7 DEF ShapeInv, ChildrenInv
<1> QED
  BY <1>3, <1>4, <1>5 DEF ShapeInv

\* A child that lives, and what it sends, change nothing else.
LEMMA ChildShape ==
    ASSUME TypeOK, ShapeInv, NEW c \in Child, life[c] # "none", UNCHANGED hostVars,
           life' \in [Child -> {"none", "activating", "serving", "dead"}],
           \A d \in Child \ {c} : life'[d] = life[d],
           life'[c] # "none", life[c] = "dead" => life'[c] = "dead",
           inbox' = inbox \/ \E m \in Msg : Send(c, m) /\ (m = "error" => life'[c] = "dead")
    PROVE  TypeOK' /\ ShapeInv'
<1> USE DEF hostVars, history
<1>1. EntriesInv /\ ChildrenInv
  BY DEF ShapeInv
<1>2. \A d \in Child : life[d] = "dead" => life'[d] = "dead"
  OBVIOUS
<1>3. /\ inbox' \in [Child -> Seq(Msg)]
      /\ \A d \in Child \ {c} : inbox'[d] = inbox[d]
      /\ \A d \in Child : \A k \in 1..Len(inbox'[d]) :
            inbox'[d][k] = "error" => life'[d] = "dead"
  <2>1. CASE inbox' = inbox
    BY <1>1, <1>2, <2>1 DEF ChildrenInv
  <2>2. CASE inbox' # inbox
    <3>1. PICK m \in Msg : Send(c, m) /\ (m = "error" => life'[c] = "dead")
      BY <2>2
    <3> QED
      BY <1>1, <1>2, <3>1, SendShape
  <2> QED
    BY <2>1, <2>2
<1>4. c \in Forked
  BY <1>1 DEF ChildrenInv
<1>5. EntriesInv'
  BY <1>1, KeepEntries
<1>6. ChildrenInv'
  <2>1. Forked' = Forked /\ Pending' = Pending
    BY DEF Forked, Pending
  <2>2. \A d \in Forked : life'[d] # "none"
    BY <1>1, HostAssumption DEF ChildrenInv, Forked, Child, TypeOK
  <2>3. \A d \in exitSeen : life'[d] = "dead"
    BY <1>1, <1>2, HostAssumption DEF ChildrenInv, TypeOK, Forked, Child
  <2> QED
    BY <1>1, <1>3, <1>4, <2>1, <2>2, <2>3 DEF ChildrenInv
<1>7. TypeOK'
  BY DEF TypeOK, Forked
<1> QED
  BY <1>5, <1>6, <1>7 DEF ShapeInv

\* A second start, and the callback of an older child, lose a child that was forked.
LEMMA Strays ==
    ASSUME TypeOK, EntriesInv
    PROVE  /\ \A e \in Ext : Abandons(e) \subseteq Forked
           /\ \A c \in Child : extOf[c] \in Ext => Misjudged(c) \subseteq Forked
BY DEF Abandons, Misjudged, EntriesInv

\* After the discovery of the start every directory has one entry, and no child.
LEMMA ShapeInit == Init => TypeOK /\ ShapeInv
<1> SUFFICES ASSUME Init PROVE TypeOK /\ ShapeInv
  OBVIOUS
<1> DEFINE first(n) == CHOOSE e \in Ext : NameOf[e] = n
<1>1. \A n \in Dir : first(n) \in Ext /\ NameOf[first(n)] = n
  BY HostAssumption
<1>2. known = {first(n) : n \in Dir}
  BY DEF Init, FirstEntries
<1> HIDE DEF first
<1>3. known \subseteq Ext /\ \A e, f \in known : NameOf[e] = NameOf[f] => e = f
  BY <1>1, <1>2
<1>4. Forked = {} /\ 0 \in 0..MaxForks
  BY HostAssumption DEF Init, Forked
<1>5. <<>> \in Seq(Msg) /\ Len(<<>>) = 0
  OBVIOUS
<1>6. Pending = {}
  BY DEF Init, Pending
<1>7. TypeOK
  BY <1>3, <1>4 DEF Init, TypeOK
<1>8. EntriesInv
  BY <1>3 DEF Init, EntriesInv
<1>9. ChildrenInv
  BY <1>4, <1>5, <1>6 DEF Init, ChildrenInv
<1> QED
  BY <1>7, <1>8, <1>9 DEF ShapeInv

\* Every step keeps the state well typed and in shape, whatever operations of the
\* tool, callbacks, timers and changes of the directories come in between.
LEMMA ShapeStep == TypeOK /\ ShapeInv /\ [Next]_vars => TypeOK' /\ ShapeInv'
<1> SUFFICES ASSUME TypeOK, ShapeInv, [Next]_vars PROVE TypeOK' /\ ShapeInv'
  OBVIOUS
<1> USE DEF childVars, callVars, hostVars, history
<1>s. EntriesInv /\ ChildrenInv
  BY DEF ShapeInv
<1>t. status \in [Ext -> Status]
  BY DEF TypeOK, Status
<1>1. ASSUME NEW e \in Ext, StartExtension(e) PROVE TypeOK' /\ ShapeInv'
  <2>1. strayed' \subseteq Forked
    BY <1>1, <1>s, Strays DEF StartExtension, TypeOK
  <2> QED
    BY <1>1, <1>s, <2>1, ForkShape DEF StartExtension, MayStart, EntriesInv, TypeOK
<1>2. ASSUME NEW e \in Ext, InstallFails(e) PROVE TypeOK' /\ ShapeInv'
  <2>1. /\ \A f \in Ext : status[f] # "none" => status'[f] # "none"
        /\ \A f \in Ext : status'[f] = "starting" => status[f] = "starting"
    BY <1>2 DEF InstallFails, TypeOK
  <2>2. EntriesInv'
    BY <1>2, <1>s, <2>1, KeepEntries DEF InstallFails
  <2>3. ChildrenInv'
    BY <1>2, <1>s, <2>1, KeepChildren DEF InstallFails
  <2>4. strayed' \subseteq Forked
    BY <1>2, <1>s, Strays DEF InstallFails, TypeOK
  <2> QED
    BY <1>2, <2>2, <2>3, <2>4 DEF InstallFails, TypeOK, ShapeInv, Forked
<1>3. ASSUME NEW e \in Ext, StopExtension(e) PROVE TypeOK' /\ ShapeInv'
  <2>1. \A f \in Ext : status[f] # "none" => status'[f] # "none"
    BY <1>3 DEF StopExtension, TypeOK
  <2>2. /\ \A f \in Ext : process'[f] \in {process[f], None}
        /\ \A f \in Ext : status'[f] = "starting" =>
              status[f] = "starting" /\ process'[f] = process[f]
    BY <1>3 DEF StopExtension, TypeOK
  <2>3. EntriesInv'
    BY <1>3, <1>s, <2>1, <2>2, KeepEntries DEF StopExtension
  <2>4. ChildrenInv'
    BY <1>3, <1>s, <2>1, KeepChildren DEF StopExtension
  <2>5. process[e] \in Child \cup {None}
    BY DEF TypeOK
  <2>6. signal' \in [Child -> {"none", "term", "kill"}] /\ registry' \subseteq Ext
    BY <1>3, <2>5, TerminateTells, RegistryType DEF StopExtension, TypeOK
  <2> QED
    BY <1>3, <2>3, <2>4, <2>6 DEF StopExtension, TypeOK, ShapeInv, Forked
<1>4. ASSUME NEW e \in Ext, RestartExtension(e) PROVE TypeOK' /\ ShapeInv'
  <2>1. process[e] \in Child \cup {None}
    BY DEF TypeOK
  <2>2. signal' \in [Child -> {"none", "term", "kill"}] /\ registry' \subseteq Ext
    BY <1>4, <2>1, TerminateTells, RegistryType DEF RestartExtension, TypeOK
  <2>3. strayed' \subseteq Forked /\ status[e] # "none"
    BY <1>4 DEF RestartExtension, Stoppable, TypeOK
  <2> QED
    BY <1>4, <2>2, <2>3, ForkShape DEF RestartExtension
<1>5. ASSUME NEW e \in Ext, RemoveExtension(e) PROVE TypeOK' /\ ShapeInv'
  <2> DEFINE state == IF Stoppable(e) THEN [status EXCEPT ![e] = "stopped"] ELSE status
  <2>1. /\ onDisk' \in SUBSET Dir /\ known \ {e} \in SUBSET known
        /\ state \in [Ext -> Status]
        /\ \A f \in Ext : status[f] # "none" => state[f] # "none"
        /\ discoverAll(onDisk', known \ {e}, state)
    BY <1>5, <1>t DEF RemoveExtension, TypeOK, Status
  <2>2. /\ \A f \in Ext : process'[f] \in {process[f], None}
        /\ \A f \in Ext : state[f] = "starting" =>
              status[f] = "starting" /\ process'[f] = process[f]
    BY <1>5 DEF RemoveExtension, TypeOK, Stoppable
  <2> HIDE DEF state
  <2>3. UNCHANGED <<forks, extOf>>
    BY <1>5 DEF RemoveExtension
  <2>4. /\ EntriesInv' /\ known' \subseteq Ext /\ status' \in [Ext -> Status]
        /\ strayed' \subseteq Forked
        /\ \A f \in Ext : status[f] # "none" => status'[f] # "none"
    BY <1>s, <2>1, <2>2, <2>3, DiscoverShape
  <2>5. ChildrenInv'
    BY <1>5, <1>s, <2>4, KeepChildren DEF RemoveExtension
  <2>6. process[e] \in Child \cup {None}
    BY DEF TypeOK
  <2>7. /\ signal' \in [Child -> {"none", "term", "kill"}]
        /\ registry' \subseteq Ext /\ tools' \subseteq Ext
        /\ process' \in [Ext -> Child \cup {None}]
    BY <1>5, <2>6, TerminateTells, RegistryType DEF RemoveExtension, TypeOK
  <2> QED
    BY <1>5, <2>1, <2>4, <2>5, <2>7 DEF RemoveExtension, TypeOK, ShapeInv, Status, Forked
<1>6. ASSUME NEW e \in Ext, NEW i \in CallId, CallTool(e, i) PROVE TypeOK' /\ ShapeInv'
  <2>1. EntriesInv'
    BY <1>6, <1>s, KeepEntries DEF CallTool
  <2>2. /\ call' \in [CallId -> {"idle", "pending", "settled"}]
        /\ callee' \in [CallId -> Child \cup {None}]
    BY <1>6 DEF CallTool, TypeOK
  <2>3. \A j \in Pending' : callee'[j] \in Forked
    <3>1. CASE process[e] = None \/ status[e] # "running"
      BY <1>6, <1>s, <3>1 DEF CallTool, TypeOK, Pending, ChildrenInv
    <3>2. CASE ~(process[e] = None \/ status[e] # "running")
      <4>1. process[e] \in Forked
        BY <1>s, <3>2 DEF EntriesInv
      <4>2. /\ \A j \in CallId : call'[j] = IF j = i THEN "pending" ELSE call[j]
            /\ \A j \in CallId : callee'[j] = IF j = i THEN process[e] ELSE callee[j]
        BY <1>6, <3>2 DEF CallTool, TypeOK
      <4> QED
        BY <1>s, <4>1, <4>2 DEF Pending, ChildrenInv
    <3> QED
      BY <3>1, <3>2
  <2>4. ChildrenInv'
    BY <1>6, <1>s, <2>3 DEF CallTool, ChildrenInv, Forked
  <2> QED
    BY <1>6, <2>1, <2>2, <2>4 DEF CallTool, TypeOK, ShapeInv, Forked
<1>7. ASSUME ListExtensions PROVE TypeOK' /\ ShapeInv'
  <2>1. /\ onDisk \in SUBSET Dir /\ known \in SUBSET known
        /\ \A f \in Ext : process'[f] = process[f]
    BY <1>7 DEF ListExtensions, TypeOK
  <2>2. /\ EntriesInv' /\ known' \subseteq Ext /\ status' \in [Ext -> Status]
        /\ strayed' \subseteq Forked
        /\ \A f \in Ext : status[f] # "none" => status'[f] # "none"
    BY <1>7, <1>s, <1>t, <2>1, DiscoverShape DEF ListExtensions
  <2>3. ChildrenInv'
    BY <1>7, <1>s, <2>2, KeepChildren DEF ListExtensions
  <2> QED
    BY <1>7, <2>2, <2>3 DEF ListExtensions, TypeOK, ShapeInv, Status, Forked
<1>8. ASSUME NEW n \in Dir, DirectoryAppears(n) \/ DirectoryDisappears(n)
      PROVE  TypeOK' /\ ShapeInv'
  <2>1. EntriesInv' /\ ChildrenInv'
    BY <1>8, <1>s, KeepEntries, KeepChildren DEF DirectoryAppears, DirectoryDisappears
  <2> QED
    BY <1>8, <2>1 DEF DirectoryAppears, DirectoryDisappears, TypeOK, ShapeInv, Forked
<1>9. ASSUME NEW c \in Child, ChildRegisters(c) PROVE TypeOK' /\ ShapeInv'
  <2>1. life[c] # "none" /\ life' = life /\ Send(c, "register_tool") /\ UNCHANGED hostVars
    BY <1>9 DEF ChildRegisters
  <2>2. life \in [Child -> {"none", "activating", "serving", "dead"}]
    BY DEF TypeOK
  <2> QED
    BY <2>1, <2>2, ChildShape DEF Msg
<1>10. ASSUME NEW c \in Child, ChildIsReady(c) PROVE TypeOK' /\ ShapeInv'
  <2>1. /\ life[c] = "activating" /\ Send(c, "ready") /\ UNCHANGED hostVars
        /\ life' \in [Child -> {"none", "activating", "serving", "dead"}]
        /\ life'[c] = "serving" /\ \A d \in Child \ {c} : life'[d] = life[d]
    BY <1>10 DEF ChildIsReady, TypeOK
  <2> QED
    BY <2>1, ChildShape DEF Msg
<1>11. ASSUME NEW c \in Child, ChildFails(c) PROVE TypeOK' /\ ShapeInv'
  <2>1. /\ life[c] = "activating" /\ Send(c, "error") /\ UNCHANGED hostVars
        /\ life' \in [Child -> {"none", "activating", "serving", "dead"}]
        /\ life'[c] = "dead" /\ \A d \in Child \ {c} : life'[d] = life[d]
    BY <1>11 DEF ChildFails, TypeOK
  <2> QED
    BY <2>1, ChildShape DEF Msg
<1>12. ASSUME NEW c \in Child, NEW i \in CallId, ChildAnswers(c, i)
       PROVE  TypeOK' /\ ShapeInv'
  <2>1. /\ life[c] = "serving" /\ life' = life /\ Send(c, i) /\ UNCHANGED hostVars
        /\ i \in Msg /\ i # "error"
    BY <1>12, HostAssumption DEF ChildAnswers, Msg
  <2>2. life \in [Child -> {"none", "activating", "serving", "dead"}]
    BY DEF TypeOK
  <2> QED
    BY <2>1, <2>2, ChildShape
<1>13. ASSUME NEW c \in Child, ChildDies(c) PROVE TypeOK' /\ ShapeInv'
  <2>1. /\ life[c] # "none" /\ inbox' = inbox /\ UNCHANGED hostVars
        /\ life' \in [Child -> {"none", "activating", "serving", "dead"}]
        /\ life'[c] = "dead" /\ \A d \in Child \ {c} : life'[d] = life[d]
    BY <1>13 DEF ChildDies, Alive, TypeOK
  <2> QED
    BY <2>1, ChildShape
<1>14. ASSUME NEW c \in Child, NEW m, Take(c, m),
              UNCHANGED <<forks, extOf, life, exitSeen>>, resolved \subseteq resolved',
              \A e \in Ext : status[e] # "none" => status'[e] # "none",
              \A i \in CallId :
                 call'[i] = "pending" => call[i] = "pending" /\ callee'[i] = callee[i]
       PROVE  ChildrenInv'
  <2>1. /\ inbox' \in [Child -> Seq(Msg)]
        /\ \A d \in Child : inbox[d] = <<>> => inbox'[d] = <<>>
        /\ \A d \in Child : \A k \in 1..Len(inbox'[d]) :
              inbox'[d][k] = "error" => life[d] = "dead"
    BY <1>14, <1>s, TakeShape
  <2> QED
    BY <1>14, <1>s, <2>1 DEF ChildrenInv, Forked, Pending
<1>15. ASSUME NEW c \in Child, OnRegisterTool(c) PROVE TypeOK' /\ ShapeInv'
  <2>1. Take(c, "register_tool") /\ extOf[c] \in Ext
    BY <1>15, <1>s, TakeShape DEF OnRegisterTool
  <2>2. EntriesInv'
    BY <1>15, <1>s, KeepEntries DEF OnRegisterTool
  <2>3. ChildrenInv'
    BY <1>14, <1>15, <2>1 DEF OnRegisterTool
  <2>4. registry' \subseteq Ext /\ tools' \subseteq Ext /\ intruded' \subseteq Ext
    BY <1>15, <2>1, RegistryType DEF OnRegisterTool, RegisterTools, Intruded, TypeOK
  <2> QED
    BY <1>15, <2>2, <2>3, <2>4 DEF OnRegisterTool, TypeOK, ShapeInv, Forked
<1>16. ASSUME NEW c \in Child, OnReady(c) PROVE TypeOK' /\ ShapeInv'
  <2>1. Take(c, "ready") /\ c \in Forked /\ extOf[c] \in Ext
    BY <1>16, <1>s, TakeShape DEF OnReady
  <2>2. CASE c \in resolved
    <3>1. EntriesInv' /\ ChildrenInv'
      BY <1>14, <1>16, <1>s, <2>1, <2>2, KeepEntries DEF OnReady
    <3> QED
      BY <1>16, <2>2, <3>1 DEF OnReady, TypeOK, ShapeInv, Forked
  <2>3. CASE c \notin resolved
    <3> DEFINE state == [status EXCEPT ![extOf[c]] = "running"]
    <3>1. /\ onDisk \in SUBSET Dir /\ known \in SUBSET known
          /\ state \in [Ext -> Status]
          /\ \A f \in Ext : status[f] # "none" => state[f] # "none"
          /\ \A f \in Ext : state[f] = "starting" => status[f] = "starting"
      BY <1>t, <2>1 DEF TypeOK, Status
    <3>2. /\ discoverAll(onDisk, known, state)
          /\ UNCHANGED <<forks, extOf, life, exitSeen, process, call, callee, onDisk,
                         signal, shutdown>>
          /\ resolved' = resolved \cup {c} /\ tools' = tools \cup {extOf[c]}
          /\ RegisterTools(extOf[c])
          /\ readied' = readied \cup {c} /\ beside' = beside
          /\ intruded' = (intruded \ {extOf[c]}) \cup Intruded(c)
      BY <1>16, <2>3 DEF OnReady
    <3> HIDE DEF state
    <3>3. /\ EntriesInv' /\ known' \subseteq Ext /\ status' \in [Ext -> Status]
          /\ strayed' \subseteq Forked
          /\ \A f \in Ext : status[f] # "none" => status'[f] # "none"
      BY <1>s, <3>1, <3>2, DiscoverShape
    <3>4. ChildrenInv'
      BY <1>14, <2>1, <3>2, <3>3
    <3>5. registry' \subseteq Ext /\ intruded' \subseteq Ext
      BY <2>1, <3>2, RegistryType DEF RegisterTools, Intruded, TypeOK
    <3> QED
      BY <2>1, <3>2, <3>3, <3>4, <3>5 DEF TypeOK, ShapeInv, Status, Forked
  <2> QED
    BY <2>2, <2>3
<1>17. ASSUME NEW c \in Child, OnError(c) PROVE TypeOK' /\ ShapeInv'
  <2>1. Take(c, "error") /\ c \in Forked /\ extOf[c] \in Ext
    BY <1>17, <1>s, TakeShape DEF OnError
  <2>2. /\ status' \in [Ext -> Status]
        /\ \A f \in Ext : status[f] # "none" => status'[f] # "none"
        /\ \A f \in Ext : status'[f] = "starting" => status[f] = "starting"
        /\ strayed' \subseteq Forked
    BY <1>17, <1>s, <1>t, <2>1, Strays DEF OnError, Status, TypeOK
  <2>3. EntriesInv'
    BY <1>17, <1>s, <2>2, KeepEntries DEF OnError
  <2>4. ChildrenInv'
    BY <1>14, <1>17, <2>1, <2>2 DEF OnError
  <2> QED
    BY <1>17, <2>1, <2>2, <2>3, <2>4 DEF OnError, TypeOK, ShapeInv, Status, Forked
<1>18. ASSUME NEW c \in Child, NEW i \in CallId, OnResult(c, i) PROVE TypeOK' /\ ShapeInv'
  <2>1. /\ call' \in [CallId -> {"idle", "pending", "settled"}]
        /\ \A j \in CallId : call'[j] = "pending" => call[j] = "pending"
    BY <1>18 DEF OnResult, TypeOK
  <2>2. EntriesInv' /\ ChildrenInv'
    BY <1>14, <1>18, <1>s, <2>1, KeepEntries DEF OnResult
  <2> QED
    BY <1>18, <2>1, <2>2 DEF OnResult, TypeOK, ShapeInv, Forked
<1>19. ASSUME NEW c \in Child, ReadyTimeout(c) PROVE TypeOK' /\ ShapeInv'
  <2>1. /\ c \in Forked /\ status' \in [Ext -> Status]
        /\ \A f \in Ext : status[f] # "none" => status'[f] # "none"
        /\ \A f \in Ext : status'[f] = "starting" => status[f] = "starting"
        /\ signal' \in [Child -> {"none", "term", "kill"}]
    BY <1>19, <1>t DEF ReadyTimeout, Starting, Status, TypeOK
  <2>3. strayed' \subseteq Forked
    BY <1>19, <1>s, <2>1, Strays DEF ReadyTimeout, ChildrenInv, TypeOK
  <2>2. EntriesInv' /\ ChildrenInv'
    BY <1>19, <1>s, <2>1, KeepEntries, KeepChildren DEF ReadyTimeout
  <2> QED
    BY <1>19, <2>1, <2>2, <2>3 DEF ReadyTimeout, TypeOK, ShapeInv, Status, Forked
<1>20. ASSUME NEW c \in Child, OnExit(c) PROVE TypeOK' /\ ShapeInv'
  <2>1. /\ c \in Forked /\ life[c] = "dead" /\ status' \in [Ext -> Status]
        /\ \A f \in Ext : status[f] # "none" => status'[f] # "none"
        /\ \A f \in Ext : status'[f] = "starting" => status[f] = "starting"
    BY <1>20, <1>t DEF OnExit, Status
  <2>2. EntriesInv'
    BY <1>20, <1>s, <2>1, KeepEntries DEF OnExit
  <2>3. /\ call' \in [CallId -> {"idle", "pending", "settled"}]
        /\ \A j \in CallId : call'[j] = "pending" => call[j] = "pending"
    BY <1>20 DEF OnExit, TypeOK, Pending
  <2>4. ChildrenInv'
    BY <1>20, <1>s, <2>1, <2>3 DEF OnExit, ChildrenInv, Forked, Pending
  <2>5. registry' \subseteq Ext /\ intruded' \subseteq Ext
    BY <1>20, <1>s, <2>1, RegistryType DEF OnExit, ChildrenInv, Intruded, TypeOK
  <2>6. strayed' \subseteq Forked
    BY <1>20, <1>s, <2>1, Strays DEF OnExit, ChildrenInv, TypeOK
  <2> QED
    BY <1>20, <2>1, <2>2, <2>3, <2>4, <2>5, <2>6 DEF OnExit, TypeOK, ShapeInv, Status, Forked
<1>21. ASSUME NEW i \in CallId, CallTimeout(i) PROVE TypeOK' /\ ShapeInv'
  <2>1. /\ call' \in [CallId -> {"idle", "pending", "settled"}]
        /\ \A j \in CallId : call'[j] = "pending" => call[j] = "pending"
    BY <1>21 DEF CallTimeout, TypeOK
  <2>2. EntriesInv' /\ ChildrenInv'
    BY <1>21, <1>s, <2>1, KeepEntries, KeepChildren DEF CallTimeout
  <2> QED
    BY <1>21, <2>1, <2>2 DEF CallTimeout, TypeOK, ShapeInv, Forked
<1>22. CASE StopAll
  <2>1. EntriesInv' /\ ChildrenInv'
    BY <1>22, <1>s, KeepEntries, KeepChildren DEF StopAll
  <2> QED
    BY <1>22, <2>1 DEF StopAll, TypeOK, ShapeInv, Forked
<1>23. CASE StopAllReturns
  <2>1. EntriesInv' /\ ChildrenInv'
    BY <1>23, <1>s, KeepEntries, KeepChildren DEF StopAllReturns
  <2> QED
    BY <1>23, <2>1 DEF StopAllReturns, TypeOK, ShapeInv, Forked
<1>24. CASE UNCHANGED vars
  <2>1. EntriesInv' /\ ChildrenInv'
    BY <1>24, <1>s, KeepEntries, KeepChildren DEF vars
  <2> QED
    BY <1>24, <2>1 DEF vars, TypeOK, ShapeInv, Forked
<1> QED
  BY <1>1, <1>2, <1>3, <1>4, <1>5, <1>6, <1>7, <1>8, <1>9, <1>10, <1>11, <1>12,
     <1>13, <1>15, <1>16, <1>17, <1>18, <1>19, <1>20, <1>21, <1>22, <1>23, <1>24
  DEF Next, Operation, Deliver, ChildStep

\* The host's maps, the registry and the children's records hold only what
\* extension-host.ts may put there, for any number of extensions and children.
THEOREM HostTypeCorrect == SafeSpec => []TypeOK
<1>1. SafeSpec => [](TypeOK /\ ShapeInv)
  BY ShapeInit, ShapeStep, PTL DEF SafeSpec
<1> QED
  BY <1>1, PTL

-----------------------------------------------------------------------------
(* What a step does to the entries, seen from the children.                *)

\* What a discovery changes, seen from the entries that are made.
LEMMA DiscoverEffect ==
    ASSUME TypeOK, EntriesInv, NEW disk \in SUBSET Dir, NEW entries \in SUBSET known,
           NEW state \in [Ext -> Status],
           \A e \in Ext : status[e] = "none" => state[e] = "none",
           discoverAll(disk, entries, state)
    PROVE  /\ \A e \in Ext : status[e] # "none" => status'[e] = state[e]
           /\ \A e \in Ext : status'[e] = "running" => state[e] = "running"
           /\ \A e \in known' : e \in entries \/ status'[e] = "discovered"
           /\ \A e \in entries :
                 e \in known' \/ (/\ state[e] # "running"
                                  /\ state[e] = "starting" => process[e] \in strayed')
           /\ strayed \subseteq strayed'
<1>1. /\ entries \in SUBSET Ext
      /\ \A e, f \in entries : NameOf[e] = NameOf[f] => e = f
  BY DEF TypeOK, EntriesInv
<1>2. /\ \A e \in entries :
            NameOf[e] \in disk \/ state[e] = "running" => e \in known'
      /\ \A e \in known' :
            e \in entries \/ (status[e] = "none" /\ status'[e] = "discovered")
      /\ \A e \in Ext :
            \/ status'[e] = state[e]
            \/ status[e] = "none" /\ status'[e] = "discovered"
  BY <1>1, Discovers
<1>3. strayed' = strayed \cup StartsForgotten(disk, entries, state)
  BY DEF discoverAll
<1>4. \A e \in entries :
         NameOf[e] \notin disk /\ state[e] = "starting" => process[e] \in strayed'
  BY <1>3 DEF StartsForgotten
<1> QED
  BY <1>2, <1>3, <1>4

\* A start that the tests let pass.
Begins(e) == e \in known /\ shutdown # "done" /\ Running \ {e} = {} /\ Fork(e)

\* No entry comes to run, and no start begins.
Ebbs ==
    /\ UNCHANGED <<forks, extOf, beside>>
    /\ Running' \subseteq Running
    /\ resolved \subseteq resolved' /\ readied \subseteq readied'

\* The statuses and the map after a discovery that makes nothing run.
LEMMA DiscoveryEbbs ==
    ASSUME TypeOK, EntriesInv, NEW disk \in SUBSET Dir, NEW entries \in SUBSET known,
           NEW state \in [Ext -> Status],
           \A e \in Ext : status[e] = "none" => state[e] = "none",
           \A e \in Ext : state[e] = "running" => status[e] = "running",
           discoverAll(disk, entries, state)
    PROVE  Running' \subseteq Running
<1>1. /\ \A e \in Ext : status[e] # "none" => status'[e] = state[e]
      /\ \A e \in Ext : status'[e] = "running" => state[e] = "running"
      /\ \A e \in known' : e \in entries \/ status'[e] = "discovered"
      /\ \A e \in entries :
            e \in known' \/ (/\ state[e] # "running"
                             /\ state[e] = "starting" => process[e] \in strayed')
      /\ strayed \subseteq strayed'
  BY DiscoverEffect
<1>2. known \subseteq Ext
  BY DEF TypeOK
<1> QED
  BY <1>1, <1>2 DEF Running

\* Every step is a start that begins, a start that succeeds, or one of the others.
LEMMA StepKinds ==
    ASSUME TypeOK, ShapeInv, [Next]_vars
    PROVE  \/ \E e \in Ext : Begins(e)
           \/ \E c \in Child : c \notin resolved /\ OnReady(c)
           \/ Ebbs
<1> USE DEF childVars, callVars, history, hostVars
<1>s. EntriesInv /\ status \in [Ext -> Status] /\ known \in SUBSET known /\ onDisk \in SUBSET Dir
  BY DEF ShapeInv, TypeOK, Status
<1>1. ASSUME NEW e \in Ext, StartExtension(e) \/ RestartExtension(e) PROVE Begins(e)
  BY <1>1 DEF StartExtension, RestartExtension, MayStart, Begins
<1>2. ASSUME NEW e \in Ext, InstallFails(e) PROVE Ebbs
  BY <1>2 DEF InstallFails, Ebbs, Running, TypeOK
<1>3. ASSUME NEW e \in Ext, StopExtension(e) PROVE Ebbs
  BY <1>3 DEF StopExtension, Ebbs, Running, TypeOK
<1>4. ASSUME NEW e \in Ext, RemoveExtension(e) PROVE Ebbs
  <2> DEFINE state == IF Stoppable(e) THEN [status EXCEPT ![e] = "stopped"] ELSE status
  <2>1. /\ onDisk' \in SUBSET Dir /\ known \ {e} \in SUBSET known
        /\ state \in [Ext -> Status]
        /\ discoverAll(onDisk', known \ {e}, state)
    BY <1>4, <1>s DEF RemoveExtension, Status
  <2>2. /\ \A f \in Ext : status[f] = "none" => state[f] = "none"
        /\ \A f \in Ext : state[f] = "running" => status[f] = "running"
    BY <1>s DEF Stoppable
  <2> HIDE DEF state
  <2>3. Running' \subseteq Running
    BY <1>s, <2>1, <2>2, DiscoveryEbbs
  <2> QED
    BY <1>4, <2>3 DEF RemoveExtension, Ebbs
<1>5. ASSUME ListExtensions PROVE Ebbs
  <2>1. Running' \subseteq Running
    BY <1>5, <1>s, DiscoveryEbbs DEF ListExtensions
  <2> QED
    BY <1>5, <2>1 DEF ListExtensions, Ebbs
<1>6. ASSUME NEW c \in Child, OnReady(c), c \in resolved PROVE Ebbs
  BY <1>6 DEF OnReady, Ebbs, Running
<1>7. ASSUME NEW c \in Child, OnError(c) \/ ReadyTimeout(c) \/ OnExit(c) PROVE Ebbs
  BY <1>7 DEF OnError, ReadyTimeout, OnExit, Ebbs, Running, TypeOK
<1>8. ASSUME NEW c \in Child, OnRegisterTool(c) \/ ChildStep(c) PROVE Ebbs
  <2>1. CASE OnRegisterTool(c)
    BY <2>1 DEF OnRegisterTool, Ebbs, Running
  <2>2. CASE ChildStep(c)
    <3>1. UNCHANGED hostVars
      BY <2>2 DEF ChildStep, ChildRegisters, ChildIsReady, ChildFails, ChildDies, ChildAnswers
    <3> QED
      BY <3>1 DEF Ebbs, Running
  <2> QED
    BY <1>8, <2>1, <2>2
<1>9. ASSUME NEW i \in CallId,
             (\E c \in Child : OnResult(c, i)) \/ CallTimeout(i) \/ (\E e \in Ext : CallTool(e, i))
      PROVE  Ebbs
  BY <1>9 DEF OnResult, CallTimeout, CallTool, Ebbs, Running
<1>10. ASSUME NEW n \in Dir, DirectoryAppears(n) \/ DirectoryDisappears(n) PROVE Ebbs
  BY <1>10 DEF DirectoryAppears, DirectoryDisappears, Ebbs, Running
<1>11. CASE StopAll \/ StopAllReturns \/ UNCHANGED vars
  BY <1>11 DEF StopAll, StopAllReturns, vars, Ebbs, Running
<1> QED
  BY <1>1, <1>2, <1>3, <1>4, <1>5, <1>6, <1>7, <1>8, <1>9, <1>10, <1>11
  DEF Next, Operation, Deliver

\* What a start changes.
LEMMA BeginEffect ==
    ASSUME TypeOK, ShapeInv, NEW e \in Ext, Begins(e)
    PROVE  /\ forks' \in Child \ Forked /\ Forked' = Forked \cup {forks'}
           /\ Starting' = Starting \cup {forks'} /\ Running' = {}
           /\ UNCHANGED <<known, resolved, exitSeen, readied, shutdown>>
           /\ \A c \in Forked : /\ c \in Child /\ c # forks' /\ extOf'[c] = extOf[c]
                                /\ life'[c] = life[c] /\ beside'[c] = beside[c]
           /\ extOf'[forks'] = e /\ beside'[forks'] = Starting
           /\ \A f \in Ext : process'[f] = IF f = e THEN forks' ELSE process[f]
           /\ \A f \in Ext : status'[f] = IF f = e THEN "starting" ELSE status[f]
<1>1. /\ forks' \in Child \ Forked /\ Forked' = Forked \cup {forks'}
      /\ \A c \in Forked : c \in Child /\ c # forks'
  BY HostAssumption DEF Begins, Fork, TypeOK, Forked, Child
<1>2. /\ UNCHANGED <<known, resolved, exitSeen, readied, shutdown>>
      /\ \A c \in Forked : /\ extOf'[c] = extOf[c] /\ life'[c] = life[c]
                           /\ beside'[c] = beside[c]
      /\ extOf'[forks'] = e /\ beside'[forks'] = Starting
      /\ \A f \in Ext : process'[f] = IF f = e THEN forks' ELSE process[f]
      /\ \A f \in Ext : status'[f] = IF f = e THEN "starting" ELSE status[f]
  BY <1>1 DEF Begins, Fork, TypeOK
<1>3. Starting' = Starting \cup {forks'}
  BY <1>1, <1>2 DEF Starting, TypeOK
<1>4. Running' = {}
  BY <1>2 DEF Begins, Running, TypeOK
<1> QED
  BY <1>1, <1>2, <1>3, <1>4

\* What a "ready" that answers a start changes.
LEMMA ReadyEffect ==
    ASSUME TypeOK, ShapeInv, NEW c \in Child, c \notin resolved, OnReady(c)
    PROVE  /\ c \in Starting /\ extOf[c] \in Ext
           /\ resolved' = resolved \cup {c} /\ readied' = readied \cup {c}
           /\ UNCHANGED <<forks, extOf, life, exitSeen, beside, process, signal, shutdown>>
           /\ status'[extOf[c]] = "running"
           /\ \A f \in Ext : f # extOf[c] =>
                 /\ status[f] # "none" => status'[f] = status[f]
                 /\ status'[f] = "running" => status[f] = "running"
           /\ \A f \in known' : f \in known \/ status'[f] = "discovered"
           /\ \A f \in known :
                 \/ f \in known'
                 \/ /\ f # extOf[c] /\ status[f] # "running"
                    /\ status[f] = "starting" => process[f] \in strayed'
           /\ strayed \subseteq strayed'
<1> DEFINE state == [status EXCEPT ![extOf[c]] = "running"]
<1>1. c \in Forked /\ extOf[c] \in Ext /\ status[extOf[c]] # "none"
  BY TakeShape DEF OnReady, ShapeInv
<1>2. /\ discoverAll(onDisk, known, state)
      /\ resolved' = resolved \cup {c} /\ readied' = readied \cup {c}
      /\ UNCHANGED <<forks, extOf, life, exitSeen, beside, process, signal, shutdown>>
  BY DEF OnReady, childVars
<1>3. /\ onDisk \in SUBSET Dir /\ known \in SUBSET known /\ state \in [Ext -> Status]
      /\ state[extOf[c]] = "running"
      /\ \A f \in Ext : f # extOf[c] => state[f] = status[f]
  BY <1>1 DEF TypeOK, Status
<1>4. \A f \in Ext : status[f] = "none" => state[f] = "none"
  BY <1>1, <1>3
<1> HIDE DEF state
<1>5. /\ \A f \in Ext : status[f] # "none" => status'[f] = state[f]
      /\ \A f \in Ext : status'[f] = "running" => state[f] = "running"
      /\ \A f \in known' : f \in known \/ status'[f] = "discovered"
      /\ \A f \in known :
            f \in known' \/ (/\ state[f] # "running"
                             /\ state[f] = "starting" => process[f] \in strayed')
      /\ strayed \subseteq strayed'
  BY <1>2, <1>3, <1>4, DiscoverEffect DEF ShapeInv
<1>6. known \subseteq Ext
  BY DEF TypeOK
<1> QED
  BY <1>1, <1>2, <1>3, <1>5, <1>6 DEF Starting

-----------------------------------------------------------------------------
(* One extension at a time, but for starts that overlap.                   *)

LEMMA OverlapStep ==
    ASSUME TypeOK, ShapeInv, OverlapInv, [Next]_vars, readied \subseteq Forked
    PROVE  OverlapInv'
<1>1. /\ \A c, d \in Starting : extOf[c] # extOf[d] => Overlap(c, d)
      /\ \A e \in Running : \A c \in Starting :
            extOf[c] # e => \E d \in readied : extOf[d] = e /\ Overlap(c, d)
      /\ \A e, f \in Running : e # f =>
            \E c, d \in readied : extOf[c] = e /\ extOf[d] = f /\ Overlap(c, d)
  BY DEF OverlapInv, OneAtATimeButForOverlaps, Overlap
<1>2. ASSUME NEW e \in Ext, Begins(e) PROVE OverlapInv'
  <2>1. /\ Starting' = Starting \cup {forks'} /\ Running' = {} /\ beside'[forks'] = Starting
        /\ \A c \in Starting : extOf'[c] = extOf[c] /\ beside'[c] = beside[c]
    BY <1>2, BeginEffect DEF Starting
  <2>2. \A c, d \in Starting' : extOf'[c] # extOf'[d] => Overlap(c, d)'
    BY <1>1, <2>1 DEF Overlap
  <2> QED
    BY <2>1, <2>2 DEF OverlapInv, OneAtATimeButForOverlaps
<1>3. ASSUME NEW c \in Child, c \notin resolved, OnReady(c) PROVE OverlapInv'
  <2>1. /\ c \in Starting /\ Starting' \subseteq Starting /\ readied' = readied \cup {c}
        /\ UNCHANGED <<extOf, beside>>
    BY <1>3, ReadyEffect DEF Starting, Forked
  <2>2. \A f \in Running' : f # extOf[c] => f \in Running
    BY <1>3, ReadyEffect DEF Running, TypeOK
  <2>3. \A a, b \in Child : Overlap(a, b)' <=> Overlap(a, b)
    BY <2>1 DEF Overlap
  <2>4. /\ \A a, b \in Starting' : extOf[a] # extOf[b] => Overlap(a, b)'
        /\ \A f \in Running' : \A a \in Starting' :
              extOf[a] # f => \E d \in readied' : extOf[d] = f /\ Overlap(a, d)'
        /\ \A f, g \in Running' : f # g =>
              \E a, d \in readied' : extOf[a] = f /\ extOf[d] = g /\ Overlap(a, d)'
    BY <1>1, <2>1, <2>2 DEF Overlap
  <2> QED
    BY <2>1, <2>4 DEF OverlapInv, OneAtATimeButForOverlaps, Overlap
<1>4. CASE Ebbs
  <2>1. /\ Running' \subseteq Running /\ Starting' \subseteq Starting
        /\ readied \subseteq readied' /\ UNCHANGED <<extOf, beside>>
    BY <1>4 DEF Ebbs, Starting, Forked
  <2> QED
    BY <1>1, <2>1 DEF OverlapInv, OneAtATimeButForOverlaps, Overlap
<1> QED
  BY <1>2, <1>3, <1>4, StepKinds

LEMMA OverlapInit == Init => OverlapInv
<1> SUFFICES ASSUME Init PROVE OverlapInv
  OBVIOUS
<1>1. Starting = {}
  BY DEF Init, Starting, Forked
<1>2. Running = {}
  BY ShapeInit DEF Init, Running, TypeOK
<1> QED
  BY <1>1, <1>2 DEF OverlapInv, OneAtATimeButForOverlaps

\* Two extensions run together only when the start of one was unanswered as the other
\* was forked: no stop, restart, crash, removal, discovery or late callback gets past
\* the test of startExtension in another way (extension-host.ts:203-216), for any
\* number of extensions and children.
THEOREM OneExtensionAtATime == SafeSpec => []OneAtATimeButForOverlaps
<1> DEFINE I == TypeOK /\ ShapeInv /\ OverlapInv
<1>1. Init => I
  BY ShapeInit, OverlapInit
<1>2. I /\ [Next]_vars => I'
  BY ShapeStep, OverlapStep DEF TypeOK
<1>3. I => OneAtATimeButForOverlaps
  BY DEF OverlapInv
<1> QED
  BY <1>1, <1>2, <1>3, PTL DEF SafeSpec

-----------------------------------------------------------------------------
(* No child out of reach.                                                  *)

\* A start keeps the children in sight when it loses or signals those of its extension.
LEMMA BeginSight ==
    ASSUME TypeOK, ShapeInv, SightInv, NEW e \in Ext, Begins(e),
           strayed \subseteq strayed', strayed' \subseteq Forked,
           \A d \in Child : signal'[d] = "none" => signal[d] = "none",
           \A d \in Child :
              InSight(d) /\ extOf[d] = e => d \in strayed' \/ signal'[d] # "none"
    PROVE  SightInv'
<1>1. /\ forks' \in Child \ Forked /\ Forked' = Forked \cup {forks'}
      /\ Starting' = Starting \cup {forks'}
      /\ UNCHANGED <<known, resolved, exitSeen, readied, shutdown>>
      /\ \A c \in Forked : /\ c \in Child /\ c # forks' /\ extOf'[c] = extOf[c]
                           /\ life'[c] = life[c]
      /\ extOf'[forks'] = e
      /\ \A f \in Ext : process'[f] = IF f = e THEN forks' ELSE process[f]
      /\ \A f \in Ext : status'[f] = IF f = e THEN "starting" ELSE status[f]
      /\ e \in known
  BY BeginEffect DEF Begins
<1>2. /\ Starting \subseteq Forked /\ readied \subseteq Forked /\ resolved \subseteq Forked
      /\ \A c \in Forked : extOf[c] \in Ext
  BY DEF Starting, TypeOK, ShapeInv, ChildrenInv
<1>3. ASSUME NEW c \in Child, InSight(c)'
      PROVE  /\ process'[extOf'[c]] = c
             /\ \/ status'[extOf'[c]] = "running"
                \/ c \in Starting' /\ status'[extOf'[c]] = "starting"
             /\ extOf'[c] \in known' \/ shutdown' = "done"
  <2>1. CASE c = forks'
    BY <1>1, <2>1
  <2>2. CASE c # forks'
    <3>1. InSight(c) /\ c \notin strayed' /\ signal'[c] = "none" /\ c \in Forked
      BY <1>1, <1>2, <1>3, <2>2 DEF InSight
    <3>2. extOf[c] # e /\ extOf'[c] = extOf[c] /\ extOf[c] \in Ext
      BY <1>1, <1>2, <3>1
    <3> QED
      BY <1>1, <3>1, <3>2 DEF SightInv
  <2> QED
    BY <2>1, <2>2
<1>4. \A c \in resolved' \ readied' : life'[c] = "dead" \/ signal'[c] # "none"
  BY <1>1, <1>2 DEF SightInv, TypeOK
<1> QED
  BY <1>1, <1>3, <1>4 DEF SightInv

\* A step that answers no start with "ready" keeps the children in sight when it
\* leaves the entries of those it does not lose, signal or hear the exit of.
LEMMA KeepSight ==
    ASSUME TypeOK, ShapeInv, SightInv, UNCHANGED <<forks, extOf, readied>>,
           resolved \subseteq resolved', resolved' \subseteq Forked,
           exitSeen \subseteq exitSeen', strayed \subseteq strayed',
           \A d \in Child : signal'[d] = "none" => signal[d] = "none",
           \A d \in Child : life[d] = "dead" => life'[d] = "dead",
           \A d \in resolved' \ resolved : life'[d] = "dead" \/ signal'[d] # "none",
           shutdown = "done" => shutdown' = "done",
           \A d \in Child : InSight(d) /\ InSight(d)' =>
              /\ process'[extOf[d]] = process[extOf[d]]
              /\ status'[extOf[d]] = status[extOf[d]]
              /\ extOf[d] \in known => extOf[d] \in known' \/ shutdown' = "done"
    PROVE  SightInv'
<1>1. /\ Starting' \subseteq Starting /\ \A d \in Starting : d \notin resolved
      /\ resolved \subseteq Child /\ readied \subseteq resolved
      /\ resolved' \subseteq Child
  BY HostAssumption DEF Starting, Forked, TypeOK, SightInv, Child
<1>2. ASSUME NEW c \in Child, InSight(c)'
      PROVE  /\ process'[extOf'[c]] = c
             /\ \/ status'[extOf'[c]] = "running"
                \/ c \in Starting' /\ status'[extOf'[c]] = "starting"
             /\ extOf'[c] \in known' \/ shutdown' = "done"
  <2>1. InSight(c)
    BY <1>1, <1>2 DEF InSight
  <2>2. c \in Starting => c \in Starting'
    BY <1>1, <1>2 DEF InSight
  <2> QED
    BY <1>2, <2>1, <2>2 DEF SightInv
<1>3. \A c \in resolved' \ readied' : life'[c] = "dead" \/ signal'[c] # "none"
  BY <1>1 DEF SightInv
<1> QED
  BY <1>1, <1>2, <1>3 DEF SightInv

\* A start that succeeds.
LEMMA ReadySight ==
    ASSUME TypeOK, ShapeInv, SightInv, NEW c \in Child, c \notin resolved, OnReady(c)
    PROVE  SightInv'
<1>1. /\ c \in Starting /\ extOf[c] \in Ext
      /\ resolved' = resolved \cup {c} /\ readied' = readied \cup {c}
      /\ UNCHANGED <<forks, extOf, life, exitSeen, process, signal, shutdown>>
      /\ status'[extOf[c]] = "running"
      /\ \A f \in Ext : f # extOf[c] /\ status[f] # "none" => status'[f] = status[f]
      /\ \A f \in known :
            \/ f \in known'
            \/ /\ f # extOf[c] /\ status[f] # "running"
               /\ status[f] = "starting" => process[f] \in strayed'
      /\ strayed \subseteq strayed'
  BY ReadyEffect
<1>2. /\ Starting' = Starting \ {c} /\ Starting \subseteq Forked /\ readied \subseteq Forked
      /\ \A d \in Forked : extOf[d] \in Ext /\ status[extOf[d]] # "none"
  BY <1>1 DEF Starting, Forked, TypeOK, ShapeInv, ChildrenInv
<1>3. ASSUME NEW d \in Child, InSight(d)'
      PROVE  /\ process'[extOf'[d]] = d
             /\ \/ status'[extOf'[d]] = "running"
                \/ d \in Starting' /\ status'[extOf'[d]] = "starting"
             /\ extOf'[d] \in known' \/ shutdown' = "done"
  <2>1. InSight(d) /\ d \notin strayed'
    BY <1>1, <1>2, <1>3 DEF InSight
  <2>2. d \in Forked
    BY <1>2, <2>1 DEF InSight
  <2>3. /\ process[extOf[d]] = d
        /\ \/ status[extOf[d]] = "running"
           \/ d \in Starting /\ status[extOf[d]] = "starting"
        /\ extOf[d] \in known \/ shutdown = "done"
    BY <2>1 DEF SightInv
  <2>4. CASE extOf[d] = extOf[c]
    BY <1>1, <2>3, <2>4
  <2>5. CASE extOf[d] # extOf[c]
    <3>1. status'[extOf[d]] = status[extOf[d]] /\ d # c
      BY <1>1, <1>2, <2>2, <2>5
    <3>2. d \in Starting => d \in Starting'
      BY <1>2, <3>1
    <3> QED
      BY <1>1, <2>1, <2>3, <3>1, <3>2
  <2> QED
    BY <2>4, <2>5
<1>4. /\ readied' \subseteq resolved'
      /\ \A d \in resolved' \ readied' : life'[d] = "dead" \/ signal'[d] # "none"
  BY <1>1 DEF SightInv
<1> QED
  BY <1>3, <1>4 DEF SightInv

\* A callback of child c that marks its extension crashed loses the other children of it.
LEMMA CrashSpares ==
    ASSUME TypeOK, ShapeInv, SightInv, NEW c \in Child, NEW d \in Child,
           InSight(d), d # c, d \notin Misjudged(c)
    PROVE  extOf[d] # extOf[c]
<1>1. process[extOf[d]] = d /\ d # None
  BY HostAssumption DEF SightInv, Child
<1> QED
  BY <1>1 DEF Misjudged

LEMMA SightStep ==
    ASSUME TypeOK, ShapeInv, SightInv, [Next]_vars, TypeOK'
    PROVE  SightInv'
<1> USE DEF childVars, callVars, history, hostVars
<1>s. /\ EntriesInv /\ status \in [Ext -> Status] /\ known \in SUBSET known
      /\ onDisk \in SUBSET Dir /\ known \subseteq Ext
      /\ resolved \subseteq Forked /\ strayed \subseteq Forked
      /\ \A e \in Ext : process[e] \in Child \cup {None}
      /\ \A c \in Forked : c \in Child /\ extOf[c] \in Ext /\ status[extOf[c]] # "none"
  BY HostAssumption DEF ShapeInv, ChildrenInv, TypeOK, Status, Forked, Child
<1>i. ASSUME NEW d \in Child, InSight(d)
      PROVE  /\ d \in Forked /\ process[extOf[d]] = d /\ d # None
             /\ \/ status[extOf[d]] = "running"
                \/ d \in Starting /\ status[extOf[d]] = "starting"
             /\ extOf[d] \in known \/ shutdown = "done"
  BY <1>i, HostAssumption DEF SightInv, InSight, Starting, TypeOK, Child
<1>1. ASSUME NEW e \in Ext, StartExtension(e) PROVE SightInv'
  <2>1. /\ Begins(e) /\ strayed' = strayed \cup Abandons(e) /\ signal' = signal
        /\ status[e] # "running"
    BY <1>1 DEF StartExtension, MayStart, Begins
  <2>2. strayed' \subseteq Forked
    BY <1>s, <2>1, Strays
  <2>3. \A d \in Child : InSight(d) /\ extOf[d] = e => d \in strayed'
    BY <1>i, <2>1 DEF Abandons
  <2> QED
    BY <2>1, <2>2, <2>3, BeginSight
<1>2. ASSUME NEW e \in Ext, RestartExtension(e) PROVE SightInv'
  <2>1. /\ Begins(e) /\ strayed' = strayed /\ signal' = Terminate(process[e])
    BY <1>2 DEF RestartExtension, MayStart, Begins
  <2>2. \A d \in Child : signal'[d] = "none" => signal[d] = "none" /\ d # process[e]
    BY <1>s, <2>1, TerminateTells DEF TypeOK
  <2>3. \A d \in Child : InSight(d) /\ extOf[d] = e => signal'[d] # "none"
    BY <1>i, <2>2
  <2> QED
    BY <1>s, <2>1, <2>2, <2>3, BeginSight
<1>3. ASSUME NEW e \in Ext, InstallFails(e) PROVE SightInv'
  <2>1. /\ status[e] # "running" /\ strayed' = strayed \cup Abandons(e)
        /\ \A f \in Ext : f # e => status'[f] = status[f]
        /\ UNCHANGED <<known, process, signal, resolved, shutdown, forks, extOf, life,
                       exitSeen, readied>>
    BY <1>3 DEF InstallFails, TypeOK
  <2>2. ASSUME NEW d \in Child, InSight(d), InSight(d)'
        PROVE  status'[extOf[d]] = status[extOf[d]]
    <3>1. d \notin strayed'
      BY <2>2 DEF InSight
    <3>2. extOf[d] # e
      BY <1>i, <2>1, <2>2, <3>1 DEF Abandons
    <3> QED
      BY <1>i, <1>s, <2>1, <2>2, <3>2
  <2> QED
    BY <1>s, <2>1, <2>2, KeepSight
<1>4. ASSUME NEW e \in Ext, StopExtension(e) PROVE SightInv'
  <2>1. /\ signal' = Terminate(process[e])
        /\ \A f \in Ext : f # e => status'[f] = status[f] /\ process'[f] = process[f]
        /\ UNCHANGED <<known, resolved, shutdown, forks, extOf, life, exitSeen, readied,
                       strayed>>
    BY <1>4 DEF StopExtension, TypeOK
  <2>2. \A d \in Child : signal'[d] = "none" => signal[d] = "none" /\ d # process[e]
    <3>1. process[e] \in Child \cup {None}
      BY <1>s
    <3> QED
      BY <2>1, <3>1, TerminateTells DEF TypeOK
  <2>3. ASSUME NEW d \in Child, InSight(d), InSight(d)'
        PROVE  /\ process'[extOf[d]] = process[extOf[d]]
               /\ status'[extOf[d]] = status[extOf[d]]
    <3>1. signal'[d] = "none"
      BY <2>3 DEF InSight
    <3>2. extOf[d] # e /\ extOf[d] \in Ext
      BY <1>i, <1>s, <2>2, <2>3, <3>1
    <3> QED
      BY <2>1, <3>2
  <2> QED
    BY <1>s, <2>1, <2>2, <2>3, KeepSight
<1>5. ASSUME NEW e \in Ext, RemoveExtension(e) PROVE SightInv'
  <2> DEFINE state == IF Stoppable(e) THEN [status EXCEPT ![e] = "stopped"] ELSE status
  <2>1. /\ onDisk' \in SUBSET Dir /\ known \ {e} \in SUBSET known
        /\ state \in [Ext -> Status]
        /\ discoverAll(onDisk', known \ {e}, state)
        /\ e \in known
        /\ UNCHANGED <<resolved, shutdown, forks, extOf, life, exitSeen, readied>>
    BY <1>5, <1>s DEF RemoveExtension, Status
  <2>2. /\ \A f \in Ext : status[f] = "none" => state[f] = "none"
        /\ \A f \in Ext : f # e => state[f] = status[f]
    BY <1>s DEF Stoppable
  <2>3. /\ \A d \in Child : signal'[d] = "none" => signal[d] = "none"
        /\ Stoppable(e) => \A d \in Child : signal'[d] = "none" => d # process[e]
        /\ \A f \in Ext : f # e => process'[f] = process[f]
    BY <1>5, <1>s, TerminateTells DEF RemoveExtension, TypeOK
  <2> HIDE DEF state
  <2>4. /\ \A f \in Ext : status[f] # "none" => status'[f] = state[f]
        /\ \A f \in Ext : status'[f] = "running" => state[f] = "running"
        /\ \A f \in known' : f \in known \ {e} \/ status'[f] = "discovered"
        /\ \A f \in known \ {e} :
              f \in known' \/ (/\ state[f] # "running"
                               /\ state[f] = "starting" => process[f] \in strayed')
        /\ strayed \subseteq strayed'
    BY <1>s, <2>1, <2>2, DiscoverEffect
  <2>5. ASSUME NEW d \in Child, InSight(d), InSight(d)'
        PROVE  /\ process'[extOf[d]] = process[extOf[d]]
               /\ status'[extOf[d]] = status[extOf[d]]
               /\ extOf[d] \in known => extOf[d] \in known' \/ shutdown' = "done"
    <3>1. signal'[d] = "none" /\ d \notin strayed'
      BY <2>5 DEF InSight
    <3>2. extOf[d] \in Ext /\ status[extOf[d]] # "none"
      BY <1>i, <1>s, <2>5
    <3>3. extOf[d] # e
      BY <1>i, <2>1, <2>3, <2>5, <3>1 DEF Stoppable
    <3> QED
      BY <1>i, <2>2, <2>3, <2>4, <2>5, <3>1, <3>2, <3>3
  <2> QED
    BY <1>s, <2>1, <2>3, <2>4, <2>5, KeepSight
<1>6. ASSUME ListExtensions PROVE SightInv'
  <2>1. /\ discoverAll(onDisk, known, status)
        /\ UNCHANGED <<process, signal, resolved, shutdown, forks, extOf, life, exitSeen,
                       readied>>
    BY <1>6 DEF ListExtensions
  <2>2. /\ \A f \in Ext : status[f] # "none" => status'[f] = status[f]
        /\ \A f \in Ext : status'[f] = "running" => status[f] = "running"
        /\ \A f \in known' : f \in known \/ status'[f] = "discovered"
        /\ \A f \in known :
              f \in known' \/ (/\ status[f] # "running"
                               /\ status[f] = "starting" => process[f] \in strayed')
        /\ strayed \subseteq strayed'
    BY <1>s, <2>1, DiscoverEffect
  <2>3. ASSUME NEW d \in Child, InSight(d), InSight(d)'
        PROVE  /\ status'[extOf[d]] = status[extOf[d]]
               /\ extOf[d] \in known => extOf[d] \in known'
    <3>1. d \notin strayed'
      BY <2>3 DEF InSight
    <3> QED
      BY <1>i, <1>s, <2>2, <2>3, <3>1
  <2> QED
    BY <1>s, <2>1, <2>2, <2>3, KeepSight
<1>7. ASSUME NEW c \in Child, OnReady(c) PROVE SightInv'
  <2>1. CASE c \in resolved
    BY <1>7, <1>s, <2>1, KeepSight DEF OnReady
  <2>2. CASE c \notin resolved
    BY <1>7, <2>2, ReadySight
  <2> QED
    BY <2>1, <2>2
<1>8. ASSUME NEW c \in Child, OnError(c) \/ ReadyTimeout(c) \/ OnExit(c) PROVE SightInv'
  <2>1. c \in Forked
    BY <1>8, TakeShape DEF OnError, ReadyTimeout, OnExit, Starting, ShapeInv
  <2>2. /\ UNCHANGED <<known, process, shutdown, forks, extOf, life, readied>>
        /\ resolved' = resolved \cup {c} /\ exitSeen \subseteq exitSeen'
        /\ strayed \subseteq strayed'
        /\ \A d \in Child : signal'[d] = "none" => signal[d] = "none"
    BY <1>8 DEF OnError, ReadyTimeout, OnExit, TypeOK
  <2>3. c \notin resolved => life[c] = "dead" \/ signal'[c] # "none"
    <3>1. CASE OnError(c)
      BY <3>1, TakeShape DEF OnError, ShapeInv
    <3>2. CASE ReadyTimeout(c)
      BY <3>2 DEF ReadyTimeout, TypeOK
    <3>3. CASE OnExit(c)
      BY <3>3 DEF OnExit
    <3> QED
      BY <1>8, <3>1, <3>2, <3>3
  <2>4. \/ status' = status
        \/ /\ \A f \in Ext : f # extOf[c] => status'[f] = status[f]
           /\ Misjudged(c) \subseteq strayed'
           /\ c \in resolved => c \in exitSeen'
    BY <1>8 DEF OnError, ReadyTimeout, OnExit, Starting, TypeOK
  <2>5. ASSUME NEW d \in Child, InSight(d), InSight(d)'
        PROVE  status'[extOf[d]] = status[extOf[d]]
    <3>1. d \notin strayed' /\ d \notin exitSeen' /\ signal'[d] = "none" /\ extOf[d] \in Ext
      BY <1>i, <1>s, <2>5 DEF InSight
    <3>2. d = c => c \in resolved
      <4>1. d \in (Starting \cup readied)'
        BY <2>5 DEF InSight
      <4> QED
        BY <2>2, <4>1 DEF Starting, SightInv
    <3>3. CASE status' = status
      BY <3>3
    <3>4. CASE status' # status
      <4>1. d # c /\ d \notin Misjudged(c)
        BY <2>4, <3>1, <3>2, <3>4
      <4>2. extOf[d] # extOf[c]
        BY <2>5, <4>1, CrashSpares
      <4> QED
        BY <2>4, <3>1, <3>4, <4>2
    <3> QED
      BY <3>3, <3>4
  <2> QED
    BY <1>s, <2>1, <2>2, <2>3, <2>5, KeepSight
<1>9. ASSUME NEW c \in Child, OnRegisterTool(c) \/ \E i \in CallId : OnResult(c, i)
      PROVE  SightInv'
  BY <1>9, <1>s, KeepSight DEF OnRegisterTool, OnResult
<1>10. ASSUME NEW c \in Child, ChildStep(c) PROVE SightInv'
  <2>1. UNCHANGED hostVars /\ \A d \in Child : life[d] = "dead" => life'[d] = "dead"
    BY <1>10 DEF ChildStep, ChildRegisters, ChildIsReady, ChildFails, ChildDies, ChildAnswers,
                 Alive, TypeOK
  <2> QED
    BY <1>s, <2>1, KeepSight
<1>11. ASSUME NEW i \in CallId, CallTimeout(i) \/ \E e \in Ext : CallTool(e, i)
       PROVE  SightInv'
  BY <1>11, <1>s, KeepSight DEF CallTimeout, CallTool
<1>12. ASSUME NEW n \in Dir, DirectoryAppears(n) \/ DirectoryDisappears(n) PROVE SightInv'
  BY <1>12, <1>s, KeepSight DEF DirectoryAppears, DirectoryDisappears
<1>13. CASE StopAll
  <2>1. \A d \in Child : signal'[d] = "none" => signal[d] = "none"
    BY <1>13 DEF StopAll
  <2> QED
    BY <1>13, <1>s, <2>1, KeepSight DEF StopAll
<1>14. CASE StopAllReturns
  BY <1>14, <1>s, KeepSight DEF StopAllReturns
<1>15. CASE UNCHANGED vars
  BY <1>15, <1>s, KeepSight DEF vars
<1> QED
  BY <1>1, <1>2, <1>3, <1>4, <1>5, <1>6, <1>7, <1>8, <1>9, <1>10, <1>11, <1>12, <1>13,
     <1>14, <1>15
  DEF Next, Operation, Deliver

LEMMA SightInit == Init => SightInv
BY DEF Init, SightInv, InSight, Starting, Forked

\* A child that nobody asked to end is the process of its extension, which starts or
\* runs and is in the map, so "stop" reaches it, whatever is started, discovered,
\* removed, put back, stopped or restarted meanwhile; the host loses a child only in
\* the three ways that strayed names.
THEOREM NoChildOutOfReach == SafeSpec => []NoLostChild
<1> DEFINE I == TypeOK /\ ShapeInv /\ SightInv
<1>1. Init => I
  BY ShapeInit, SightInit
<1>2. I /\ [Next]_vars => I'
  BY ShapeStep, SightStep
<1>3. I => NoLostChild
  <2> SUFFICES ASSUME I, NEW c \in Forked \ strayed, Unharmed(c)
               PROVE  /\ extOf[c] \in known \/ shutdown = "done"
                      /\ process[extOf[c]] = c
                      /\ status[extOf[c]] \in {"starting", "running"}
    BY DEF NoLostChild
  <2>1. c \in Child /\ life[c] # "dead" /\ signal[c] = "none"
    BY HostAssumption DEF Forked, TypeOK, Child, Unharmed, Alive
  <2>2. c \notin exitSeen /\ c \in Starting \cup readied
    BY <2>1 DEF ShapeInv, ChildrenInv, SightInv, Starting
  <2> QED
    BY <2>1, <2>2 DEF SightInv, InSight
<1> QED
  BY <1>1, <1>2, <1>3, PTL DEF SafeSpec

\* The calls that wait for a child fail when its exit is handled, unless it was told to
\* end, is lost, or was never ready itself, whatever other children there are: the
\* extension is still "running" then, so the exit handler fails them.
THEOREM CrashesFailCalls == SafeSpec => CrashFailsCalls
<1> DEFINE I == TypeOK /\ ShapeInv /\ SightInv
           A == \A c \in (exitSeen' \ exitSeen) \cap (readied \ strayed) :
                   signal[c] = "none" =>
                       \A i \in Pending : callee[i] = c => call'[i] = "settled"
<1>1. Init => I
  BY ShapeInit, SightInit
<1>2. I /\ [Next]_vars => I'
  BY ShapeStep, SightStep
<1>3. I /\ [Next]_vars => [A]_vars
  <2> SUFFICES ASSUME I, Next, NEW c \in (exitSeen' \ exitSeen) \cap (readied \ strayed),
                      signal[c] = "none", NEW i \in Pending
               PROVE  call'[i] = "settled"
    OBVIOUS
  <2>1. PICK d \in Child : OnExit(d)
    BY DEF Next, Operation, Deliver, ChildStep, ListExtensions, DirectoryAppears,
           DirectoryDisappears, StartExtension, Fork, InstallFails, StopExtension,
           RestartExtension, RemoveExtension, CallTool, ChildRegisters, ChildIsReady,
           ChildFails, ChildDies, ChildAnswers, OnRegisterTool, OnReady, OnError, OnResult,
           ReadyTimeout, CallTimeout, StopAll, StopAllReturns, childVars, hostVars
  <2>2. c = d /\ c \in Child /\ c \in resolved /\ c \notin Starting
    BY <2>1 DEF OnExit, SightInv, Starting
  <2>3. status[extOf[c]] = "running"
    BY <2>2 DEF SightInv, InSight
  <2> QED
    BY <2>1, <2>2, <2>3 DEF OnExit, Pending
<1> QED
  BY <1>1, <1>2, <1>3, PTL DEF SafeSpec, CrashFailsCalls

-----------------------------------------------------------------------------
(* Running extensions are callable.                                        *)

\* What the registry holds of the other names stays.
LEMMA OthersStayRegistered ==
    ASSUME TypeOK, NEW e \in Ext, NEW f \in registry, NameOf[f] # NameOf[e]
    PROVE  f \in Unregister(e) /\ f \in Register(e)
BY DEF Unregister, Register, Named

\* A child is heard: its entry is registered, and others of its name are noted.
LEMMA HeardKeepsCallable ==
    ASSUME TypeOK, RunningIsCallable, NEW c \in Child, extOf[c] \in Ext,
           registry' = Register(extOf[c]),
           intruded' = (intruded \ {extOf[c]}) \cup Intruded(c),
           \A f \in Running' : f # extOf[c] => f \in Running
    PROVE  RunningIsCallable'
<1> SUFFICES ASSUME NEW f \in Running' PROVE f \in registry' \cup intruded'
  BY DEF RunningIsCallable
<1>1. CASE f = extOf[c]
  BY <1>1 DEF Register
<1>2. CASE f # extOf[c]
  <2>1. f \in Running /\ f \in Ext /\ status[f] = "running" /\ f \in registry \cup intruded
    BY <1>2 DEF Running, TypeOK, RunningIsCallable
  <2>2. CASE NameOf[f] = NameOf[extOf[c]]
    BY <1>2, <2>1, <2>2 DEF Intruded
  <2>3. CASE NameOf[f] # NameOf[extOf[c]]
    BY <1>2, <2>1, <2>3, OthersStayRegistered
  <2> QED
    BY <2>2, <2>3
<1> QED
  BY <1>1, <1>2

LEMMA CallableStep ==
    ASSUME TypeOK, ShapeInv, RunningIsCallable, [Next]_vars
    PROVE  RunningIsCallable'
<1> USE DEF childVars, callVars, history, hostVars
<1>1. \/ \E e \in Ext : Begins(e)
      \/ \E c \in Child : c \notin resolved /\ OnReady(c)
      \/ Ebbs
  BY StepKinds
<1>2. CASE \E e \in Ext : Begins(e)
  <2>1. Running' = {}
    BY <1>2, BeginEffect
  <2> QED
    BY <2>1 DEF RunningIsCallable
<1>3. ASSUME NEW c \in Child, c \notin resolved, OnReady(c) PROVE RunningIsCallable'
  <2>1. \A f \in Running' : f # extOf[c] => f \in Running
    BY <1>3, ReadyEffect DEF Running, TypeOK
  <2>2. /\ registry' = Register(extOf[c]) /\ extOf[c] \in Ext
        /\ intruded' = (intruded \ {extOf[c]}) \cup Intruded(c)
    BY <1>3, ReadyEffect DEF OnReady, RegisterTools
  <2> QED
    BY <2>1, <2>2, HeardKeepsCallable
<1>4. CASE Ebbs
  <2>0. Running' \subseteq Running /\ Running \subseteq registry \cup intruded
    BY <1>4 DEF Ebbs, RunningIsCallable
  <2>1. ASSUME NEW e \in Ext, StopExtension(e) \/ RemoveExtension(e) PROVE RunningIsCallable'
    <3>1. /\ e \in known /\ registry' \in {registry, Unregister(e)} /\ intruded' = intruded
      BY <2>1 DEF StopExtension, RemoveExtension, Stoppable
    <3>4. registry' = registry \/ status'[e] # "running"
      <4>1. CASE StopExtension(e)
        BY <4>1 DEF StopExtension, TypeOK
      <4>2. CASE RemoveExtension(e)
        BY <4>2 DEF RemoveExtension, discoverAll, TypeOK
      <4> QED
        BY <2>1, <4>1, <4>2
    <3> SUFFICES ASSUME NEW f \in Running' PROVE f \in registry' \cup intruded'
      BY DEF RunningIsCallable
    <3>2. CASE f = e
      BY <2>0, <3>1, <3>2, <3>4 DEF Running
    <3>3. CASE f # e
      <4>1. NameOf[f] # NameOf[e] /\ f \in registry \cup intruded
        BY <2>0, <3>1, <3>3 DEF Running, ShapeInv, EntriesInv
      <4> QED
        BY <3>1, <4>1, OthersStayRegistered
    <3> QED
      BY <3>2, <3>3
  <2>2. ASSUME NEW c \in Child, OnRegisterTool(c) PROVE RunningIsCallable'
    <3>1. extOf[c] \in Ext
      BY <2>2, TakeShape DEF OnRegisterTool, ShapeInv
    <3> QED
      BY <2>0, <2>2, <3>1, HeardKeepsCallable DEF OnRegisterTool, RegisterTools
  <2>3. ASSUME NEW c \in Child, OnExit(c) PROVE RunningIsCallable'
    <3>1. extOf[c] \in Ext /\ intruded' = intruded \cup Intruded(c)
      BY <2>3 DEF OnExit, ShapeInv, ChildrenInv
    <3>2. CASE registry' = registry
      BY <2>0, <3>1, <3>2 DEF RunningIsCallable
    <3>3. CASE registry' # registry
      <4>1. registry' = Unregister(extOf[c]) /\ status'[extOf[c]] = "crashed"
        BY <2>3, <3>1, <3>3 DEF OnExit, TypeOK
      <4> SUFFICES ASSUME NEW f \in Running' PROVE f \in registry' \cup intruded'
        BY DEF RunningIsCallable
      <4>2. f # extOf[c] /\ f \in Running /\ f \in Ext /\ status[f] = "running"
        BY <2>0, <4>1 DEF Running, TypeOK
      <4>3. CASE NameOf[f] = NameOf[extOf[c]]
        BY <3>1, <4>2, <4>3 DEF Intruded
      <4>4. CASE NameOf[f] # NameOf[extOf[c]]
        BY <2>0, <3>1, <4>1, <4>2, <4>4, OthersStayRegistered
      <4> QED
        BY <4>3, <4>4
    <3> QED
      BY <3>2, <3>3
  <2>4. CASE UNCHANGED <<registry, intruded>>
    BY <2>0, <2>4 DEF RunningIsCallable
  <2>5. ASSUME NEW e \in Ext, StartExtension(e) \/ RestartExtension(e) PROVE FALSE
    BY <1>4, <2>5 DEF StartExtension, RestartExtension, Fork, Ebbs, TypeOK
  <2>6. ASSUME NEW c \in Child, OnReady(c) PROVE RunningIsCallable'
    <3>1. CASE c \in resolved
      BY <2>4, <2>6, <3>1 DEF OnReady
    <3> QED
      BY <1>3, <2>6, <3>1
  <2>7. \/ \E e \in Ext : \/ StopExtension(e) \/ RemoveExtension(e)
                          \/ StartExtension(e) \/ RestartExtension(e)
        \/ \E c \in Child : OnRegisterTool(c) \/ OnExit(c) \/ OnReady(c)
        \/ UNCHANGED <<registry, intruded>>
    BY DEF Next, Operation, Deliver, ChildStep, ListExtensions, DirectoryAppears,
           DirectoryDisappears, InstallFails, CallTool, ChildRegisters, ChildIsReady,
           ChildFails, ChildDies, ChildAnswers, OnError, OnResult, ReadyTimeout,
           CallTimeout, StopAll, StopAllReturns, vars
  <2> QED
    BY <2>1, <2>2, <2>3, <2>4, <2>5, <2>6, <2>7
<1> QED
  BY <1>1, <1>2, <1>3, <1>4

\* The tools of a running extension are in the registry, however it came to run: by a
\* start, a restart, or a "ready" that arrives after a stop; but for one whose name a
\* child of an older entry was heard under, for any entries and children.
THEOREM RunningExtensionsAreCallable == SafeSpec => []RunningIsCallable
<1> DEFINE I == TypeOK /\ ShapeInv /\ RunningIsCallable
<1>1. Init => I
  <2>1. Init => Running = {}
    BY ShapeInit DEF Init, Running, TypeOK
  <2> QED
    BY <2>1, ShapeInit DEF RunningIsCallable
<1>2. I /\ [Next]_vars => I'
  BY ShapeStep, CallableStep
<1> QED
  BY <1>1, <1>2, PTL DEF SafeSpec
=============================================================================
