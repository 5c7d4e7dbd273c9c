--------------------------- MODULE SchedulerProofs ---------------------------
(***************************************************************************)
(* Proofs about Scheduler, for any jobs and schedules, any bound on the    *)
(* clock and any number of crashes.                                        *)
(***************************************************************************)
EXTENDS Scheduler, TLAPS, FiniteSetTheorems, WellFoundedInduction

(* Lemmas about the operators.                                             *)

\* A non-empty set of moments has a first one: among the sets 0..x of its
\* members, one has none of the others as a proper part.
LEMMA FirstMoment ==
    ASSUME NEW S \in SUBSET Nat, S # {}
    PROVE  Min(S) \in S /\ \A d \in S : Min(S) <= d
<1> DEFINE T == {0..x : x \in S}
<1>1. T \subseteq FiniteSubsetsOf(Nat)
  <2> SUFFICES ASSUME NEW x \in S PROVE 0..x \in FiniteSubsetsOf(Nat)
    OBVIOUS
  <2>1. IsFiniteSet(0..x)
    BY FS_Interval
  <2> QED
    BY <2>1 DEF FiniteSubsetsOf
<1>2. IsWellFoundedOn(StrictSubsetOrdering(Nat), FiniteSubsetsOf(Nat))
  BY FS_StrictSubsetOrderingWellFounded
<1>3. T # {}
  OBVIOUS
<1>4. PICK t \in T : \A u \in T : <<u, t>> \notin StrictSubsetOrdering(Nat)
  <2> HIDE DEF T
  <2> QED BY <1>1, <1>2, <1>3, WFMin
<1>5. PICK x \in S : t = 0..x
  OBVIOUS
<1>6. ASSUME NEW y \in S, y < x PROVE FALSE
  <2>1. 0..y \in T /\ 0..y \subseteq Nat /\ t \subseteq Nat
    BY <1>5
  <2>2. 0..y \subseteq t /\ x \in t /\ x \notin 0..y
    BY <1>5, <1>6
  <2>3. <<0..y, t>> \in StrictSubsetOrdering(Nat)
    BY <2>1, <2>2 DEF StrictSubsetOrdering
  <2> QED
    BY <1>4, <2>1, <2>3
<1>7. \A y \in S : x <= y
  BY <1>6
<1> QED
  BY <1>7 DEF Min

\* nextRun() is a moment after now, or there is none.
LEMMA NextDueType ==
    ASSUME NEW j \in Job, now \in Time
    PROVE  /\ NextDue(j) \in Time \cup {Never}
           /\ NextDue(j) > now
           /\ NextDue(j) # None
<1>1. Later(j, now) \subseteq Time /\ \A d \in Later(j, now) : d > now
  BY SchedulerAssumption DEF Later, Time
<1>2. CASE Later(j, now) = {}
  BY <1>2, SchedulerAssumption DEF NextDue, Never, Time
<1>3. CASE Later(j, now) # {}
  <2>1. Later(j, now) \in SUBSET Nat
    BY <1>1, SchedulerAssumption DEF Time
  <2>2. Min(Later(j, now)) \in Later(j, now)
    BY <1>3, <2>1, FirstMoment
  <2> QED
    BY <1>1, <1>3, <2>2, SchedulerAssumption DEF NextDue, Time
<1> QED
  BY <1>2, <1>3

\* arm gives a timer to exactly the jobs with a valid schedule.
LEMMA ArmType ==
    ASSUME NEW j \in Job, now \in Time
    PROVE  /\ arm(j) \in Time \cup {Never, None}
           /\ arm(j) # None <=> j \notin Invalid
           /\ arm(j) # None => arm(j) > now
BY NextDueType DEF arm

\* A save that works leaves in the file what it was given; one that fails
\* leaves the file as it was, or nothing that can be loaded.
LEMMA SaveJobsType ==
    ASSUME NEW J \in SUBSET Job, NEW E \in SUBSET Job, saveJobs(J, E)
    PROVE  /\ ~unsaved' => loadJobs' = Store(J, E)
           /\ loadJobs' \in {Store(J, E), Store({}, {}), loadJobs}
           /\ unsaved' \in BOOLEAN
<1>1. Store(J, E) # Corrupt
  BY SchedulerAssumption DEF Store
<1>2. CASE file' = Store(J, E) /\ unsaved' = FALSE
  BY <1>1, <1>2 DEF loadJobs
<1>3. CASE file' \in {file, Corrupt} /\ unsaved' = TRUE
  <2>1. loadJobs' \in {Store({}, {}), loadJobs}
    BY <1>3 DEF loadJobs
  <2> QED
    BY <1>3, <2>1
<1> QED
  BY <1>2, <1>3 DEF saveJobs
-----------------------------------------------------------------------------
(* Type correctness, with the two facts about stored jobs and a process    *)
(* that is down that make it inductive.                                    *)

\* What would be loaded are jobs that were added, the enabled ones among them.
StoreInv ==
    /\ loadJobs.jobs \subseteq added
    /\ loadJobs.enabled \subseteq loadJobs.jobs

\* Nothing is in memory when the process is down.
DownInv == ~up => jobs = {} /\ enabled = {}

\* A job has sent a message, or has been silenced, only if it was added.
KnownInv == silenced \subseteq added /\ \A j \in Job : fired[j] # {} => j \in added

BasicInv == TypeOK /\ TimersFollowJobs /\ StoreInv /\ DownInv /\ KnownInv

\* Before the first start the scheduler has no job, no timer and an empty file.
LEMMA BasicInit == Init => BasicInv
<1> SUFFICES ASSUME Init PROVE BasicInv
  OBVIOUS
<1>1. TypeOK
  <2>1. file \in [jobs : SUBSET Job, enabled : SUBSET Job]
    BY DEF Init, Store
  <2>2. now \in Time /\ crashes \in 0..MaxCrashes
    BY SchedulerAssumption DEF Init, Time
  <2>3. timers \in [Job -> Time \cup {Never, None}] /\ fired \in [Job -> SUBSET Time]
    BY DEF Init
  <2> QED
    BY <2>1, <2>2, <2>3 DEF Init, TypeOK
<1>2. loadJobs = Store({}, {})
  BY DEF Init, loadJobs
<1>3. StoreInv
  BY <1>2 DEF StoreInv, Store
<1>4. DownInv /\ KnownInv /\ TimersFollowJobs
  BY DEF Init, DownInv, KnownInv, TimersFollowJobs
<1> QED
  BY <1>1, <1>3, <1>4 DEF BasicInv

\* What the file may be, the last conjunct of TypeOK.
FileOK == file = Corrupt \/ file \in [jobs : SUBSET Job, enabled : SUBSET Job]

\* A save keeps the file loadable into known jobs.
LEMMA SaveKeepsStore ==
    ASSUME BasicInv, NEW J \in SUBSET Job, NEW E \in SUBSET Job, saveJobs(J, E),
           E \subseteq J, J \subseteq added', added \subseteq added'
    PROVE  StoreInv' /\ FileOK'
<1>1. FileOK'
  BY DEF saveJobs, FileOK, Store, BasicInv, TypeOK
<1>2. loadJobs' \in {Store(J, E), Store({}, {}), loadJobs}
  BY SaveJobsType
<1>3. CASE loadJobs' = Store(J, E)
  BY <1>1, <1>3 DEF StoreInv, Store
<1>4. CASE loadJobs' = Store({}, {})
  BY <1>1, <1>4 DEF StoreInv, Store
<1>5. CASE loadJobs' = loadJobs
  BY <1>1, <1>5 DEF StoreInv, BasicInv
<1> QED
  BY <1>1, <1>2, <1>3, <1>4, <1>5

\* A step that leaves file and additions alone keeps the store.
LEMMA QuietStore ==
    ASSUME BasicInv, UNCHANGED <<file, added>>
    PROVE  StoreInv' /\ FileOK' /\ loadJobs' = loadJobs
BY DEF BasicInv, StoreInv, FileOK, TypeOK, loadJobs

\* A file that was being written is empty when it is loaded.
LEMMA TornStore ==
    ASSUME file' = Corrupt
    PROVE  StoreInv' /\ FileOK' /\ loadJobs' = Store({}, {})
BY DEF StoreInv, FileOK, loadJobs, Store

\* Every operation, firing and crash keeps types, timers and store in agreement.
LEMMA BasicStep == BasicInv /\ [Next]_vars => BasicInv'
<1> SUFFICES ASSUME BasicInv, [Next]_vars PROVE BasicInv'
  OBVIOUS
<1> USE DEF BasicInv, TypeOK, FileOK, DownInv, KnownInv, TimersFollowJobs
<1>1. ASSUME Start PROVE BasicInv'
  <2>1. StoreInv' /\ FileOK'
    BY <1>1, QuietStore DEF Start
  <2>2. /\ loadJobs.jobs \subseteq added
        /\ loadJobs.enabled \subseteq loadJobs.jobs
    BY DEF StoreInv
  <2>3. /\ timers' \in [Job -> Time \cup {Never, None}]
        /\ TimersFollowJobs'
    BY <1>1, ArmType DEF Start
  <2>4. torn' \subseteq Job /\ silenced' \subseteq silenced
    BY <1>1 DEF Start
  <2> QED
    BY <1>1, <2>1, <2>2, <2>3, <2>4 DEF Start
<1>2. ASSUME Stop PROVE BasicInv'
  BY <1>2, QuietStore DEF Stop
<1>3. ASSUME Tick PROVE BasicInv'
  <2>1. now' \in Time
    BY <1>3, SchedulerAssumption DEF Tick, Time
  <2> QED
    BY <1>3, <2>1, QuietStore DEF Tick
<1>4. ASSUME Die PROVE crashes' \in 0..MaxCrashes
  BY <1>4, SchedulerAssumption DEF Die
<1>5. ASSUME Crash PROVE BasicInv'
  BY <1>4, <1>5, QuietStore DEF Crash, Die
<1>6. ASSUME CrashInSave PROVE BasicInv'
  BY <1>4, <1>6, TornStore DEF CrashInSave, Die
<1>7. ASSUME NEW j \in Job, AddJob(j) PROVE BasicInv'
  <2>1. /\ jobs' \subseteq Job /\ enabled' \subseteq Job /\ enabled' \subseteq jobs'
        /\ jobs' \subseteq added' /\ added \subseteq added' /\ added' \subseteq Job
    BY <1>7 DEF AddJob
  <2>2. StoreInv' /\ FileOK' /\ unsaved' \in BOOLEAN
    BY <1>7, <2>1, SaveKeepsStore, SaveJobsType DEF AddJob
  <2>3. /\ timers' \in [Job -> Time \cup {Never, None}]
        /\ TimersFollowJobs'
    BY <1>7, ArmType DEF AddJob
  <2> QED
    BY <1>7, <2>1, <2>2, <2>3 DEF AddJob
<1>8. ASSUME NEW j \in Job, RemoveJob(j) PROVE BasicInv'
  <2>1. /\ jobs' \subseteq Job /\ enabled' \subseteq Job /\ enabled' \subseteq jobs'
        /\ jobs' \subseteq added' /\ added' = added
    BY <1>8 DEF RemoveJob
  <2>2. StoreInv' /\ FileOK' /\ unsaved' \in BOOLEAN
    BY <1>8, <2>1, SaveKeepsStore, SaveJobsType DEF RemoveJob
  <2> QED
    BY <1>8, <2>1, <2>2 DEF RemoveJob, disarm
<1>9. ASSUME NEW j \in Job, NEW on \in BOOLEAN, ToggleJob(j, on) PROVE BasicInv'
  <2>1. /\ jobs' = jobs /\ enabled' \subseteq jobs' /\ added' = added
        /\ jobs' \subseteq added' /\ jobs \subseteq Job /\ enabled' \subseteq Job
    BY <1>9 DEF ToggleJob
  <2>2. StoreInv' /\ FileOK' /\ unsaved' \in BOOLEAN
    BY <1>9, <2>1, SaveKeepsStore, SaveJobsType DEF ToggleJob
  <2>3. /\ timers' \in [Job -> Time \cup {Never, None}]
        /\ TimersFollowJobs'
    BY <1>9, ArmType DEF ToggleJob, disarm
  <2>4. silenced' \subseteq added /\ UNCHANGED <<now, up, crashes, fired, torn>>
    BY <1>9 DEF ToggleJob
  <2>5. up
    BY <1>9 DEF ToggleJob
  <2> QED
    BY <2>1, <2>2, <2>3, <2>4, <2>5
<1>10. ASSUME NEW j \in Job, IsDue(j), SendMessage(j)
       PROVE  /\ fired' \in [Job -> SUBSET Time]
              /\ \A i \in Job : fired'[i] # {} => i \in added
              /\ j \in enabled /\ j \notin Invalid
  <2>1. timers[j] \in Time
    BY <1>10, SchedulerAssumption DEF IsDue, Never, Time
  <2> QED
    BY <1>10, <2>1 DEF SendMessage, IsDue
<1>11. ASSUME NEW j \in Job, Fire(j) PROVE BasicInv'
  <2>1. /\ fired' \in [Job -> SUBSET Time]
        /\ \A i \in Job : fired'[i] # {} => i \in added
        /\ j \in enabled /\ j \notin Invalid
    BY <1>10, <1>11 DEF Fire
  <2>2. /\ jobs' \subseteq Job /\ enabled' \subseteq Job /\ enabled' \subseteq jobs'
        /\ jobs' \subseteq added' /\ added' = added
    BY <1>11 DEF Fire
  <2>3. StoreInv' /\ FileOK' /\ unsaved' \in BOOLEAN
    BY <1>11, <2>2, SaveKeepsStore, SaveJobsType DEF Fire
  <2>4. /\ timers' \in [Job -> Time \cup {Never, None}]
        /\ TimersFollowJobs'
    BY <1>11, <2>1, NextDueType DEF Fire, disarm
  <2>5. UNCHANGED <<now, up, crashes, torn, silenced>> /\ up
    BY <1>11 DEF Fire, IsDue
  <2> QED
    BY <2>1, <2>2, <2>3, <2>4, <2>5
<1>12. ASSUME NEW j \in Job, CrashInFire(j) PROVE BasicInv'
  <2>1. /\ fired' \in [Job -> SUBSET Time]
        /\ \A i \in Job : fired'[i] # {} => i \in added
    BY <1>10, <1>12 DEF CrashInFire
  <2>2. StoreInv' /\ FileOK'
    BY <1>12, QuietStore, TornStore DEF CrashInFire, Die
  <2>3. crashes' \in 0..MaxCrashes
    BY <1>4, <1>12 DEF CrashInFire
  <2> QED
    BY <1>12, <2>1, <2>2, <2>3 DEF CrashInFire, Die
<1>13. CASE UNCHANGED vars
  BY <1>13, QuietStore DEF vars
<1> QED
  BY <1>1, <1>2, <1>3, <1>5, <1>6, <1>7, <1>8, <1>9, <1>11, <1>12, <1>13 DEF Next

\* The scheduler's state is well typed in every reachable state.
THEOREM TypeCorrect == SafeSpec => []TypeOK
<1>1. BasicInv => TypeOK
  BY DEF BasicInv
<1> QED
  BY <1>1, BasicInit, BasicStep, PTL DEF SafeSpec

\* Timers and enabled jobs agree for any jobs, schedules, failing writes and
\* crashes (scheduler.ts 43-192).
THEOREM TimersCorrect == SafeSpec => []TimersFollowJobs
<1>1. BasicInv => TimersFollowJobs
  BY DEF BasicInv
<1> QED
  BY <1>1, BasicInit, BasicStep, PTL DEF SafeSpec

-----------------------------------------------------------------------------
(* Memory and file.                                                        *)

\* Before the first start there is no process whose memory could differ.
LEMMA DiskInit == Init => MemoryIsOnDisk
BY DEF Init, MemoryIsOnDisk

\* Each operation that changes memory saves what it has changed it to.
LEMMA DiskStep ==
    BasicInv /\ BasicInv' /\ MemoryIsOnDisk /\ [Next]_vars => MemoryIsOnDisk'
<1> SUFFICES ASSUME BasicInv, BasicInv', MemoryIsOnDisk, [Next]_vars
             PROVE  MemoryIsOnDisk'
  OBVIOUS
<1> USE DEF MemoryIsOnDisk
<1>1. ASSUME NEW J \in SUBSET Job, NEW E \in SUBSET Job, saveJobs(J, E),
             jobs' = J, enabled' = E
      PROVE  MemoryIsOnDisk'
  BY <1>1, SaveJobsType
<1>2. jobs' \in SUBSET Job /\ enabled' \in SUBSET Job
  BY DEF BasicInv, TypeOK
<1>3. ASSUME Start PROVE MemoryIsOnDisk'
  <2>1. file = Corrupt \/ file \in [jobs : SUBSET Job, enabled : SUBSET Job]
    BY DEF BasicInv, TypeOK
  <2>2. loadJobs = Store(loadJobs.jobs, loadJobs.enabled)
    BY <2>1 DEF loadJobs, Store
  <2>3. loadJobs' = loadJobs
    BY <1>3 DEF Start, loadJobs
  <2> QED
    BY <1>3, <2>2, <2>3 DEF Start
<1>4. ASSUME Stop \/ Die PROVE MemoryIsOnDisk'
  BY <1>4 DEF Stop, Die
<1>5. ASSUME NEW j \in Job,
             \/ AddJob(j) \/ RemoveJob(j) \/ Fire(j)
             \/ \E on \in BOOLEAN : ToggleJob(j, on)
      PROVE  MemoryIsOnDisk'
  <2>1. saveJobs(jobs', enabled')
    BY <1>5 DEF AddJob, RemoveJob, Fire, ToggleJob
  <2> QED
    BY <1>1, <1>2, <2>1
<1>6. CASE Tick
  BY <1>6 DEF Tick, loadJobs
<1>7. CASE UNCHANGED vars
  BY <1>7 DEF vars, loadJobs
<1> QED
  BY <1>3, <1>4, <1>5, <1>6, <1>7 DEF Next, Crash, CrashInSave, CrashInFire

\* A restart loads what memory held, unless the last save failed or the crash
\* hit the write itself (scheduler.ts 94, 113, 130, 234; job-store.ts).
THEOREM JobsAreDurable == SafeSpec => []MemoryIsOnDisk
<1>1. BasicInv /\ MemoryIsOnDisk /\ [Next]_vars => (BasicInv /\ MemoryIsOnDisk)'
  BY BasicStep, DiskStep
<1>2. Init => BasicInv /\ MemoryIsOnDisk
  BY BasicInit, DiskInit
<1> QED
  BY <1>1, <1>2, PTL DEF SafeSpec

-----------------------------------------------------------------------------
(* Silence.                                                                *)

\* A silenced job is not enabled, and would not be after a restart.
SilenceInv ==
    /\ silenced \cap enabled = {}
    /\ ~unsaved => silenced \cap loadJobs.enabled = {}

\* Before the first start nobody was told that a job is silent.
LEMMA SilenceInit == Init => SilenceInv
BY DEF Init, SilenceInv

\* A silenced job is enabled neither in memory nor, once saved, in the file.
LEMMA SilenceStep ==
    BasicInv /\ BasicInv' /\ MemoryIsOnDisk' /\ SilenceInv /\ [Next]_vars => SilenceInv'
<1> SUFFICES ASSUME BasicInv, BasicInv', MemoryIsOnDisk', SilenceInv, [Next]_vars
             PROVE  SilenceInv'
  OBVIOUS
<1>1. ASSUME up', silenced' \cap enabled' = {} PROVE SilenceInv'
  BY <1>1 DEF SilenceInv, MemoryIsOnDisk, Store
<1>2. CASE Start
  <2>1. silenced' \cap loadJobs.enabled = {}
    BY <1>2 DEF Start, SilenceInv
  <2> QED
    BY <1>1, <1>2, <2>1 DEF Start
<1>3. ASSUME NEW j \in Job, AddJob(j) PROVE SilenceInv'
  <2>1. j \notin silenced
    BY <1>3 DEF AddJob, BasicInv, KnownInv
  <2> QED
    BY <1>1, <1>3, <2>1 DEF AddJob, SilenceInv
<1>4. ASSUME NEW j \in Job, RemoveJob(j) PROVE SilenceInv'
  BY <1>1, <1>4 DEF RemoveJob, SilenceInv
<1>5. ASSUME NEW j \in Job, NEW on \in BOOLEAN, ToggleJob(j, on) PROVE SilenceInv'
  BY <1>1, <1>5 DEF ToggleJob, SilenceInv
<1>6. ASSUME NEW j \in Job, Fire(j) PROVE SilenceInv'
  BY <1>1, <1>6 DEF Fire, IsDue, SilenceInv
<1>7. ASSUME Stop \/ Tick \/ UNCHANGED vars PROVE SilenceInv'
  BY <1>7 DEF Stop, Tick, vars, SilenceInv, loadJobs
<1>8. ASSUME Die, file' \in {file, Corrupt} PROVE SilenceInv'
  <2>1. loadJobs' \in {loadJobs, Store({}, {})}
    BY <1>8 DEF loadJobs
  <2> QED
    BY <1>8, <2>1 DEF Die, SilenceInv, Store
<1> QED
  BY <1>2, <1>3, <1>4, <1>5, <1>6, <1>7, <1>8
  DEF Next, Crash, CrashInSave, CrashInFire

\* Everything so far, as one inductive invariant.
DurableInv == BasicInv /\ MemoryIsOnDisk /\ SilenceInv

\* Before the first start nothing was fired.
LEMMA DurableInit == Init => DurableInv
BY BasicInit, DiskInit, SilenceInit DEF DurableInv

\* Every step keeps them together: each needs the others.
LEMMA DurableStep == DurableInv /\ [Next]_vars => DurableInv'
BY BasicStep, DiskStep, SilenceStep DEF DurableInv

\* A message is sent only for the job that fires, and that job is enabled.
LEMMA OnlyEnabledFire ==
    ASSUME BasicInv, [Next]_vars
    PROVE  \/ UNCHANGED fired
           \/ \E j \in enabled : (Fire(j) \/ CrashInFire(j)) /\ SendMessage(j) /\ IsDue(j)
<1>1. ASSUME NEW j \in Job, Fire(j) \/ CrashInFire(j)
      PROVE  j \in enabled /\ SendMessage(j) /\ IsDue(j)
  BY <1>1 DEF Fire, CrashInFire, IsDue, BasicInv, TimersFollowJobs
<1>2. CASE UNCHANGED vars
  BY <1>2 DEF vars
<1>3. CASE Start \/ Stop \/ Tick \/ Crash \/ CrashInSave
  BY <1>3 DEF Start, Stop, Tick, Crash, CrashInSave
<1>4. ASSUME NEW j \in Job,
             AddJob(j) \/ RemoveJob(j) \/ \E on \in BOOLEAN : ToggleJob(j, on)
      PROVE  UNCHANGED fired
  BY <1>4 DEF AddJob, RemoveJob, ToggleJob
<1> QED
  BY <1>1, <1>2, <1>3, <1>4 DEF Next

\* A caller that was told a job is removed or disabled hears no more of it
\* (scheduler.ts 106-136), for any schedule, restart and failing write.
THEOREM SilenceIsKept == SafeSpec => SilencedStaysSilent
<1>1. DurableInv /\ [Next]_vars => [\A j \in silenced : fired'[j] = fired[j]]_vars
  <2> SUFFICES ASSUME DurableInv, [Next]_vars, NEW j \in silenced
               PROVE  fired'[j] = fired[j]
    OBVIOUS
  <2>1. j \notin enabled
    BY DEF DurableInv, SilenceInv
  <2>2. j \in Job /\ fired \in [Job -> SUBSET Time] /\ enabled \subseteq Job
    BY DEF DurableInv, BasicInv, TypeOK
  <2> QED
    BY <2>1, <2>2, OnlyEnabledFire DEF DurableInv, SendMessage
<1> QED
  BY <1>1, DurableInit, DurableStep, PTL DEF SafeSpec, SilencedStaysSilent

-----------------------------------------------------------------------------
(* Moments.                                                                *)

\* The moments served are over, and a timer waits for a later one.
PastInv ==
    \A j \in Job : \A d \in fired[j] :
        d <= now /\ (timers[j] # None => d < timers[j])

\* Before the first start no moment was served.
LEMMA PastInit == Init => PastInv
BY DEF Init, PastInv

\* A timer that is set anew waits for a moment after now.
LEMMA PastStep == BasicInv /\ BasicInv' /\ PastInv /\ [Next]_vars => PastInv'
<1> SUFFICES ASSUME BasicInv, BasicInv', PastInv, [Next]_vars,
                    NEW j \in Job, NEW d \in fired'[j]
             PROVE  d <= now' /\ (timers'[j] # None => d < timers'[j])
  BY DEF PastInv
<1> DEFINE Armed == timers'[j] \in {None, timers[j], NextDue(j), arm(j)}
<1> now \in Time /\ now \in Nat /\ d \in Nat /\ Time \subseteq Nat
  BY SchedulerAssumption DEF BasicInv, TypeOK, Time
<1>1. now <= now' /\ now' \in Nat
  <2>1. UNCHANGED now \/ now' = now + 1
    BY DEF Next, vars, Start, Stop, Tick, Crash, CrashInSave, CrashInFire, Die,
           AddJob, RemoveJob, ToggleJob, Fire
  <2> QED
    BY <2>1
<1>2. CASE d \in fired[j] /\ Armed
  <2>1. d <= now /\ (timers[j] # None => d < timers[j])
    BY <1>2 DEF PastInv
  <2>2. CASE timers'[j] \in {None, timers[j]}
    BY <1>1, <2>1, <2>2
  <2>3. CASE timers'[j] \in {NextDue(j), arm(j)}
    <3>1. timers'[j] # None => timers'[j] > now /\ timers'[j] \in Nat
      BY <2>3, NextDueType, ArmType, SchedulerAssumption DEF Never, Time
    <3> QED
      BY <1>1, <2>1, <3>1
  <2> QED
    BY <1>2, <2>2, <2>3
<1>3. ASSUME NEW i \in Job, Fire(i) \/ CrashInFire(i), d \notin fired[j]
      PROVE  d <= now' /\ (timers'[j] # None => d < timers'[j])
  <2>1. i = j /\ d = timers[j] /\ d <= now
    BY <1>3 DEF Fire, CrashInFire, SendMessage, IsDue, BasicInv, TypeOK
  <2>2. timers'[j] \in {None, NextDue(j)}
    BY <1>3, <2>1 DEF Fire, CrashInFire, Die, disarm, BasicInv, TypeOK
  <2>3. timers'[j] # None => timers'[j] > now /\ timers'[j] \in Nat
    BY <2>2, NextDueType, SchedulerAssumption DEF Never, Time
  <2> QED
    BY <1>1, <2>1, <2>3
<1>4. d \in fired[j] \/ \E i \in Job : Fire(i) \/ CrashInFire(i)
  BY OnlyEnabledFire DEF BasicInv, TypeOK
<1>5. Armed
  <2> timers \in [Job -> Time \cup {Never, None}]
    BY DEF BasicInv, TypeOK
  <2> QED
    BY DEF Next, vars, Start, Stop, Tick, Crash, CrashInSave, CrashInFire, Die,
           AddJob, RemoveJob, ToggleJob, Fire, disarm
<1> QED
  BY <1>2, <1>3, <1>4, <1>5

\* No moment is served twice, however late the timers run and however often
\* the process restarts (scheduler.ts 157-237).
THEOREM MomentsServedOnce == SafeSpec => MomentServedOnce
<1>1. BasicInv /\ PastInv /\ [Next]_vars => (BasicInv /\ PastInv)'
  BY BasicStep, PastStep
<1>2. Init => BasicInv /\ PastInv
  BY BasicInit, PastInit
<1>3. BasicInv /\ PastInv =>
        [\A j \in Job : Fire(j) \/ CrashInFire(j) => timers[j] \notin fired[j]]_vars
  <2> SUFFICES ASSUME BasicInv, PastInv, NEW j \in Job,
                      Fire(j) \/ CrashInFire(j), timers[j] \in fired[j]
               PROVE  FALSE
    OBVIOUS
  <2>1. timers[j] # None /\ timers[j] <= now /\ timers[j] \in Nat
    BY SchedulerAssumption DEF Fire, CrashInFire, IsDue, BasicInv, TypeOK, Time, Never
  <2> QED
    BY <2>1 DEF PastInv
<1> QED
  BY <1>1, <1>2, <1>3, PTL DEF SafeSpec, MomentServedOnce

-----------------------------------------------------------------------------
(* One-shot jobs.                                                          *)

\* A one-shot job that has sent its message is gone, from memory and, unless
\* the last save failed, from what a restart would load.
GoneInv ==
    \A j \in OneShot \ torn : fired[j] # {} =>
        /\ \E d \in Time : fired[j] = {d}
        /\ j \notin jobs
        /\ ~unsaved => j \notin loadJobs.jobs

\* Before the first start no one-shot job has fired.
LEMMA GoneInit == Init => GoneInv
BY SchedulerAssumption DEF Init, GoneInv

\* A one-shot job that fired is gone from memory and, once saved, from the file.
LEMMA GoneStep ==
    BasicInv /\ BasicInv' /\ MemoryIsOnDisk' /\ GoneInv /\ [Next]_vars => GoneInv'
<1> SUFFICES ASSUME BasicInv, BasicInv', MemoryIsOnDisk', GoneInv, [Next]_vars,
                    NEW j \in OneShot, j \notin torn', fired'[j] # {}
             PROVE  /\ \E d \in Time : fired'[j] = {d}
                    /\ j \notin jobs'
                    /\ ~unsaved' => j \notin loadJobs'.jobs
  BY DEF GoneInv
<1>0. j \in Job
  BY SchedulerAssumption
<1>1. torn \subseteq torn'
  BY DEF Next, vars, Start, Stop, Tick, Crash, CrashInSave, CrashInFire, Die,
         AddJob, RemoveJob, ToggleJob, Fire
<1>2. ASSUME up', j \notin jobs', \E d \in Time : fired'[j] = {d}
      PROVE  /\ \E d \in Time : fired'[j] = {d}
             /\ j \notin jobs'
             /\ ~unsaved' => j \notin loadJobs'.jobs
  BY <1>2 DEF MemoryIsOnDisk, Store
<1>3. CASE UNCHANGED fired
  <2>1. /\ \E d \in Time : fired[j] = {d}
        /\ j \notin jobs
        /\ ~unsaved => j \notin loadJobs.jobs
    BY <1>1, <1>3 DEF GoneInv
  <2>2. CASE Start
    <3>1. ~unsaved
      BY <1>0, <1>3, <2>2 DEF Start
    <3> QED
      BY <1>2, <1>3, <2>1, <2>2, <3>1 DEF Start
  <2>3. ASSUME NEW i \in Job, AddJob(i)
        PROVE  j \notin jobs' /\ up'
    BY <1>0, <1>3, <2>1, <2>3 DEF AddJob, BasicInv, KnownInv
  <2>4. ASSUME NEW i \in Job,
               RemoveJob(i) \/ Fire(i) \/ \E on \in BOOLEAN : ToggleJob(i, on)
        PROVE  j \notin jobs' /\ up'
    BY <2>1, <2>4 DEF RemoveJob, ToggleJob, Fire, IsDue
  <2>5. CASE Stop \/ Tick \/ UNCHANGED vars
    BY <1>3, <2>1, <2>5 DEF Stop, Tick, vars, loadJobs
  <2>6. ASSUME Die, file' \in {file, Corrupt}
        PROVE  j \notin jobs' /\ (~unsaved' => j \notin loadJobs'.jobs)
    <3>1. loadJobs' \in {loadJobs, Store({}, {})}
      BY <2>6 DEF loadJobs
    <3> QED
      BY <2>1, <2>6, <3>1 DEF Die, Store
  <2> QED
    BY <1>2, <1>3, <2>1, <2>2, <2>3, <2>4, <2>5, <2>6
    DEF Next, Crash, CrashInSave, CrashInFire
<1>4. ASSUME NEW i \in enabled, Fire(i) \/ CrashInFire(i), SendMessage(i), IsDue(i)
      PROVE  /\ \E d \in Time : fired'[j] = {d}
             /\ j \notin jobs'
             /\ ~unsaved' => j \notin loadJobs'.jobs
  <2>1. i \in Job /\ i \in jobs /\ fired \in [Job -> SUBSET Time]
    BY DEF BasicInv, TypeOK
  <2>2. CASE i = j
    <3>1. Fire(i)
      BY <1>4, <2>2 DEF CrashInFire
    <3>2. fired[j] = {}
      BY <1>1, <2>1, <2>2 DEF GoneInv
    <3>3. timers[j] \in Time
      BY <1>0, <1>4, <2>2, SchedulerAssumption DEF IsDue, BasicInv, TypeOK, Never, Time
    <3>4. fired'[j] = {timers[j]}
      BY <1>0, <1>4, <2>1, <2>2, <3>2 DEF SendMessage
    <3> QED
      BY <1>2, <2>2, <3>1, <3>3, <3>4 DEF Fire, IsDue
  <2>3. CASE i # j
    <3>1. fired'[j] = fired[j]
      BY <1>0, <1>4, <2>1, <2>3 DEF SendMessage
    <3>2. /\ \E d \in Time : fired[j] = {d}
          /\ j \notin jobs
          /\ ~unsaved => j \notin loadJobs.jobs
      BY <1>1, <3>1 DEF GoneInv
    <3>3. CASE Fire(i)
      BY <1>2, <3>1, <3>2, <3>3 DEF Fire, IsDue
    <3>4. CASE CrashInFire(i)
      <4>1. loadJobs' \in {loadJobs, Store({}, {})}
        BY <3>4 DEF CrashInFire, loadJobs
      <4> QED
        BY <3>1, <3>2, <3>4, <4>1 DEF CrashInFire, Die, Store
    <3> QED
      BY <1>4, <3>3, <3>4
  <2> QED
    BY <2>2, <2>3
<1> QED
  BY <1>3, <1>4, OnlyEnabledFire

\* A one-shot job sends its message once (scheduler.ts 228-231), unless its
\* removal did not reach the file before the process ended.
THEOREM OneShotsFireOnce == SafeSpec => []OneShotOnce
<1>1. BasicInv /\ MemoryIsOnDisk /\ GoneInv /\ [Next]_vars
        => (BasicInv /\ MemoryIsOnDisk /\ GoneInv)'
  BY BasicStep, DiskStep, GoneStep
<1>2. Init => BasicInv /\ MemoryIsOnDisk /\ GoneInv
  BY BasicInit, DiskInit, GoneInit
<1>3. GoneInv => OneShotOnce
  <2> SUFFICES ASSUME GoneInv, NEW j \in OneShot \ torn
               PROVE  Cardinality(fired[j]) <= 1
    BY DEF OneShotOnce
  <2>1. fired[j] = {} \/ \E d \in Time : fired[j] = {d}
    BY DEF GoneInv
  <2>2. CASE fired[j] = {}
    <3>1. Cardinality(fired[j]) = 0
      BY <2>2, FS_EmptySet
    <3> QED
      BY <3>1
  <2>3. ASSUME NEW d \in Time, fired[j] = {d} PROVE Cardinality(fired[j]) <= 1
    <3>1. Cardinality(fired[j]) = 1
      BY <2>3, FS_Singleton
    <3> QED
      BY <3>1
  <2> QED
    BY <2>1, <2>2, <2>3
<1> QED
  BY <1>1, <1>2, <1>3, PTL DEF SafeSpec
=============================================================================
