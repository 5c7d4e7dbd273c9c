------------------------------ MODULE Scheduler ------------------------------
(***************************************************************************)
(* scheduler/scheduler.ts with scheduler/job-store.ts and the operations   *)
(* of scheduler/cron-tool.ts: cron jobs, their timers, and the JSON file   *)
(* that is to carry them over a restart.  Every operation is synchronous,  *)
(* so callbacks never see it half done; a crash does.                      *)
(*                                                                         *)
(* A schedule is the set of moments at which croner would run it.  The     *)
(* statistics of a job (lastRunAt, runCount) are written, never read, and  *)
(* left out.                                                               *)
(***************************************************************************)
EXTENDS Naturals, FiniteSets, FiniteSetsExt

CONSTANTS
    Job,            \* the jobs that may ever be added, each with its own id
    OneShot,        \* jobs with oneShot
    Invalid,        \* jobs whose schedule croner refuses
    DueAt,          \* the moments of a job's schedule
    MaxTime,        \* bound on the clock
    MaxCrashes,     \* bound on the crashes
    Corrupt,        \* a file that does not parse
    None            \* no timer

ASSUME SchedulerAssumption ==
    /\ OneShot \subseteq Job /\ Invalid \subseteq Job
    /\ MaxTime \in Nat /\ MaxCrashes \in Nat
    /\ DueAt \in [Job -> SUBSET (0..MaxTime)]
    /\ None \notin Nat
    /\ Corrupt \notin [jobs : SUBSET Job, enabled : SUBSET Job]

Time  == 0..MaxTime
Never == MaxTime + 1      \* nextRun() of a schedule that is over

VARIABLES
    now,        \* the clock
    up,         \* is the process running
    jobs,       \* this.jobs
    enabled,    \* those with job.enabled
    timers,     \* this.timers: the moment a timer waits for
    file,       \* cron.json
    crashes,    \* crashes so far
    added,      \* history: jobs ever added
    fired,      \* history: the moments for which a job's message was sent
    torn,       \* history: jobs whose fire was sent but did not reach the file
    silenced,   \* history: jobs a caller was told are removed or disabled
    unsaved     \* history: the last save failed

vars == <<now, up, jobs, enabled, timers, file, crashes, added, fired, torn,
          silenced, unsaved>>

Store(J, E) == [jobs |-> J, enabled |-> E]

Init ==
    /\ now = 0 /\ up = FALSE
    /\ jobs = {} /\ enabled = {}
    /\ timers = [j \in Job |-> None]
    /\ file = Store({}, {})
    /\ crashes = 0
    /\ added = {} /\ torn = {} /\ silenced = {} /\ unsaved = FALSE
    /\ fired = [j \in Job |-> {}]

-----------------------------------------------------------------------------
(* The job store.                                                          *)

\* loadJobs: a file that cannot be parsed counts as an empty one.
loadJobs == IF file = Corrupt THEN Store({}, {}) ELSE file

\* saveJobs: an error is logged and swallowed; the file is then what it was,
\* or what a truncation has left of it.
saveJobs(J, E) ==
    \/ file' = Store(J, E) /\ unsaved' = FALSE
    \/ file' \in {file, Corrupt} /\ unsaved' = TRUE

-----------------------------------------------------------------------------
(* Timers.  croner waits for the first moment after now.                   *)

\* Mutant: a timer that is armed at a moment of its schedule runs at once.
NotEarlier(j, t) == {d \in DueAt[j] : d >= t}

\* The moments after t.
Later(j, t) == {d \in DueAt[j] : d > t}

NextDue(j)  == IF Later(j, now) = {} THEN Never ELSE Min(Later(j, now))

arm(j)    == IF j \in Invalid THEN None ELSE NextDue(j)
disarm(j) == [timers EXCEPT ![j] = None]

\* start: load the jobs and arm those that are enabled.  What the last save did
\* not write is gone, and with it what the callers of that time were told.
Start ==
    /\ ~up
    /\ up' = TRUE
    /\ jobs' = loadJobs.jobs
    /\ enabled' = loadJobs.enabled
    /\ timers' = [j \in Job |-> IF j \in loadJobs.enabled THEN arm(j) ELSE None]
    /\ unsaved' = FALSE
    /\ silenced' = IF unsaved THEN {} ELSE silenced
    /\ torn' = IF unsaved THEN torn \cup {j \in Job : fired[j] # {}} ELSE torn
    /\ UNCHANGED <<now, file, crashes, added, fired>>

\* stop, at shutdown; the process exits at once.
Stop ==
    /\ up
    /\ up' = FALSE
    /\ jobs' = {} /\ enabled' = {}
    /\ timers' = [j \in Job |-> None]
    /\ UNCHANGED <<now, file, crashes, added, fired, torn, silenced, unsaved>>

-----------------------------------------------------------------------------
(* The operations of the Cron tool.                                        *)

AddJob(j) ==
    /\ up
    /\ j \notin added
    /\ added' = added \cup {j}
    /\ jobs' = jobs \cup {j}
    /\ enabled' = enabled \cup {j}
    /\ saveJobs(jobs', enabled')
    /\ timers' = [timers EXCEPT ![j] = arm(j)]
    /\ UNCHANGED <<now, up, crashes, fired, torn, silenced>>

\* Mutant: the timer of a removed job goes on.
RemoveJobArmed(j) ==
    /\ up
    /\ j \in jobs
    /\ jobs' = jobs \ {j}
    /\ enabled' = enabled \ {j}
    /\ saveJobs(jobs', enabled')
    /\ silenced' = silenced \cup {j}
    /\ UNCHANGED <<now, up, timers, crashes, added, fired, torn>>

RemoveJob(j) ==
    /\ up
    /\ j \in jobs
    /\ timers' = disarm(j)
    /\ jobs' = jobs \ {j}
    /\ enabled' = enabled \ {j}
    /\ saveJobs(jobs', enabled')
    /\ silenced' = silenced \cup {j}
    /\ UNCHANGED <<now, up, crashes, added, fired, torn>>

\* Mutant: no test that the job still exists.
ToggleJobUnknown(j, on) ==
    /\ up
    /\ enabled' = IF on THEN enabled \cup {j} ELSE enabled \ {j}
    /\ timers' = IF on THEN [timers EXCEPT ![j] = arm(j)] ELSE disarm(j)
    /\ saveJobs(jobs, enabled')
    /\ silenced' = IF on THEN silenced \ {j} ELSE silenced \cup {j}
    /\ UNCHANGED <<now, up, jobs, crashes, added, fired, torn>>

\* Mutant: saved before the flag is set.
ToggleJobSavedFirst(j, on) ==
    /\ up
    /\ j \in jobs
    /\ enabled' = IF on THEN enabled \cup {j} ELSE enabled \ {j}
    /\ timers' = IF on THEN [timers EXCEPT ![j] = arm(j)] ELSE disarm(j)
    /\ saveJobs(jobs, enabled)
    /\ silenced' = IF on THEN silenced \ {j} ELSE silenced \cup {j}
    /\ UNCHANGED <<now, up, jobs, crashes, added, fired, torn>>

ToggleJob(j, on) ==
    /\ up
    /\ j \in jobs
    /\ enabled' = IF on THEN enabled \cup {j} ELSE enabled \ {j}
    /\ timers' = IF on THEN [timers EXCEPT ![j] = arm(j)] ELSE disarm(j)
    /\ saveJobs(jobs, enabled')
    /\ silenced' = IF on THEN silenced \ {j} ELSE silenced \cup {j}
    /\ UNCHANGED <<now, up, jobs, crashes, added, fired, torn>>

-----------------------------------------------------------------------------
(* Firing.                                                                 *)

IsDue(j) == up /\ timers[j] # None /\ timers[j] <= now

\* The message goes out on the bus for the moment the timer waited for.
SendMessage(j) == fired' = [fired EXCEPT ![j] = @ \cup {timers[j]}]

\* Mutant: only a timer that is on time runs its job.
FireOnTimeOnly(j) ==
    /\ IsDue(j)
    /\ timers[j] = now
    /\ SendMessage(j)
    /\ IF j \in OneShot
       THEN jobs' = jobs \ {j} /\ enabled' = enabled \ {j} /\ timers' = disarm(j)
       ELSE timers' = [timers EXCEPT ![j] = NextDue(j)] /\ UNCHANGED <<jobs, enabled>>
    /\ saveJobs(jobs', enabled')
    /\ UNCHANGED <<now, up, crashes, added, torn, silenced>>

\* Mutant: a one-shot job is dropped from memory and its removal not saved.
FireUnsaved(j) ==
    /\ IsDue(j)
    /\ SendMessage(j)
    /\ IF j \in OneShot
       THEN jobs' = jobs \ {j} /\ enabled' = enabled \ {j} /\ timers' = disarm(j)
       ELSE timers' = [timers EXCEPT ![j] = NextDue(j)] /\ UNCHANGED <<jobs, enabled>>
    /\ UNCHANGED <<now, up, file, crashes, added, torn, silenced, unsaved>>

\* fire: a timer may run late (npm install blocks the event loop for minutes);
\* the moments it has missed by then are skipped.
Fire(j) ==
    /\ IsDue(j)
    /\ SendMessage(j)
    /\ IF j \in OneShot
       THEN jobs' = jobs \ {j} /\ enabled' = enabled \ {j} /\ timers' = disarm(j)
       ELSE timers' = [timers EXCEPT ![j] = NextDue(j)] /\ UNCHANGED <<jobs, enabled>>
    /\ saveJobs(jobs', enabled')
    /\ UNCHANGED <<now, up, crashes, added, torn, silenced>>

-----------------------------------------------------------------------------
(* Crashes, and the clock.                                                 *)

Die ==
    /\ up
    /\ crashes < MaxCrashes
    /\ crashes' = crashes + 1
    /\ up' = FALSE
    /\ jobs' = {} /\ enabled' = {}
    /\ timers' = [j \in Job |-> None]
    /\ UNCHANGED <<now, added, silenced, unsaved>>

\* Between operations, or in one before its save.
Crash == Die /\ UNCHANGED <<file, fired, torn>>

\* In the writeFileSync of an operation, which truncates before it writes.
CrashInSave ==
    /\ Die
    /\ jobs # {} \/ added # Job      \* some operation can be under way
    /\ file' = Corrupt
    /\ UNCHANGED <<fired, torn>>

\* In fire, after the message was sent.
CrashInFire(j) ==
    /\ IsDue(j)
    /\ Die
    /\ SendMessage(j)
    /\ file' \in {file, Corrupt}
    /\ torn' = torn \cup {j}

Tick == now < MaxTime /\ now' = now + 1
        /\ UNCHANGED <<up, jobs, enabled, timers, file, crashes, added, fired,
                       torn, silenced, unsaved>>

Next ==
    \/ Start \/ Stop \/ Tick \/ Crash \/ CrashInSave
    \/ \E j \in Job :
          \/ AddJob(j) \/ RemoveJob(j) \/ Fire(j) \/ CrashInFire(j)
          \/ \E on \in BOOLEAN : ToggleJob(j, on)

\* Time passes and a timer that is due runs.  Nobody has to restart the process.
Fairness == WF_vars(Tick) /\ \A j \in Job : WF_vars(Fire(j))

SafeSpec == Init /\ [][Next]_vars
Spec == SafeSpec /\ Fairness

-----------------------------------------------------------------------------
(* Properties.                                                             *)

\* The state is what the scheduler may hold; enabled jobs are jobs.
TypeOK ==
    /\ now \in Time /\ crashes \in 0..MaxCrashes
    /\ up \in BOOLEAN /\ unsaved \in BOOLEAN
    /\ jobs \subseteq added /\ enabled \subseteq jobs
    /\ added \subseteq Job /\ torn \subseteq Job /\ silenced \subseteq Job
    /\ timers \in [Job -> Time \cup {Never, None}]
    /\ fired \in [Job -> SUBSET Time]
    /\ file = Corrupt \/ file \in [jobs : SUBSET Job, enabled : SUBSET Job]

\* A timer runs for exactly the enabled jobs whose schedule is valid: across
\* adding, toggling, removing, firing and a restart (scheduler.ts 43-192).
TimersFollowJobs ==
    \A j \in Job : timers[j] # None <=> j \in enabled \ Invalid

\* Unless the last save failed, a restart would load what memory holds
\* (scheduler.ts 94, 113, 130, 234): a save that works makes up for the failed
\* ones before it.
MemoryIsOnDisk ==
    up /\ ~unsaved => loadJobs = Store(jobs, enabled)

\* A one-shot job sends its message once, whatever is restarted, unless its
\* removal never reached the file: a crash between the message and the save, or
\* a save that failed (scheduler.ts 228-235).
OneShotOnce == \A j \in OneShot \ torn : Cardinality(fired[j]) <= 1

\* A moment of a schedule is served at most once, also when it is served late
\* and when the process restarts in the same moment (scheduler.ts 157-176).
MomentServedOnce ==
    [][\A j \in Job : Fire(j) \/ CrashInFire(j) => timers[j] \notin fired[j]]_vars

\* Once a caller is told that a job is removed or disabled, it stays silent
\* until somebody enables it, over restarts too, unless the process ended with
\* that change unsaved (scheduler.ts 106-136).
SilencedStaysSilent ==
    [][\A j \in silenced : fired'[j] = fired[j]]_vars

\* No timer is stuck: it serves its moment, however late, unless the job is
\* toggled or removed or the process ends first.
ArmedMomentIsServed ==
    \A j \in Job : \A d \in Time :
        timers[j] = d ~> (d \in fired[j] \/ timers[j] # d)
=============================================================================
