----------------------------- MODULE BuildCache -----------------------------
(***************************************************************************)
(* The on-disk section cache of one ESM and the processes that share it.   *)
(*                                                                         *)
(* A client (a CLI query, an `esm batch` child, a host with the napi       *)
(* addon) maps the ESM, maps the sections it needs, and builds the ones    *)
(* that are missing: by a detached `esm cache build` (a builder) when it   *)
(* has a build delegate, else in its own process under the build lease.    *)
(* Observers run progress::read (`cache status`, `--no-wait`, the progress *)
(* watcher), clearers run `esm cache clear`.  Any client or builder may be *)
(* killed at any point; the ESM is replaced by newer versions.             *)
(*                                                                         *)
(* A build job is a set of sections: the eager pair tree+forms that        *)
(* build_tree_and_forms handles, or one lazy section of map_or_build; the  *)
(* two functions follow the same protocol.  A section's payload is         *)
(* abstracted to the ESM generations it was derived from, an ESM identity  *)
(* stamp (size, mtime) to the generation it was read from.                 *)
(***************************************************************************)
EXTENDS Naturals, FiniteSets

CONSTANTS Clients, Builders, Observers, Clearers, \* processes, by role
          NoProc,           \* "no process"
          Delegating,       \* the clients that installed a build delegate
          Silent,           \* processes run with ESM_NO_PROGRESS=1
          Lazy,             \* the lazily built sections
          MaxGen,           \* bound: generations of the ESM
          MaxCrashes,       \* bound: processes killed
          MaxFaults,        \* bound: I/O and decode errors met
          MaxTroubles,      \* bound: both together
          LockFileAtStart   \* was the lock file ever created before?

Workers == Clients \cup Builders
Procs   == Workers \cup Observers \cup Clearers
Eager   == {"tree", "forms"}
Sections == Eager \cup Lazy
Jobs    == {Eager} \cup {{s} : s \in Lazy}
Gens    == 1..MaxGen
Stamps  == Gens \cup {0}

ASSUME RolesAssumption ==
    /\ Clients \cap Builders = {}
    /\ Workers \cap (Observers \cup Clearers) = {}
    /\ Observers \cap Clearers = {}
    /\ NoProc \notin Procs
    /\ Delegating \subseteq Clients
    /\ Silent \subseteq Workers
ASSUME SectionsAssumption == Lazy \subseteq {"edid", "search", "xref"}
ASSUME BoundsAssumption ==
    /\ MaxGen \in Nat \ {0}
    /\ MaxCrashes \in Nat
    /\ MaxFaults \in Nat
    /\ MaxTroubles \in Nat
    /\ LockFileAtStart \in BOOLEAN

VARIABLES
    esm,      \* generation of the ESM file
    torn,     \* history: the generations that a process which still has an
              \* older one mapped took a stamp from
    file,     \* section -> [sig, from]: stamp (0: absent) and derivation
    lockFile, \* does <esm>.build.lock exist?
    holder,   \* process holding the advisory lock on it, or NoProc
    hb,       \* <esm>.build.json: [pid, writing], pid = NoProc when absent
    pc,       \* where each process is
    mm,       \* worker -> generation it has mapped, 0 when none
    sig,      \* worker -> the CacheSig its current job read
    job,      \* worker -> sections it is mapping or building
    todo,     \* worker or clearer -> sections of the current pass left
    view,     \* worker -> section -> derivation of its mapping, {} if none
    ok,       \* worker -> did the current job succeed?
    child,    \* client -> the builder it waits for, or NoProc
    goal,     \* builder -> the stage named by --section
    crashes, faults

vars == <<esm, torn, file, lockFile, holder, hb, pc, mm, sig, job, todo, view, ok,
          child, goal, crashes, faults>>
disk   == <<esm, torn, file>>
lease  == <<lockFile, holder, hb>>
mapped == <<mm, view>>
family == <<child, goal>>
budget == <<crashes, faults>>

Absent == [sig |-> 0, from |-> {}]
NoHb   == [pid |-> NoProc, writing |-> FALSE]
NoView == [s \in Sections |-> {}]

\* Where a process may be.  A worker holds the build lease in LeasePcs.
LeasePcs  == {"publish", "recheck", "build", "write", "remap", "drop", "unlock"}
MapPcs    == {"probe", "redo", "recheck"}
WorkerPcs == LeasePcs \cup MapPcs \cup
             {"off", "open", "stat", "spawn", "wait", "lock", "attach", "idle",
              "exit", "dead"}
ObserverPcs == {"idle", "held", "sweep", "peek"}
ClearerPcs  == {"idle", "trylock", "clear"}

Goto(p, from, to) == pc[p] = from /\ pc' = [pc EXCEPT ![p] = to]

Init ==
    /\ esm = 1
    /\ torn = {}
    /\ file = [s \in Sections |-> Absent]
    /\ lockFile = LockFileAtStart
    /\ holder = NoProc
    /\ hb = NoHb
    /\ pc = [p \in Procs |-> IF p \in Clients THEN "open"
                             ELSE IF p \in Builders THEN "off" ELSE "idle"]
    /\ mm = [p \in Workers |-> 0]
    /\ sig = [p \in Workers |-> 0]
    /\ job = [p \in Workers |-> Eager]
    /\ todo = [p \in Workers \cup Clearers |-> {}]
    /\ view = [p \in Workers |-> NoView]
    /\ ok = [p \in Workers |-> TRUE]
    /\ child = [c \in Clients |-> NoProc]
    /\ goal = [b \in Builders |-> "forms"]
    /\ crashes = 0 /\ faults = 0

-----------------------------------------------------------------------------
(* Opening a database and choosing what to map or build *)

\* Database::open: resolve the path and map the ESM; Index::build follows
\* with the eager pair as its job.
Open(p) ==
    /\ Goto(p, "open", "stat")
    /\ mm' = [mm EXCEPT ![p] = esm]
    /\ job' = [job EXCEPT ![p] = Eager]
    /\ UNCHANGED <<disk, lease, sig, todo, view, ok, family, budget>>

\* The section a job handles next: tree before forms.
Leads(s, S) == s \in S /\ (s = "forms" => "tree" \notin S)

\* Mutant: the stamp of the first job is kept for all later ones.
Stat_KeepsFirst(p) ==
    /\ Goto(p, "stat", "probe")
    /\ sig' = [sig EXCEPT ![p] = IF @ = 0 THEN esm ELSE @]
    /\ torn' = IF mm[p] = esm THEN torn ELSE torn \cup {esm}
    /\ todo' = [todo EXCEPT ![p] = job[p]]
    /\ UNCHANGED <<esm, file, lease, mm, job, view, ok, family, budget>>

\* CacheSig::read, the first step of Index::build and of map_or_build: a
\* fresh stat of the path, whatever generation this process has mapped.
Stat(p) ==
    /\ Goto(p, "stat", "probe")
    /\ sig' = [sig EXCEPT ![p] = esm]
    /\ torn' = IF mm[p] = esm THEN torn ELSE torn \cup {esm}
    /\ todo' = [todo EXCEPT ![p] = job[p]]
    /\ UNCHANGED <<esm, file, lease, mm, job, view, ok, family, budget>>

\* Mutant: any stamp will do.
Maps_AnyStamp(s, g) == file[s].sig # 0

\* Section::map accepts the file when its stamp is the one asked for.
Maps(s, g) == file[s].sig = g

\* Mutant: the delegate runs under the lease.
AfterMissing_UnderLease(p) ==
    CASE pc[p] = "probe"   -> "lock"
      [] pc[p] = "redo"    -> "build"
      [] pc[p] = "recheck" -> IF p \in Delegating THEN "spawn" ELSE "build"

\* Where a job continues once all its sections are mapped, or when one is
\* missing, in each of the three passes that map them.
AfterFound(p) ==
    IF pc[p] = "recheck" THEN "drop"
    ELSE IF job[p] = Eager THEN "attach" ELSE "idle"
AfterMissing(p) ==
    CASE pc[p] = "probe"   -> IF p \in Delegating THEN "spawn" ELSE "lock"
      [] pc[p] = "redo"    -> "lock"
      [] pc[p] = "recheck" -> "build"

\* One Section::map of the first look, of the look after a delegated build,
\* or of the recheck under the lease.
MapSection(p) ==
    /\ pc[p] \in MapPcs
    /\ \E s \in todo[p] :
         /\ Leads(s, todo[p])
         /\ IF Maps(s, sig[p])
            THEN /\ view' = [view EXCEPT ![p][s] = file[s].from]
                 /\ todo' = [todo EXCEPT ![p] = @ \ {s}]
                 /\ ok' = [ok EXCEPT ![p] = TRUE]
                 /\ pc' = IF todo[p] = {s}
                          THEN [pc EXCEPT ![p] = AfterFound(p)] ELSE pc
            ELSE /\ pc' = [pc EXCEPT ![p] = AfterMissing(p)]
                 /\ UNCHANGED <<view, todo, ok>>
    /\ UNCHANGED <<disk, lease, mm, sig, job, family, budget>>

\* The tail of Index::build: each lazy section is mapped if it is there,
\* under the stamp read before the eager pair was mapped.
Attach(p) ==
    /\ Goto(p, "attach", "idle")
    /\ view' = [view EXCEPT ![p] =
                  [s \in Sections |->
                     IF s \in Eager THEN view[p][s]
                     ELSE IF Maps(s, sig[p]) THEN file[s].from ELSE {}]]
    /\ UNCHANGED <<disk, lease, mm, sig, job, todo, ok, family, budget>>

\* ensure_{edid,search,xref}_index: a no-op once the section is mapped.  A
\* client asks for any of them, a builder for the stage it was given.
Ensure(p, s) ==
    /\ view[p][s] = {}
    /\ p \in Builders => goal[p] = s
    /\ Goto(p, "idle", "stat")
    /\ job' = [job EXCEPT ![p] = {s}]
    /\ UNCHANGED <<disk, lease, mapped, sig, todo, ok, family, budget>>

\* A client drops its database (host close, end of a command).
Close(c) ==
    /\ Goto(c, "idle", "open")
    /\ mm' = [mm EXCEPT ![c] = 0]
    /\ view' = [view EXCEPT ![c] = NoView]
    /\ UNCHANGED <<disk, lease, sig, job, todo, ok, family, budget>>

-----------------------------------------------------------------------------
(* The delegate: a detached `esm cache build --section <stage>` *)

Stage(p) == IF job[p] = Eager THEN "forms" ELSE CHOOSE s \in job[p] : TRUE

\* build_in_detached_process starts the child in a session of its own.
Spawn(c, b) ==
    /\ pc[c] = "spawn" /\ pc[b] = "off"
    /\ pc' = [pc EXCEPT ![c] = "wait", ![b] = "open"]
    /\ child' = [child EXCEPT ![c] = b]
    /\ goal' = [goal EXCEPT ![b] = Stage(c)]
    /\ UNCHANGED <<disk, lease, mapped, sig, job, todo, ok, budget>>

\* The child cannot be started: run_build_delegate reports failure and the
\* client builds in its own process.
SpawnFails(c) ==
    /\ Goto(c, "spawn", "lock")
    /\ UNCHANGED <<disk, lease, mapped, sig, job, todo, ok, family, budget>>

\* cmd_cache_build has built what it was asked for.
BuilderDone(b) ==
    /\ goal[b] \in Eager \/ view[b][goal[b]] # {}
    /\ Goto(b, "idle", "exit")
    /\ ok' = [ok EXCEPT ![b] = TRUE]
    /\ UNCHANGED <<disk, lease, mapped, sig, job, todo, family, budget>>

\* What the client that waits for b does when b ends: look again for the
\* sections after a success, build in its own process after a failure.
Resume(b, success, to) ==
    LET waits(c) == c \in Clients /\ pc[c] = "wait" /\ child[c] = b
    IN  /\ pc' = [p \in Procs |-> IF p = b THEN to
                                  ELSE IF ~waits(p) THEN pc[p]
                                  ELSE IF success THEN "redo" ELSE "lock"]
        /\ child' = [c \in Clients |-> IF waits(c) THEN NoProc ELSE child[c]]
        /\ todo' = [p \in Workers \cup Clearers |->
                      IF waits(p) THEN job[p] ELSE todo[p]]

\* The child exits; a client that is still alive collects its status.
Exit(b) ==
    /\ pc[b] = "exit"
    /\ Resume(b, ok[b], "off")
    /\ mm' = [mm EXCEPT ![b] = 0]
    /\ view' = [view EXCEPT ![b] = NoView]
    /\ UNCHANGED <<disk, lease, sig, job, ok, goal, budget>>

-----------------------------------------------------------------------------
(* Building under the lease *)

\* Mutant: the lock does not exclude.
Lock_Shared(p) ==
    /\ Goto(p, "lock", "publish")
    /\ holder' = p
    /\ lockFile' = TRUE
    /\ UNCHANGED <<disk, hb, mapped, sig, job, todo, ok, family, budget>>

\* BuildLease::acquire: open (creating) the lock file and block on it.
Lock(p) ==
    /\ holder = NoProc
    /\ Goto(p, "lock", "publish")
    /\ holder' = p
    /\ lockFile' = TRUE
    /\ UNCHANGED <<disk, hb, mapped, sig, job, todo, ok, family, budget>>

Heartbeat(p, w) == IF p \in Silent THEN hb ELSE [pid |-> p, writing |-> w]

\* Mutant: no recheck after the lock is granted.
Publish_NoRecheck(p) ==
    /\ Goto(p, "publish", "build")
    /\ hb' = Heartbeat(p, FALSE)
    /\ todo' = [todo EXCEPT ![p] = job[p]]
    /\ UNCHANGED <<disk, lockFile, holder, mapped, sig, job, ok, family, budget>>

\* The first publish_now of the lease, then the recheck.
Publish(p) ==
    /\ Goto(p, "publish", "recheck")
    /\ hb' = Heartbeat(p, FALSE)
    /\ todo' = [todo EXCEPT ![p] = job[p]]
    /\ UNCHANGED <<disk, lockFile, holder, mapped, sig, job, ok, family, budget>>

\* BuildLease::tick during the counting pass republishes the heartbeat.
Tick(p) ==
    /\ pc[p] = "build"
    /\ hb' = Heartbeat(p, FALSE)
    /\ UNCHANGED <<disk, lockFile, holder, pc, mapped, sig, job, todo, ok,
                   family, budget>>

\* The counting pass is over: BuildLease::writing.
Writing(p) ==
    /\ Goto(p, "build", "write")
    /\ hb' = Heartbeat(p, TRUE)
    /\ todo' = [todo EXCEPT ![p] = job[p]]
    /\ UNCHANGED <<disk, lockFile, holder, mapped, sig, job, ok, family, budget>>

\* A section is derived from the mapped ESM; the lazy ones also walk the
\* forms section this process has mapped.
Derived(p, s) ==
    IF s \in Eager THEN {mm[p]} ELSE {mm[p]} \cup view[p]["forms"]

\* write_section: the file appears whole, by the final rename (SectionFile
\* has the steps before it), stamped with the job's CacheSig.
Write(p) ==
    /\ Goto(p, "write", "remap")
    /\ \E s \in todo[p] :
         /\ Leads(s, todo[p])
         /\ file' = [file EXCEPT ![s] = [sig |-> sig[p], from |-> Derived(p, s)]]
    /\ UNCHANGED <<esm, torn, lease, mapped, sig, job, todo, ok, family, budget>>

\* The second half of write_and_remap: map the section just written.  When
\* it is not there the build fails ("this should never happen").
Remap(p) ==
    /\ pc[p] = "remap"
    /\ \E s \in todo[p] :
         /\ Leads(s, todo[p])
         /\ IF Maps(s, sig[p])
            THEN /\ view' = [view EXCEPT ![p][s] = file[s].from]
                 /\ todo' = [todo EXCEPT ![p] = @ \ {s}]
                 /\ ok' = [ok EXCEPT ![p] = TRUE]
                 /\ pc' = [pc EXCEPT ![p] = IF todo[p] = {s} THEN "drop"
                                            ELSE "write"]
            ELSE /\ pc' = [pc EXCEPT ![p] = "drop"]
                 /\ ok' = [ok EXCEPT ![p] = FALSE]
                 /\ UNCHANGED <<view, todo>>
    /\ UNCHANGED <<disk, lease, mm, sig, job, family, budget>>

\* Mutant: the heartbeat is left to the next reader.
DropLease_LeavesHeartbeat(p) ==
    /\ Goto(p, "drop", "unlock")
    /\ UNCHANGED <<disk, lease, mapped, sig, job, todo, ok, family, budget>>

\* Drop for BuildLease removes the heartbeat ...
DropLease(p) ==
    /\ Goto(p, "drop", "unlock")
    /\ hb' = NoHb
    /\ UNCHANGED <<disk, lockFile, holder, mapped, sig, job, todo, ok, family,
                   budget>>

\* Where a job leaves its process: an open that failed has no database, a
\* lazy build that failed leaves a client's database open, and either ends
\* an `esm cache build`.
AfterJob(p, success) ==
    IF success THEN IF job[p] = Eager THEN "attach" ELSE "idle"
    ELSE IF p \in Builders THEN "exit"
    ELSE IF job[p] = Eager THEN "open" ELSE "idle"

\* Ending a job: an open that failed lets go of the ESM it had mapped.
EndJob(p, success) ==
    LET to == AfterJob(p, success)
    IN  /\ pc' = [pc EXCEPT ![p] = to]
        /\ mm' = [mm EXCEPT ![p] = IF to = "open" THEN 0 ELSE @]
        /\ view' = [view EXCEPT ![p] = IF to = "open" THEN NoView ELSE @]

\* ... and closing its file releases the lock.
Unlock(p) ==
    /\ pc[p] = "unlock"
    /\ EndJob(p, ok[p])
    /\ holder' = NoProc
    /\ UNCHANGED <<disk, lockFile, hb, sig, job, todo, ok, family, budget>>

-----------------------------------------------------------------------------
(* Failures *)

FaultLeft == faults < MaxFaults /\ crashes + faults < MaxTroubles
CrashLeft == crashes < MaxCrashes /\ crashes + faults < MaxTroubles

\* An error of the stat or of the lock file ends the job.
Fail(p) ==
    /\ FaultLeft
    /\ pc[p] \in {"stat", "lock"}
    /\ EndJob(p, FALSE)
    /\ ok' = [ok EXCEPT ![p] = FALSE]
    /\ faults' = faults + 1
    /\ UNCHANGED <<disk, lease, sig, job, todo, family, crashes>>

\* A record that does not decode or a full disk: `?` drops the lease.
BuildFails(p) ==
    /\ FaultLeft
    /\ pc[p] \in {"build", "write"}
    /\ pc' = [pc EXCEPT ![p] = "drop"]
    /\ ok' = [ok EXCEPT ![p] = FALSE]
    /\ faults' = faults + 1
    /\ UNCHANGED <<disk, lease, mapped, sig, job, todo, family, crashes>>

\* publish_now drops the error of a heartbeat write.
PublishFails(p) ==
    /\ FaultLeft
    /\ Goto(p, "publish", "recheck")
    /\ todo' = [todo EXCEPT ![p] = job[p]]
    /\ faults' = faults + 1
    /\ UNCHANGED <<disk, lease, mapped, sig, job, ok, family, crashes>>

\* Mutant: a client takes its child with it, lease and heartbeat included.
Crash_KillsChild(p) ==
    LET b == IF p \in Clients THEN child[p] ELSE NoProc
    IN  /\ CrashLeft
        /\ pc[p] \notin {"off", "dead"}
        /\ pc' = [q \in Procs |-> IF q = p THEN "dead"
                                  ELSE IF q = b THEN "off" ELSE pc[q]]
        /\ holder' = IF holder \in {p, b} THEN NoProc ELSE holder
        /\ hb' = IF hb.pid = b THEN NoHb ELSE hb
        /\ mm' = [q \in Workers |-> IF q \in {p, b} THEN 0 ELSE mm[q]]
        /\ view' = [view EXCEPT ![p] = NoView]
        /\ crashes' = crashes + 1
        /\ UNCHANGED <<disk, lockFile, sig, job, todo, ok, child, goal, faults>>

\* Process p is killed: the OS releases its lock, its heartbeat stays, and
\* a child of it lives on.  A client waiting for p sees a failed status.
Crash(p) ==
    /\ CrashLeft
    /\ pc[p] \notin {"off", "dead"}
    /\ Resume(p, FALSE, "dead")
    /\ holder' = IF holder = p THEN NoProc ELSE holder
    /\ mm' = [mm EXCEPT ![p] = 0]
    /\ view' = [view EXCEPT ![p] = NoView]
    /\ crashes' = crashes + 1
    /\ UNCHANGED <<disk, lockFile, hb, sig, job, ok, goal, faults>>

\* A new version of the ESM is moved into place, whoever has the old one
\* mapped.
SwapEsm ==
    /\ esm < MaxGen
    /\ esm' = esm + 1
    /\ UNCHANGED <<torn, file, lease, pc, mapped, sig, job, todo, ok, family, budget>>

-----------------------------------------------------------------------------
(* progress::read *)

\* Open (creating) the lock file and try it.
ReadProbe(o) ==
    /\ pc[o] = "idle"
    /\ lockFile' = TRUE
    /\ IF holder = NoProc
       THEN holder' = o /\ pc' = [pc EXCEPT ![o] = "held"]
       ELSE holder' = holder /\ pc' = [pc EXCEPT ![o] = "peek"]
    /\ UNCHANGED <<disk, hb, mapped, sig, job, todo, ok, family, budget>>

\* The lock was free: release it ...
ReadUnlock(o) ==
    /\ Goto(o, "held", "sweep")
    /\ holder' = NoProc
    /\ UNCHANGED <<disk, lockFile, hb, mapped, sig, job, todo, ok, family, budget>>

\* ... then remove the heartbeat file and answer None.
ReadSweep(o) ==
    /\ Goto(o, "sweep", "idle")
    /\ hb' = NoHb
    /\ UNCHANGED <<disk, lockFile, holder, mapped, sig, job, todo, ok, family,
                   budget>>

\* The lock was held: answer with the heartbeat file, if there is one.
ReadPeek(o) ==
    /\ Goto(o, "peek", "idle")
    /\ UNCHANGED <<disk, lease, mapped, sig, job, todo, ok, family, budget>>

-----------------------------------------------------------------------------
(* progress::clear_cache *)

\* BuildStage::SECTIONS, the order in which the files are removed.
ClearRank == [forms |-> 1, tree |-> 2, edid |-> 3, search |-> 4, xref |-> 5]

\* Open the lock file without creating it; with none, go on without a lock.
ClearOpen(k) ==
    /\ Goto(k, "idle", IF lockFile THEN "trylock" ELSE "clear")
    /\ todo' = [todo EXCEPT ![k] = Sections]
    /\ UNCHANGED <<disk, lease, mapped, sig, job, ok, family, budget>>

\* Mutant: the lock is only probed, as progress::read does.
ClearTryLock_Probes(k) ==
    /\ IF holder = NoProc THEN Goto(k, "trylock", "clear")
       ELSE Goto(k, "trylock", "idle")
    /\ UNCHANGED <<disk, lease, mapped, sig, job, todo, ok, family, budget>>

\* Refuse while someone holds the lock.
ClearTryLock(k) ==
    /\ IF holder = NoProc
       THEN Goto(k, "trylock", "clear") /\ holder' = k
       ELSE Goto(k, "trylock", "idle") /\ holder' = holder
    /\ UNCHANGED <<disk, lockFile, hb, mapped, sig, job, todo, ok, family, budget>>

ClearRemove(k) ==
    /\ pc[k] = "clear"
    /\ \E s \in todo[k] :
         /\ \A t \in todo[k] : ClearRank[s] <= ClearRank[t]
         /\ file' = [file EXCEPT ![s] = Absent]
         /\ todo' = [todo EXCEPT ![k] = @ \ {s}]
    /\ UNCHANGED <<esm, torn, lease, pc, mapped, sig, job, ok, family, budget>>

ClearDone(k) ==
    /\ todo[k] = {}
    /\ Goto(k, "clear", "idle")
    /\ holder' = IF holder = k THEN NoProc ELSE holder
    /\ UNCHANGED <<disk, lockFile, hb, mapped, sig, job, todo, ok, family, budget>>

\* A file that cannot be removed ends the command, the rest stays.
ClearFails(k) ==
    /\ FaultLeft
    /\ Goto(k, "clear", "idle")
    /\ holder' = IF holder = k THEN NoProc ELSE holder
    /\ faults' = faults + 1
    /\ UNCHANGED <<disk, lockFile, hb, mapped, sig, job, todo, ok, family, crashes>>

-----------------------------------------------------------------------------
WorkerStep(p) ==
    \/ Open(p) \/ Stat(p) \/ MapSection(p) \/ Attach(p)
    \/ \E s \in Lazy : Ensure(p, s)
    \/ Lock(p) \/ Publish(p) \/ Tick(p) \/ Writing(p) \/ Write(p) \/ Remap(p)
    \/ DropLease(p) \/ Unlock(p)
    \/ Fail(p) \/ BuildFails(p) \/ PublishFails(p) \/ Crash(p)
ClientStep(c) ==
    \/ Close(c) \/ SpawnFails(c)
    \/ \E b \in Builders : Spawn(c, b)
BuilderStep(b)  == BuilderDone(b) \/ Exit(b)
ObserverStep(o) == ReadProbe(o) \/ ReadUnlock(o) \/ ReadSweep(o) \/ ReadPeek(o)
ClearerStep(k)  == \/ ClearOpen(k) \/ ClearTryLock(k)
                   \/ ClearRemove(k) \/ ClearDone(k) \/ ClearFails(k)

Next ==
    \/ \E p \in Workers   : WorkerStep(p)
    \/ \E c \in Clients   : ClientStep(c)
    \/ \E b \in Builders  : BuilderStep(b)
    \/ \E o \in Observers : ObserverStep(o)
    \/ \E k \in Clearers  : ClearerStep(k)
    \/ SwapEsm

Spec == Init /\ [][Next]_vars

(***************************************************************************)
(* A running process goes on taking steps, and a process blocked on the    *)
(* advisory lock gets it when it keeps being released (the kernel queues   *)
(* the waiters).  Nobody has to open, close or query anything, to be       *)
(* killed or to meet an error.                                             *)
(***************************************************************************)
Running(p) ==
    \/ Stat(p) \/ MapSection(p) \/ Attach(p)
    \/ Publish(p) \/ Writing(p) \/ Write(p) \/ Remap(p) \/ DropLease(p) \/ Unlock(p)
Delegation(c) == SpawnFails(c) \/ \E b \in Builders : Spawn(c, b)
Commanded(b) ==
    Open(b) \/ BuilderDone(b) \/ Exit(b) \/ \E s \in Lazy : Ensure(b, s)

Fairness ==
    /\ \A p \in Workers : WF_vars(Running(p)) /\ SF_vars(Lock(p))
    /\ \A c \in Clients : WF_vars(Delegation(c))
    /\ \A b \in Builders : WF_vars(Commanded(b))
    /\ \A o \in Observers : WF_vars(ReadUnlock(o) \/ ReadSweep(o) \/ ReadPeek(o))
    /\ \A k \in Clearers : WF_vars(ClearTryLock(k) \/ ClearRemove(k) \/ ClearDone(k))

FairSpec == Spec /\ Fairness

-----------------------------------------------------------------------------
(* Properties *)

\* Every variable keeps its type, each process is at one of its own steps,
\* and the heartbeat and the lock name processes that may own them.
DiskTypeOK ==
    /\ esm \in Gens
    /\ torn \subseteq Gens
    /\ file \in [Sections -> [sig : Stamps, from : SUBSET Stamps]]
LeaseTypeOK ==
    /\ lockFile \in BOOLEAN
    /\ holder \in Procs \cup {NoProc}
    /\ hb \in [pid : Workers \cup {NoProc}, writing : BOOLEAN]
PcTypeOK ==
    /\ pc \in [Procs -> WorkerPcs \cup ObserverPcs \cup ClearerPcs]
    /\ \A p \in Workers : pc[p] \in WorkerPcs
    /\ \A o \in Observers : pc[o] \in ObserverPcs
    /\ \A k \in Clearers : pc[k] \in ClearerPcs
JobTypeOK ==
    /\ mm \in [Workers -> Stamps]
    /\ sig \in [Workers -> Stamps]
    /\ job \in [Workers -> Jobs]
    /\ todo \in [Workers \cup Clearers -> SUBSET Sections]
    /\ ok \in [Workers -> BOOLEAN]
ViewTypeOK == view \in [Workers -> [Sections -> SUBSET Stamps]]
FamilyTypeOK ==
    /\ child \in [Clients -> Builders \cup {NoProc}]
    /\ goal \in [Builders -> Sections]
BudgetTypeOK == crashes \in Nat /\ faults \in Nat
TypeOK ==
    /\ DiskTypeOK /\ LeaseTypeOK /\ PcTypeOK /\ JobTypeOK
    /\ ViewTypeOK /\ FamilyTypeOK /\ BudgetTypeOK

\* "Whoever holds it is the one true builder": a process between the grant
\* and the release of the lease is the one the lock belongs to, so at most
\* one process ever writes sections or heartbeats.
LeaseExclusive ==
    \A p \in Workers : pc[p] \in LeasePcs => holder = p

\* The recheck under the lease leaves no room for a redundant build: a
\* process runs its counting pass only when the job it builds is not already
\* on disk under the stamp it asked for, whatever others published while it
\* probed, delegated and waited for the lock.
NoRedundantBuild ==
    \A p \in Workers : pc[p] = "build" => \E s \in job[p] : ~Maps(s, sig[p])

\* write_and_remap's "this should never happen": the section just published
\* is still there, with its stamp and content, when it is mapped back.
RemapSucceeds ==
    \A p \in Workers : pc[p] = "remap" =>
        \A s \in todo[p] : Leads(s, todo[p]) =>
            file[s] = [sig |-> sig[p], from |-> Derived(p, s)]

\* clear_cache "holds that lock itself while deleting so no build can start
\* underneath it".
ClearExcludesBuild ==
    \A k \in Clearers, p \in Workers :
        pc[k] = "clear" => pc[p] \notin LeasePcs

\* Section::get's fifth condition: a section that carries the stamp of an
\* ESM "was built from the exact ESM the caller is asking about".
StampTruth ==
    \A s \in Sections : file[s].sig # 0 => file[s].from = {file[s].sig}

\* What is left of it when the ESM is replaced under open databases: the
\* content is never newer than the stamp, and of the stamp's own generation
\* unless that one is torn, that is, unless some process took a stamp from it
\* over an older mapping.  A later generation starts clean.
StampTrueOrTorn ==
    \A s \in Sections : file[s].sig # 0 =>
        /\ file[s].from \subseteq 1 .. file[s].sig
        /\ file[s].sig \notin torn => file[s].from = {file[s].sig}

\* A database whose last stamp is of the ESM it has mapped has mapped nothing
\* of another generation, unless some process tore that one.
ViewCoherent ==
    \A p \in Workers, s \in Sections :
        sig[p] = mm[p] /\ mm[p] \notin torn => view[p][s] \subseteq {mm[p]}

\* A heartbeat on disk names the process that holds the lock or one that was
\* killed, never a live process whose build is over.
HeartbeatHonest ==
    hb.pid # NoProc => holder = hb.pid \/ pc[hb.pid] = "dead"

\* The cache keeps SectionStore's promise: a section is filled with what its
\* stamp says, its content is replaced only under another stamp, and only a
\* clear takes it away; what a torn generation may do is bounded.
Store == INSTANCE SectionStore WITH stored <- file
StoreSpec == Store!Spec

\* Every open or ensure call ends: with the section mapped or an error,
\* unless the process is killed.
ClientsServed ==
    \A c \in Clients : pc[c] = "stat" ~> pc[c] \in {"idle", "open", "dead"}

\* A detached build ends with its section on disk even if the client that
\* asked for it was killed meanwhile, unless the builder itself is killed
\* or meets an error.
BuildOutlivesClient ==
    \A b \in Builders :
        pc[b] = "open" ~> \/ pc[b] = "dead"
                          \/ pc[b] = "exit" /\ ~ok[b]
                          \/ mm[b] # 0 /\ Maps(goal[b], mm[b])
=============================================================================
