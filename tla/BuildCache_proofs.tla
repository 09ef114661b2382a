------------------------- MODULE BuildCache_proofs -------------------------
(***************************************************************************)
(* Theorems about BuildCache, for any number of processes, sections, ESM   *)
(* generations, crashes and errors.                                        *)
(***************************************************************************)
EXTENDS BuildCache, TLAPS

USE RolesAssumption, SectionsAssumption, BoundsAssumption

-----------------------------------------------------------------------------
(* Which steps touch which variables *)

\* Only publishing and clearing change a section file.
LEMMA FileFrame ==
    ASSUME Next
    PROVE  \/ file' = file
           \/ \E p \in Workers : Write(p)
           \/ \E k \in Clearers : ClearRemove(k)
  BY DEF Next, WorkerStep, ClientStep, BuilderStep, ObserverStep, ClearerStep,
         Open, Stat, MapSection, Attach, Ensure, Lock, Publish, Tick, Writing, Remap,
         DropLease, Unlock, Fail, BuildFails, PublishFails, Crash, Close, SpawnFails,
         Spawn, BuilderDone, Exit, ReadProbe, ReadUnlock, ReadSweep, ReadPeek, ClearOpen,
         ClearTryLock, ClearDone, ClearFails, SwapEsm, disk

\* A replacement leaves the history of torn generations alone, a stamp may
\* add to it.
LEMMA TornFrame ==
    ASSUME Next
    PROVE  /\ esm' = esm \/ SwapEsm
           /\ torn' = torn \/ \E p \in Workers : Stat(p)
  BY DEF Next, WorkerStep, ClientStep, BuilderStep, ObserverStep, ClearerStep,
         Open, Stat, MapSection, Attach, Ensure, Lock, Publish, Tick, Writing, Write, Remap,
         DropLease, Unlock, Fail, BuildFails, PublishFails, Crash, Close, SpawnFails,
         Spawn, BuilderDone, Exit, ReadProbe, ReadUnlock, ReadSweep, ReadPeek, ClearOpen,
         ClearTryLock, ClearRemove, ClearDone, ClearFails, SwapEsm, disk

\* The lock changes hands only here.
LEMMA HolderFrame ==
    ASSUME Next
    PROVE  \/ holder' = holder
           \/ \E p \in Workers : Lock(p) \/ Unlock(p) \/ Crash(p)
           \/ \E o \in Observers : ReadProbe(o) \/ ReadUnlock(o)
           \/ \E k \in Clearers : ClearTryLock(k) \/ ClearDone(k) \/ ClearFails(k)
  BY DEF Next, WorkerStep, ClientStep, BuilderStep, ObserverStep, ClearerStep,
         Open, Stat, MapSection, Attach, Ensure, Publish, Tick, Writing, Write, Remap,
         DropLease, Fail, BuildFails, PublishFails, Close, SpawnFails,
         Spawn, BuilderDone, Exit, ReadSweep, ReadPeek, ClearOpen,
         ClearRemove, SwapEsm, lease

\* The heartbeat is written under the lease, removed with it or by a reader.
LEMMA HbFrame ==
    ASSUME Next
    PROVE  \/ hb' = hb
           \/ \E p \in Workers : Publish(p) \/ Tick(p) \/ Writing(p) \/ DropLease(p)
           \/ \E o \in Observers : ReadSweep(o)
  BY DEF Next, WorkerStep, ClientStep, BuilderStep, ObserverStep, ClearerStep,
         Open, Stat, MapSection, Attach, Ensure, Lock, Write, Remap, Unlock,
         Fail, BuildFails, PublishFails, Crash, Close, SpawnFails,
         Spawn, BuilderDone, Exit, ReadProbe, ReadUnlock, ReadPeek, ClearOpen,
         ClearTryLock, ClearRemove, ClearDone, ClearFails, SwapEsm, lease

\* A database's mappings change when it maps a section and when it goes.
LEMMA ViewFrame ==
    ASSUME Next
    PROVE  \/ view' = view
           \/ \E p \in Workers : \/ MapSection(p) \/ Attach(p) \/ Remap(p)
                                 \/ Unlock(p) \/ Fail(p) \/ Crash(p)
           \/ \E c \in Clients : Close(c)
           \/ \E b \in Builders : Exit(b)
  BY DEF Next, WorkerStep, ClientStep, BuilderStep, ObserverStep, ClearerStep,
         Open, Stat, Ensure, Lock, Publish, Tick, Writing, Write, DropLease,
         BuildFails, PublishFails, SpawnFails, Spawn, BuilderDone,
         ReadProbe, ReadUnlock, ReadSweep, ReadPeek, ClearOpen,
         ClearTryLock, ClearRemove, ClearDone, ClearFails, SwapEsm, mapped

\* The mapping of the ESM changes when a database opens and when it goes.
LEMMA MmFrame ==
    ASSUME Next
    PROVE  \/ mm' = mm
           \/ \E p \in Workers : Open(p) \/ Unlock(p) \/ Fail(p) \/ Crash(p)
           \/ \E c \in Clients : Close(c)
           \/ \E b \in Builders : Exit(b)
  BY DEF Next, WorkerStep, ClientStep, BuilderStep, ObserverStep, ClearerStep,
         Stat, MapSection, Attach, Ensure, Lock, Publish, Tick, Writing, Write, Remap,
         DropLease, BuildFails, PublishFails, SpawnFails, Spawn, BuilderDone,
         ReadProbe, ReadUnlock, ReadSweep, ReadPeek, ClearOpen,
         ClearTryLock, ClearRemove, ClearDone, ClearFails, SwapEsm, mapped

\* A job's stamp is read once, and a job chosen once.
LEMMA JobFrame ==
    ASSUME Next
    PROVE  /\ sig' = sig \/ \E p \in Workers : Stat(p)
           /\ job' = job \/ \E p \in Workers : Open(p) \/ \E s \in Lazy : Ensure(p, s)
  BY DEF Next, WorkerStep, ClientStep, BuilderStep, ObserverStep, ClearerStep,
         Open, Stat, MapSection, Attach, Ensure, Lock, Publish, Tick, Writing, Write,
         Remap, DropLease, Unlock, Fail, BuildFails, PublishFails, Crash, Close,
         SpawnFails, Spawn, BuilderDone, Exit, ReadProbe, ReadUnlock, ReadSweep,
         ReadPeek, ClearOpen, ClearTryLock, ClearRemove, ClearDone, ClearFails, SwapEsm

\* What is left of a pass changes as it starts and as it proceeds.
LEMMA TodoFrame ==
    ASSUME Next
    PROVE  \/ todo' = todo
           \/ \E p \in Workers : \/ Stat(p) \/ MapSection(p) \/ Publish(p) \/ Writing(p)
                                 \/ Remap(p) \/ PublishFails(p) \/ Crash(p)
           \/ \E b \in Builders : Exit(b)
           \/ \E k \in Clearers : ClearOpen(k) \/ ClearRemove(k)
  BY DEF Next, WorkerStep, ClientStep, BuilderStep, ObserverStep, ClearerStep,
         Open, Attach, Ensure, Lock, Tick, Write, DropLease, Unlock, Fail, BuildFails,
         Close, SpawnFails, Spawn, BuilderDone, ReadProbe, ReadUnlock, ReadSweep,
         ReadPeek, ClearTryLock, ClearDone, ClearFails, SwapEsm

-----------------------------------------------------------------------------
(* Types *)

\* Stamps and empty views are what the types say.
LEMMA StampFacts == 0 \in Stamps /\ Gens \subseteq Stamps /\ NoView \in [Sections -> SUBSET Stamps]
  BY DEF Stamps, NoView

\* A job is a nonempty set of sections.
LEMMA JobFacts == \A j \in Jobs : j \subseteq Sections /\ j # {}
<1> SUFFICES ASSUME NEW j \in Jobs PROVE j \subseteq Sections /\ j # {}
  OBVIOUS
<1>1. CASE j = Eager
  BY <1>1 DEF Sections, Eager
<1>2. CASE j \in {{s} : s \in Lazy}
  BY <1>2 DEF Sections
<1> QED
  BY <1>1, <1>2 DEF Jobs

\* The initial state has the right types.
LEMMA InitType == Init => TypeOK
<1> SUFFICES ASSUME Init PROVE TypeOK
  OBVIOUS
<1>1. PcTypeOK
  BY DEF Init, PcTypeOK, Procs, Workers, WorkerPcs, ObserverPcs, ClearerPcs
<1>2. JobTypeOK
  BY StampFacts DEF Init, JobTypeOK, Jobs
<1>3. DiskTypeOK
  BY StampFacts DEF Init, DiskTypeOK, Absent, Gens
<1> QED
  BY <1>1, <1>2, <1>3, StampFacts
     DEF Init, TypeOK, LeaseTypeOK, ViewTypeOK, FamilyTypeOK, BudgetTypeOK, NoHb, Sections, Eager

\* Steps keep the types, one part of TypeOK after the other.
LEMMA DiskType == TypeOK /\ Next => DiskTypeOK'
<1> SUFFICES ASSUME TypeOK, Next PROVE DiskTypeOK'
  OBVIOUS
<1>1. esm' \in Gens
  <2>1. esm' = esm \/ SwapEsm
    BY DEF Next, WorkerStep, ClientStep, BuilderStep, ObserverStep, ClearerStep,
         Open, Stat, MapSection, Attach, Ensure, Lock, Publish, Tick, Writing, Write,
         Remap, DropLease, Unlock, Fail, BuildFails, PublishFails, Crash, Close,
         SpawnFails, Spawn, BuilderDone, Exit, ReadProbe, ReadUnlock, ReadSweep,
         ReadPeek, ClearOpen, ClearTryLock, ClearRemove, ClearDone, ClearFails, disk
  <2> QED
    BY <2>1 DEF SwapEsm, TypeOK, DiskTypeOK, Gens
<1>2. file' \in [Sections -> [sig : Stamps, from : SUBSET Stamps]]
  <2>1. ASSUME NEW p \in Workers, Write(p)
        PROVE  file' \in [Sections -> [sig : Stamps, from : SUBSET Stamps]]
    <3>1. PICK s \in todo[p] : file' = [file EXCEPT ![s] = [sig |-> sig[p], from |-> Derived(p, s)]]
      BY <2>1 DEF Write
    <3>2. Derived(p, s) \subseteq Stamps
      <4>1. mm[p] \in Stamps /\ view[p]["forms"] \in SUBSET Stamps
        BY DEF Sections, Eager, TypeOK, JobTypeOK, ViewTypeOK
      <4>2. \/ Derived(p, s) = {mm[p]}
            \/ Derived(p, s) = {mm[p]} \cup view[p]["forms"]
        BY DEF Derived
      <4>3. {mm[p]} \subseteq Stamps /\ {mm[p]} \cup view[p]["forms"] \subseteq Stamps
        BY <4>1
      <4> QED
        BY <4>2, <4>3, Zenon
    <3>3. [sig |-> sig[p], from |-> Derived(p, s)] \in [sig : Stamps, from : SUBSET Stamps]
      BY <3>2 DEF TypeOK, JobTypeOK
    <3> QED
      BY <3>1, <3>3 DEF TypeOK, DiskTypeOK
  <2>2. ASSUME NEW k \in Clearers, ClearRemove(k)
        PROVE  file' \in [Sections -> [sig : Stamps, from : SUBSET Stamps]]
    <3>1. PICK s \in todo[k] : file' = [file EXCEPT ![s] = Absent]
      BY <2>2 DEF ClearRemove
    <3>2. Absent \in [sig : Stamps, from : SUBSET Stamps]
      BY StampFacts DEF Absent
    <3> QED
      BY <3>1, <3>2 DEF TypeOK, DiskTypeOK
  <2> QED
    BY <2>1, <2>2, FileFrame DEF TypeOK, DiskTypeOK
<1>3. torn' \subseteq Gens
  BY TornFrame DEF Stat, TypeOK, DiskTypeOK
<1> QED
  BY <1>1, <1>2, <1>3 DEF DiskTypeOK

\* The lock and the heartbeat name processes that may own them.
LEMMA LeaseType == TypeOK /\ Next => LeaseTypeOK'
<1> SUFFICES ASSUME TypeOK, Next PROVE LeaseTypeOK'
  OBVIOUS
<1>1. lockFile' = lockFile \/ lockFile' = TRUE
  BY DEF Next, WorkerStep, ClientStep, BuilderStep, ObserverStep, ClearerStep,
         Open, Stat, MapSection, Attach, Ensure, Lock, Publish, Tick, Writing, Write,
         Remap, DropLease, Unlock, Fail, BuildFails, PublishFails, Crash, Close,
         SpawnFails, Spawn, BuilderDone, Exit, ReadProbe, ReadUnlock, ReadSweep,
         ReadPeek, ClearOpen, ClearTryLock, ClearRemove, ClearDone, ClearFails, SwapEsm, lease
<1>2. holder' \in Procs \cup {NoProc}
  <2>1. holder' = holder \/ holder' = NoProc \/ \E p \in Procs : holder' = p
    BY HolderFrame DEF Lock, Unlock, Crash, ReadProbe, ReadUnlock, ClearTryLock,
                       ClearDone, ClearFails, Procs
  <2> QED
    BY <2>1 DEF TypeOK, LeaseTypeOK
<1>3. hb' \in [pid : Workers \cup {NoProc}, writing : BOOLEAN]
  <2>1. \/ hb' = hb
        \/ hb' = [pid |-> NoProc, writing |-> FALSE]
        \/ \E p \in Workers : \/ hb' = [pid |-> p, writing |-> TRUE]
                              \/ hb' = [pid |-> p, writing |-> FALSE]
    BY HbFrame DEF Publish, Tick, Writing, DropLease, ReadSweep, Heartbeat, NoHb
  <2>2. hb \in [pid : Workers \cup {NoProc}, writing : BOOLEAN]
    BY DEF TypeOK, LeaseTypeOK
  <2>3. \A p \in Workers \cup {NoProc}, w \in BOOLEAN :
           [pid |-> p, writing |-> w] \in [pid : Workers \cup {NoProc}, writing : BOOLEAN]
    OBVIOUS
  <2> QED
    BY <2>1, <2>2, <2>3, Zenon
<1> QED
  BY <1>1, <1>2, <1>3 DEF LeaseTypeOK, TypeOK

\* Ending a job.
LEMMA EndJobType ==
    ASSUME TypeOK, NEW p \in Workers, NEW success, EndJob(p, success)
    PROVE  /\ mm' \in [Workers -> Stamps]
           /\ view' \in [Workers -> [Sections -> SUBSET Stamps]]
<1>1. mm' \in [Workers -> Stamps]
  BY StampFacts DEF EndJob, TypeOK, JobTypeOK
<1>2. view' \in [Workers -> [Sections -> SUBSET Stamps]]
  BY StampFacts DEF EndJob, TypeOK, ViewTypeOK
<1> QED
  BY <1>1, <1>2

\* Mappings hold derivations.
LEMMA ViewType == TypeOK /\ Next => ViewTypeOK'
<1> SUFFICES ASSUME TypeOK, Next PROVE ViewTypeOK'
  OBVIOUS
<1> USE DEF ViewTypeOK
<1>0. view \in [Workers -> [Sections -> SUBSET Stamps]]
  BY DEF TypeOK
<1>1. ASSUME NEW p \in Workers, MapSection(p) \/ Remap(p) PROVE ViewTypeOK'
  <2>1. PICK s \in Sections : view' = view \/ view' = [view EXCEPT ![p][s] = file[s].from]
    BY <1>1 DEF MapSection, Remap, TypeOK, JobTypeOK
  <2>2. file[s].from \in SUBSET Stamps
    BY DEF TypeOK, DiskTypeOK
  <2> QED
    BY <1>0, <2>1, <2>2
<1>2. ASSUME NEW p \in Workers, Attach(p) PROVE ViewTypeOK'
  BY <1>0, <1>2 DEF Attach, TypeOK, DiskTypeOK
<1>3. ASSUME NEW p \in Workers, Unlock(p) \/ Fail(p) PROVE ViewTypeOK'
  BY <1>3, EndJobType DEF Unlock, Fail
<1>4. ASSUME NEW p \in Workers, Crash(p) \/ Close(p) \/ Exit(p) PROVE ViewTypeOK'
  BY <1>0, <1>4, StampFacts DEF Crash, Close, Exit
<1> QED
  BY <1>0, <1>1, <1>2, <1>3, <1>4, ViewFrame DEF Workers

\* Mapped generations, stamps, jobs and what is left of them.
LEMMA JobType == TypeOK /\ Next => JobTypeOK'
<1> SUFFICES ASSUME TypeOK, Next PROVE JobTypeOK'
  OBVIOUS
<1>1. mm' \in [Workers -> Stamps]
  <2>1. ASSUME NEW p \in Workers, Unlock(p) \/ Fail(p) PROVE mm' \in [Workers -> Stamps]
    BY <2>1, EndJobType DEF Unlock, Fail
  <2>2. ASSUME NEW p \in Workers, Open(p) \/ Crash(p) \/ Close(p) \/ Exit(p)
        PROVE  mm' \in [Workers -> Stamps]
    BY <2>2, StampFacts DEF Open, Crash, Close, Exit, TypeOK, JobTypeOK, DiskTypeOK
  <2> QED
    BY <2>1, <2>2, MmFrame DEF Workers, TypeOK, JobTypeOK
<1>2. sig' \in [Workers -> Stamps]
  BY JobFrame, StampFacts DEF Stat, TypeOK, JobTypeOK, DiskTypeOK
<1>3. job' \in [Workers -> Jobs]
  BY JobFrame DEF Open, Ensure, Jobs, TypeOK, JobTypeOK
<1>4. todo' \in [Workers \cup Clearers -> SUBSET Sections]
  <2>0. todo \in [Workers \cup Clearers -> SUBSET Sections]
    BY DEF TypeOK, JobTypeOK
  <2>1. \A p \in Workers : job[p] \in SUBSET Sections
    BY JobFacts DEF TypeOK, JobTypeOK
  <2>2. ASSUME NEW p \in Workers,
               Stat(p) \/ MapSection(p) \/ Publish(p) \/ Writing(p) \/ Remap(p) \/ PublishFails(p)
        PROVE  todo' \in [Workers \cup Clearers -> SUBSET Sections]
    <3>1. \/ todo' = [todo EXCEPT ![p] = job[p]]
          \/ todo' = todo
          \/ \E s \in Sections : todo' = [todo EXCEPT ![p] = todo[p] \ {s}]
      BY <2>0, <2>2 DEF Stat, MapSection, Publish, Writing, Remap, PublishFails
    <3> QED
      BY <2>0, <2>1, <3>1
  <2>3. ASSUME NEW p \in Workers, Crash(p) \/ Exit(p)
        PROVE  todo' \in [Workers \cup Clearers -> SUBSET Sections]
    BY <2>0, <2>1, <2>3 DEF Crash, Exit, Resume, Workers
  <2>4. ASSUME NEW k \in Clearers, ClearOpen(k) \/ ClearRemove(k)
        PROVE  todo' \in [Workers \cup Clearers -> SUBSET Sections]
    BY <2>0, <2>4 DEF ClearOpen, ClearRemove
  <2> QED
    BY <2>0, <2>2, <2>3, <2>4, TodoFrame DEF Workers
<1>5. ok' \in [Workers -> BOOLEAN]
  <2>0. ok \in [Workers -> BOOLEAN]
    BY DEF TypeOK, JobTypeOK
  <2>1. \/ ok' = ok
        \/ \E p \in Workers : \/ ok' = [ok EXCEPT ![p] = TRUE]
                              \/ ok' = [ok EXCEPT ![p] = FALSE]
    BY ZenonT(30) DEF Next, WorkerStep, ClientStep, BuilderStep, ObserverStep, ClearerStep,
         Open, Stat, MapSection, Attach, Ensure, Lock, Publish, Tick, Writing, Write,
         Remap, DropLease, Unlock, Fail, BuildFails, PublishFails, Crash, Close,
         SpawnFails, Spawn, BuilderDone, Exit, ReadProbe, ReadUnlock, ReadSweep,
         ReadPeek, ClearOpen, ClearTryLock, ClearRemove, ClearDone, ClearFails, SwapEsm, Workers
  <2> QED
    BY <2>0, <2>1
<1> QED
  BY <1>1, <1>2, <1>3, <1>4, <1>5 DEF JobTypeOK

\* Parents, children and the budgets.
LEMMA FamilyType == TypeOK /\ Next => FamilyTypeOK' /\ BudgetTypeOK'
<1> SUFFICES ASSUME TypeOK, Next PROVE FamilyTypeOK' /\ BudgetTypeOK'
  OBVIOUS
<1>1. \A c \in Clients : Stage(c) \in Sections
  <2> SUFFICES ASSUME NEW c \in Clients PROVE Stage(c) \in Sections
    OBVIOUS
  <2>1. job[c] \subseteq Sections /\ job[c] # {}
    BY JobFacts DEF TypeOK, JobTypeOK, Workers
  <2> QED
    BY <2>1 DEF Stage, Sections, Eager
<1>2. /\ \/ UNCHANGED family
         \/ \E c \in Clients, b \in Builders : Spawn(c, b)
         \/ goal' = goal /\ \E p \in Workers : \E success, to : Resume(p, success, to)
      /\ \/ UNCHANGED budget
         \/ crashes' \in {crashes, crashes + 1} /\ faults' \in {faults, faults + 1}
  BY DEF Next, WorkerStep, ClientStep, BuilderStep, ObserverStep, ClearerStep,
         Open, Stat, MapSection, Attach, Ensure, Lock, Publish, Tick, Writing, Write,
         Remap, DropLease, Unlock, Fail, BuildFails, PublishFails, Crash, Close,
         SpawnFails, Spawn, BuilderDone, Exit, ReadProbe, ReadUnlock, ReadSweep,
         ReadPeek, ClearOpen, ClearTryLock, ClearRemove, ClearDone, ClearFails, SwapEsm, Workers,
         family, budget
<1> QED
  BY <1>1, <1>2 DEF Spawn, Resume, family, budget, TypeOK, FamilyTypeOK, BudgetTypeOK

\* A worker that moves to a worker's step leaves everyone where they belong.
LEMMA WorkerMoves ==
    ASSUME PcTypeOK, NEW p \in Workers, NEW to \in WorkerPcs,
           pc' = [pc EXCEPT ![p] = to]
    PROVE  PcTypeOK'
  BY DEF PcTypeOK, Workers, Procs

\* Where a pass over sections and a job continue.
LEMMA NextPcs ==
    ASSUME NEW p \in Workers
    PROVE  /\ \A success : AfterJob(p, success) \in WorkerPcs
           /\ pc[p] \in MapPcs => AfterFound(p) \in WorkerPcs /\ AfterMissing(p) \in WorkerPcs
<1>1. \A success : AfterJob(p, success) \in WorkerPcs
  BY DEF AfterJob, WorkerPcs
<1>2. pc[p] \in MapPcs => AfterFound(p) \in WorkerPcs /\ AfterMissing(p) \in WorkerPcs
  BY DEF AfterFound, AfterMissing, MapPcs, WorkerPcs, LeasePcs
<1> QED
  BY <1>1, <1>2

\* Every process stays at one of its own steps.
LEMMA PcType == TypeOK /\ Next => PcTypeOK'
<1> SUFFICES ASSUME TypeOK, Next PROVE PcTypeOK'
  OBVIOUS
<1>0. PcTypeOK
  BY DEF TypeOK
<1>1. ASSUME NEW p \in Workers, WorkerStep(p) PROVE PcTypeOK'
  <2>1. CASE Crash(p)
    BY <1>0, <2>1 DEF Crash, Resume, PcTypeOK, Workers, Procs, WorkerPcs, LeasePcs, MapPcs
  <2>2. CASE MapSection(p)
    <3>1. \/ pc' = pc
          \/ pc' = [pc EXCEPT ![p] = AfterFound(p)]
          \/ pc' = [pc EXCEPT ![p] = AfterMissing(p)]
      BY <2>2 DEF MapSection
    <3>2. pc[p] \in MapPcs
      BY <2>2 DEF MapSection
    <3>3. CASE pc' = pc
      BY <1>0, <3>3 DEF PcTypeOK
    <3> QED
      BY <1>0, <3>1, <3>2, <3>3, NextPcs, WorkerMoves
  <2>3. CASE Tick(p)
    BY <1>0, <2>3 DEF Tick, PcTypeOK
  <2>4. CASE Unlock(p) \/ Fail(p)
    <3>1. PICK success : pc' = [pc EXCEPT ![p] = AfterJob(p, success)]
      BY <2>4 DEF Unlock, Fail, EndJob
    <3> QED
      BY <1>0, <3>1, NextPcs, WorkerMoves
  <2>5. CASE ~(Crash(p) \/ MapSection(p) \/ Tick(p) \/ Unlock(p) \/ Fail(p))
    <3>1. PICK to \in WorkerPcs : pc' = [pc EXCEPT ![p] = to]
      BY <1>1, <2>5 DEF WorkerStep, Goto, Open, Stat, Attach, Ensure, Lock, Publish,
             Writing, Write, Remap, DropLease, BuildFails, PublishFails,
             WorkerPcs, LeasePcs, MapPcs
    <3> QED
      BY <1>0, <3>1, WorkerMoves
  <2> QED
    BY <2>1, <2>2, <2>3, <2>4, <2>5
<1>2. ASSUME NEW c \in Clients, ClientStep(c) PROVE PcTypeOK'
  <2>0. c \in Workers
    BY DEF Workers
  <2>1. CASE \E b \in Builders : Spawn(c, b)
    BY <1>0, <2>1 DEF Spawn, PcTypeOK, Workers, Procs, WorkerPcs
  <2>2. CASE Close(c) \/ SpawnFails(c)
    BY <1>0, <2>0, <2>2, WorkerMoves DEF Close, SpawnFails, Goto, WorkerPcs
  <2> QED
    BY <1>2, <2>1, <2>2 DEF ClientStep
<1>3. ASSUME NEW b \in Builders, BuilderStep(b) PROVE PcTypeOK'
  <2>0. b \in Workers
    BY DEF Workers
  <2>1. CASE BuilderDone(b)
    BY <1>0, <2>0, <2>1, WorkerMoves DEF BuilderDone, Goto, WorkerPcs
  <2>2. CASE Exit(b)
    BY <1>0, <2>2 DEF Exit, Resume, PcTypeOK, Workers, Procs, WorkerPcs, LeasePcs, MapPcs
  <2> QED
    BY <1>3, <2>1, <2>2 DEF BuilderStep
<1>4. ASSUME NEW o \in Observers, ObserverStep(o) PROVE PcTypeOK'
  <2>1. PICK to \in ObserverPcs : pc' = [pc EXCEPT ![o] = to]
    BY <1>4 DEF ObserverStep, ReadProbe, ReadUnlock, ReadSweep, ReadPeek, Goto, ObserverPcs
  <2> QED
    BY <1>0, <2>1 DEF PcTypeOK, Procs
<1>5. ASSUME NEW k \in Clearers, ClearerStep(k) PROVE PcTypeOK'
  <2>1. PICK to \in ClearerPcs : pc' = [pc EXCEPT ![k] = to] \/ pc' = pc
    BY <1>5 DEF ClearerStep, ClearOpen, ClearTryLock, ClearRemove, ClearDone, ClearFails, Goto, ClearerPcs
  <2> QED
    BY <1>0, <2>1 DEF PcTypeOK, Procs
<1>6. CASE SwapEsm
  BY <1>0, <1>6 DEF SwapEsm, PcTypeOK
<1> QED
  BY <1>1, <1>2, <1>3, <1>4, <1>5, <1>6 DEF Next

\* Every step keeps every type.
LEMMA NextType == TypeOK /\ [Next]_vars => TypeOK'
<1>1. CASE UNCHANGED vars
  BY <1>1 DEF vars, TypeOK, DiskTypeOK, LeaseTypeOK, PcTypeOK, JobTypeOK, ViewTypeOK,
              FamilyTypeOK, BudgetTypeOK
<1> QED
  BY <1>1, DiskType, LeaseType, PcType, JobType, ViewType, FamilyType DEF TypeOK

\* The cache, its lock and the processes around it stay in the states the
\* model gives them.
THEOREM TypeCorrect == Spec => []TypeOK
  BY InitType, NextType, PTL DEF Spec

-----------------------------------------------------------------------------
(* The build lock *)

\* How a worker comes to be in its lease, an observer to hold the lock for
\* its probe, a clearer to be deleting.
LEMMA LeaseFrame ==
    ASSUME TypeOK, Next, NEW p \in Workers, pc'[p] \in LeasePcs
    PROVE  Lock(p) \/ (pc[p] \in LeasePcs /\ ~Unlock(p) /\ ~Crash(p))
<1>0. PcTypeOK /\ PcTypeOK'
  BY PcType DEF TypeOK
<1>1. ~Unlock(p) /\ ~Crash(p)
  <2>1. CASE Unlock(p)
    BY <1>0, <2>1 DEF Unlock, EndJob, AfterJob, PcTypeOK, LeasePcs, Procs
  <2>2. CASE Crash(p)
    BY <1>0, <2>2 DEF Crash, Resume, PcTypeOK, LeasePcs, Procs
  <2> QED
    BY <2>1, <2>2
<1> SUFFICES ASSUME pc[p] \notin LeasePcs PROVE Lock(p)
  BY <1>1
<1>2. ASSUME NEW q \in Workers, WorkerStep(q) PROVE Lock(p)
  <2>1. CASE q = p
    <3>1. CASE MapSection(p)
      BY <1>0, <3>1 DEF MapSection, AfterFound, AfterMissing, PcTypeOK, LeasePcs, MapPcs, Procs
    <3>2. CASE Fail(p)
      BY <1>0, <3>2 DEF Fail, EndJob, AfterJob, PcTypeOK, LeasePcs, Procs
    <3> QED
      BY <1>0, <1>1, <1>2, <2>1, <3>1, <3>2
         DEF WorkerStep, Goto, Open, Stat, Attach, Ensure, Publish, Tick, Writing,
             Write, Remap, DropLease, BuildFails, PublishFails, PcTypeOK, LeasePcs, Procs
  <2>2. CASE q # p
    <3>1. pc'[p] = pc[p] \/ pc'[p] \in {"redo", "lock"}
      BY <1>0, <1>2, <2>2
         DEF WorkerStep, Goto, Open, Stat, MapSection, Attach, Ensure, Lock, Publish, Tick,
             Writing, Write, Remap, DropLease, Unlock, EndJob, Fail, BuildFails, PublishFails,
             Crash, Resume, PcTypeOK, Procs
    <3> QED
      BY <3>1 DEF LeasePcs
  <2> QED
    BY <2>1, <2>2
<1>3. ASSUME NEW c \in Clients, ClientStep(c) PROVE FALSE
  BY <1>0, <1>3 DEF ClientStep, Goto, Close, SpawnFails, Spawn, PcTypeOK, LeasePcs, Procs, Workers
<1>4. ASSUME NEW b \in Builders, BuilderStep(b) PROVE FALSE
  BY <1>0, <1>4 DEF BuilderStep, Goto, BuilderDone, Exit, Resume, PcTypeOK, LeasePcs, Procs, Workers
<1>5. ASSUME NEW o \in Observers, ObserverStep(o) PROVE FALSE
  BY <1>0, <1>5 DEF ObserverStep, Goto, ReadProbe, ReadUnlock, ReadSweep, ReadPeek,
                    PcTypeOK, LeasePcs, Procs
<1>6. ASSUME NEW k \in Clearers, ClearerStep(k) PROVE FALSE
  BY <1>0, <1>6 DEF ClearerStep, Goto, ClearOpen, ClearTryLock, ClearRemove, ClearDone, ClearFails,
                    PcTypeOK, LeasePcs, Procs
<1>7. CASE SwapEsm
  BY <1>7 DEF SwapEsm
<1> QED
  BY <1>2, <1>3, <1>4, <1>5, <1>6, <1>7 DEF Next

\* Workers' steps leave the observers and the clearers alone.
LEMMA OthersFrame ==
    ASSUME TypeOK, Next, NEW q \in Observers \cup Clearers
    PROVE  \/ pc'[q] = pc[q]
           \/ q \in Observers /\ ObserverStep(q)
           \/ q \in Clearers /\ ClearerStep(q)
<1>0. PcTypeOK
  BY DEF TypeOK
<1>q. q \notin Workers /\ q \in Procs
  BY DEF Procs
<1>1. ASSUME NEW p \in Workers, WorkerStep(p) PROVE pc'[q] = pc[q]
  <2>1. CASE Crash(p)
    BY <1>0, <1>q, <2>1 DEF Crash, Resume, PcTypeOK, Workers
  <2>2. CASE MapSection(p)
    BY <1>0, <1>q, <2>2 DEF MapSection, PcTypeOK
  <2>3. CASE Unlock(p) \/ Fail(p)
    BY <1>0, <1>q, <2>3 DEF Unlock, Fail, EndJob, PcTypeOK
  <2> QED
    BY <1>0, <1>q, <1>1, <2>1, <2>2, <2>3
       DEF WorkerStep, Goto, Open, Stat, Attach, Ensure, Lock, Publish, Tick,
           Writing, Write, Remap, DropLease, BuildFails, PublishFails, PcTypeOK
<1>2. ASSUME NEW c \in Clients, ClientStep(c) PROVE pc'[q] = pc[q]
  BY <1>0, <1>2 DEF ClientStep, Goto, Close, SpawnFails, Spawn, PcTypeOK, Procs, Workers
<1>3. ASSUME NEW b \in Builders, BuilderStep(b) PROVE pc'[q] = pc[q]
  BY <1>0, <1>3 DEF BuilderStep, Goto, BuilderDone, Exit, Resume, PcTypeOK, Procs, Workers
<1>4. ASSUME NEW o \in Observers, ObserverStep(o), o # q PROVE pc'[q] = pc[q]
  BY <1>0, <1>4 DEF ObserverStep, Goto, ReadProbe, ReadUnlock, ReadSweep, ReadPeek, PcTypeOK, Procs
<1>5. ASSUME NEW k \in Clearers, ClearerStep(k), k # q PROVE pc'[q] = pc[q]
  BY <1>0, <1>5 DEF ClearerStep, Goto, ClearOpen, ClearTryLock, ClearRemove, ClearDone, ClearFails, PcTypeOK, Procs
<1>6. CASE SwapEsm
  BY <1>6 DEF SwapEsm
<1> QED
  BY <1>1, <1>2, <1>3, <1>4, <1>5, <1>6 DEF Next

\* The lock belongs to whoever is between taking and releasing it.  A clearer
\* that found no lock file has no lock, so the last part needs the file to
\* be there from the start.
HolderInv ==
    /\ LeaseExclusive
    /\ \A o \in Observers : pc[o] = "held" => holder = o
    /\ LockFileAtStart => /\ lockFile
                          /\ \A k \in Clearers : pc[k] = "clear" => holder = k

\* Nobody is in the lease, probing or deleting to begin with.
LEMMA HolderInit == Init => HolderInv
<1> SUFFICES ASSUME Init PROVE HolderInv
  OBVIOUS
<1>1. \A p \in Procs : pc[p] \in {"open", "off", "idle"}
  BY DEF Init
<1>2. lockFile = LockFileAtStart
  BY DEF Init
<1>3. LeaseExclusive
  BY <1>1 DEF LeaseExclusive, LeasePcs, Procs
<1> QED
  BY <1>1, <1>2, <1>3 DEF HolderInv, Procs

\* Every step keeps the lock with its owner.
LEMMA HolderNext == TypeOK /\ HolderInv /\ [Next]_vars => HolderInv'
<1> SUFFICES ASSUME TypeOK, HolderInv, Next PROVE HolderInv'
  <2>1. CASE UNCHANGED vars
    BY <2>1 DEF vars, HolderInv, LeaseExclusive
  <2> QED
    BY <2>1
<1>0. PcTypeOK /\ holder \in Procs \cup {NoProc}
  BY DEF TypeOK, LeaseTypeOK
<1>1. ASSUME NEW p \in Workers, pc'[p] \in LeasePcs PROVE holder' = p
  <2>1. CASE Lock(p)
    BY <2>1 DEF Lock
  <2>2. CASE pc[p] \in LeasePcs /\ ~Unlock(p) /\ ~Crash(p)
    <3>1. holder = p /\ p \in Procs /\ p # NoProc
      BY <2>2 DEF HolderInv, LeaseExclusive, Procs
    <3>2. \A q \in Workers : Unlock(q) => q = p
      BY <3>1 DEF Unlock, HolderInv, LeaseExclusive, LeasePcs
    <3>3. \A o \in Observers : ~ReadUnlock(o)
      BY <3>1 DEF ReadUnlock, Goto, HolderInv
    <3> QED
      BY <2>2, <3>1, <3>2, <3>3, HolderFrame
         DEF Lock, Crash, ReadProbe, ClearTryLock, ClearDone, ClearFails
  <2> QED
    BY <1>1, <2>1, <2>2, LeaseFrame
<1>2. ASSUME NEW o \in Observers, pc'[o] = "held" PROVE holder' = o
  <2>0. o \in Procs /\ o # NoProc /\ o \notin Workers /\ o \notin Clearers
    BY DEF Procs
  <2>1. ReadProbe(o) \/ (pc[o] = "held" /\ ~ReadUnlock(o))
    BY <1>0, <1>2, <2>0, OthersFrame DEF ObserverStep, Goto, ReadProbe, ReadUnlock, ReadSweep, ReadPeek, PcTypeOK
  <2>2. CASE ReadProbe(o)
    BY <1>0, <1>2, <2>0, <2>2 DEF ReadProbe, PcTypeOK
  <2>3. CASE pc[o] = "held" /\ ~ReadUnlock(o)
    <3>1. holder = o
      BY <2>3 DEF HolderInv
    <3>2. \A q \in Workers : ~Unlock(q) /\ (Crash(q) => holder' = holder)
      BY <2>0, <3>1 DEF Unlock, Crash, HolderInv, LeaseExclusive, LeasePcs
    <3>3. \A q \in Observers : ReadUnlock(q) => q = o
      BY <3>1 DEF ReadUnlock, Goto, HolderInv
    <3> QED
      BY <2>0, <2>3, <3>1, <3>2, <3>3, HolderFrame
         DEF Lock, ReadProbe, ClearTryLock, ClearDone, ClearFails
  <2> QED
    BY <2>1, <2>2, <2>3
<1>3. ASSUME LockFileAtStart PROVE lockFile'
  <2>1. lockFile
    BY <1>3 DEF HolderInv
  <2> QED
    BY <2>1 DEF Next, WorkerStep, ClientStep, BuilderStep, ObserverStep, ClearerStep,
         Open, Stat, MapSection, Attach, Ensure, Lock, Publish, Tick, Writing, Write,
         Remap, DropLease, Unlock, Fail, BuildFails, PublishFails, Crash, Close,
         SpawnFails, Spawn, BuilderDone, Exit, ReadProbe, ReadUnlock, ReadSweep,
         ReadPeek, ClearOpen, ClearTryLock, ClearRemove, ClearDone, ClearFails, SwapEsm, lease
<1>4. ASSUME LockFileAtStart, NEW k \in Clearers, pc'[k] = "clear" PROVE holder' = k
  <2>0. k \in Procs /\ k # NoProc /\ k \notin Workers /\ k \notin Observers
    BY DEF Procs
  <2>1. lockFile
    BY <1>4 DEF HolderInv
  <2>2. ClearTryLock(k) \/ (pc[k] = "clear" /\ ~ClearDone(k) /\ ~ClearFails(k))
    BY <1>0, <1>4, <2>0, <2>1, OthersFrame DEF ClearerStep, Goto, ClearOpen, ClearTryLock, ClearRemove, ClearDone, ClearFails, PcTypeOK
  <2>3. CASE ClearTryLock(k)
    BY <1>0, <1>4, <2>0, <2>3 DEF ClearTryLock, Goto, PcTypeOK
  <2>4. CASE pc[k] = "clear" /\ ~ClearDone(k) /\ ~ClearFails(k)
    <3>1. holder = k
      BY <1>4, <2>4 DEF HolderInv
    <3>2. \A q \in Workers : ~Unlock(q) /\ (Crash(q) => holder' = holder)
      BY <2>0, <3>1 DEF Unlock, Crash, HolderInv, LeaseExclusive, LeasePcs
    <3>3. \A q \in Observers : ~ReadUnlock(q)
      BY <2>0, <3>1 DEF ReadUnlock, Goto, HolderInv
    <3>4. \A q \in Clearers : ClearDone(q) \/ ClearFails(q) => holder' = holder
      BY <2>4, <3>1 DEF ClearDone, ClearFails
    <3> QED
      BY <2>0, <2>4, <3>1, <3>2, <3>3, <3>4, HolderFrame DEF Lock, ReadProbe, ClearTryLock
  <2> QED
    BY <2>2, <2>3, <2>4
<1> QED
  BY <1>1, <1>2, <1>3, <1>4 DEF HolderInv, LeaseExclusive

\* At every moment at most one process is between the grant and the release
\* of the build lease, whatever the observers, the clearers and the crashes.
THEOREM LeaseIsExclusive == Spec => []LeaseExclusive
<1>1. Init => TypeOK /\ HolderInv
  BY InitType, HolderInit
<1>2. TypeOK /\ HolderInv /\ [Next]_vars => TypeOK' /\ HolderInv'
  BY NextType, HolderNext
<1>3. TypeOK /\ HolderInv => LeaseExclusive
  BY DEF HolderInv
<1> QED
  BY <1>1, <1>2, <1>3, PTL DEF Spec

\* When the lock file exists, `cache clear` deletes nothing under a build.
THEOREM ClearWaitsItsTurn == ASSUME LockFileAtStart PROVE Spec => []ClearExcludesBuild
<1>1. Init => TypeOK /\ HolderInv
  BY InitType, HolderInit
<1>2. TypeOK /\ HolderInv /\ [Next]_vars => TypeOK' /\ HolderInv'
  BY NextType, HolderNext
<1>3. TypeOK /\ HolderInv => ClearExcludesBuild
  BY DEF HolderInv, LeaseExclusive, ClearExcludesBuild, Procs
<1> QED
  BY <1>1, <1>2, <1>3, PTL DEF Spec

-----------------------------------------------------------------------------
(* The path of a job through a worker *)

\* What a worker keeps to itself.
Kept(p) ==
    /\ mm'[p] = mm[p] /\ sig'[p] = sig[p] /\ job'[p] = job[p] /\ view'[p] = view[p]

\* A worker moves by its own steps, when a client starts it, and when the
\* child it waits for ends.
LEMMA WorkerFrame ==
    ASSUME TypeOK, Next, NEW p \in Workers
    PROVE  \/ Kept(p) /\ todo'[p] = todo[p] /\ pc'[p] = pc[p]
           \/ Kept(p) /\ todo'[p] = todo[p] /\ pc[p] = "off" /\ pc'[p] = "open"
           \/ Kept(p) /\ todo'[p] = job[p] /\ pc[p] = "wait" /\ pc'[p] \in {"redo", "lock"}
           \/ WorkerStep(p)
           \/ p \in Clients /\ ClientStep(p)
           \/ p \in Builders /\ BuilderStep(p)
<1> DEFINE Still == Kept(p) /\ todo'[p] = todo[p] /\ pc'[p] = pc[p]
           Resumed == Kept(p) /\ todo'[p] = job[p] /\ pc[p] = "wait" /\ pc'[p] \in {"redo", "lock"}
<1>0. /\ p \in Procs /\ p \notin Observers /\ p \notin Clearers
      /\ PcTypeOK /\ JobTypeOK /\ ViewTypeOK
  BY DEF TypeOK, Procs
<1>r. ASSUME NEW q \in Workers, NEW success, NEW to, Resume(q, success, to), q # p,
             mm' = [mm EXCEPT ![q] = 0], view' = [view EXCEPT ![q] = NoView],
             sig' = sig, job' = job
      PROVE  Still \/ Resumed
  <2>1. Kept(p)
    BY <1>0, <1>r DEF Kept, JobTypeOK, ViewTypeOK
  <2>2. pc'[p] = pc[p] \/ (pc[p] = "wait" /\ p \in Clients /\ child[p] = q /\ pc'[p] \in {"redo", "lock"})
    BY <1>0, <1>r DEF Resume
  <2>3. todo'[p] = IF p \in Clients /\ pc[p] = "wait" /\ child[p] = q THEN job[p] ELSE todo[p]
    BY <1>r DEF Resume
  <2>4. p \in Clients /\ pc[p] = "wait" /\ child[p] = q => pc'[p] \in {"redo", "lock"}
    BY <1>0, <1>r DEF Resume
  <2> QED
    BY <2>1, <2>2, <2>3, <2>4
<1>1. ASSUME NEW q \in Workers, WorkerStep(q), q # p PROVE Still \/ Resumed
  <2>1. CASE Crash(q)
    BY <1>r, <1>1, <2>1 DEF Crash
  <2>2. CASE Unlock(q) \/ Fail(q)
    BY <1>0, <1>1, <2>2 DEF Unlock, Fail, EndJob, Kept, PcTypeOK, JobTypeOK, ViewTypeOK
  <2>3. CASE MapSection(q) \/ Remap(q)
    BY <1>0, <1>1, <2>3 DEF MapSection, Remap, Kept, PcTypeOK, JobTypeOK, ViewTypeOK
  <2>4. CASE Open(q) \/ Stat(q) \/ Attach(q) \/ (\E s \in Lazy : Ensure(q, s))
    BY <1>0, <1>1, <2>4 DEF Open, Stat, Attach, Ensure, Goto, Kept, mapped, PcTypeOK, JobTypeOK, ViewTypeOK
  <2>5. CASE Lock(q) \/ Publish(q) \/ Tick(q) \/ Writing(q) \/ Write(q) \/ DropLease(q)
               \/ BuildFails(q) \/ PublishFails(q)
    BY <1>0, <1>1, <2>5 DEF Lock, Publish, Tick, Writing, Write, DropLease, BuildFails,
          PublishFails, Goto, Kept, mapped, PcTypeOK, JobTypeOK, ViewTypeOK
  <2> QED
    BY <1>1, <2>1, <2>2, <2>3, <2>4, <2>5 DEF WorkerStep
<1>2. ASSUME NEW c \in Clients, c # p, Close(c) \/ SpawnFails(c) PROVE Still
  BY <1>0, <1>2 DEF Close, SpawnFails, Goto, Kept, mapped, PcTypeOK, JobTypeOK, ViewTypeOK
<1>3. ASSUME NEW c \in Clients, c # p, NEW b \in Builders, Spawn(c, b)
      PROVE  Still \/ (Kept(p) /\ todo'[p] = todo[p] /\ pc[p] = "off" /\ pc'[p] = "open")
  BY <1>0, <1>3 DEF Spawn, Kept, mapped, PcTypeOK, JobTypeOK, ViewTypeOK
<1>4. ASSUME NEW b \in Builders, b # p, BuilderStep(b) PROVE Still \/ Resumed
  <2>1. CASE BuilderDone(b)
    BY <1>0, <1>4, <2>1 DEF BuilderDone, Goto, Kept, mapped, PcTypeOK, JobTypeOK, ViewTypeOK
  <2>2. CASE Exit(b)
    BY <1>r, <1>4, <2>2 DEF Exit, Workers
  <2> QED
    BY <1>4, <2>1, <2>2 DEF BuilderStep
<1>5. ASSUME NEW o \in Observers, ObserverStep(o) PROVE Still
  BY <1>0, <1>5 DEF ObserverStep, ReadProbe, ReadUnlock, ReadSweep, ReadPeek, Goto, Kept, mapped, PcTypeOK
<1>6. ASSUME NEW k \in Clearers, ClearerStep(k) PROVE Still
  BY <1>0, <1>6 DEF ClearerStep, ClearOpen, ClearTryLock, ClearRemove, ClearDone, ClearFails,
                    Goto, Kept, mapped, PcTypeOK, JobTypeOK
<1>7. CASE SwapEsm
  BY <1>7 DEF SwapEsm, Kept, mapped
<1> QED
  BY <1>1, <1>2, <1>3, <1>4, <1>5, <1>6, <1>7 DEF Next, ClientStep

PassPcs == {"probe", "redo", "recheck", "write", "remap"}
OnJob   == LeasePcs \cup MapPcs \cup {"spawn", "wait", "lock", "attach"}

\* A worker has a database from its open to its close, a stamp from the stat
\* on, and what is left of a pass belongs to the job.
Flow(p) ==
    /\ pc[p] \in {"off", "open", "dead"} => mm[p] = 0 /\ view[p] = NoView
    /\ pc[p] \notin {"off", "open", "dead"} => mm[p] # 0
    /\ pc[p] \in PassPcs => todo[p] \subseteq job[p]
    /\ pc[p] \in OnJob => sig[p] # 0
FlowInv == \A p \in Workers : Flow(p)

\* Nobody has a database to begin with.
LEMMA FlowInit == Init => FlowInv
<1> SUFFICES ASSUME Init, NEW p \in Workers PROVE Flow(p)
  BY DEF FlowInv
<1>1. pc[p] \in {"open", "off"}
  BY DEF Init, Procs, Workers
<1>2. mm[p] = 0 /\ view[p] = NoView
  BY DEF Init
<1> QED
  BY <1>1, <1>2 DEF Flow, PassPcs, OnJob, LeasePcs, MapPcs

\* Every step keeps that.
LEMMA FlowNext == TypeOK /\ FlowInv /\ [Next]_vars => FlowInv'
<1> SUFFICES ASSUME TypeOK, FlowInv, Next, NEW p \in Workers PROVE Flow(p)'
  BY DEF FlowInv, Flow, vars
<1>0. /\ Flow(p) /\ PcTypeOK /\ JobTypeOK /\ ViewTypeOK /\ esm # 0
      /\ p \in Procs /\ PcTypeOK'
  BY PcType DEF FlowInv, TypeOK, DiskTypeOK, Gens, Procs
<1> USE DEF Flow, PassPcs, OnJob, LeasePcs, MapPcs
<1>1. CASE Kept(p) /\ todo'[p] = todo[p] /\ (pc'[p] = pc[p] \/ (pc[p] = "off" /\ pc'[p] = "open"))
  BY <1>0, <1>1 DEF Kept
<1>2. CASE Kept(p) /\ todo'[p] = job[p] /\ pc[p] = "wait" /\ pc'[p] \in {"redo", "lock"}
  BY <1>0, <1>2 DEF Kept
<1>3. CASE Open(p) \/ Stat(p) \/ Attach(p) \/ (\E s \in Lazy : Ensure(p, s))
  BY <1>0, <1>3 DEF Open, Stat, Attach, Ensure, Goto, mapped, PcTypeOK, JobTypeOK, ViewTypeOK
<1>4. CASE Lock(p) \/ Publish(p) \/ Tick(p) \/ Writing(p) \/ Write(p) \/ DropLease(p)
           \/ BuildFails(p) \/ PublishFails(p)
  BY <1>0, <1>4 DEF Lock, Publish, Tick, Writing, Write, DropLease, BuildFails, PublishFails,
                    Goto, mapped, PcTypeOK, JobTypeOK
<1>5. CASE MapSection(p)
  <2>1. pc[p] \in MapPcs /\ mm' = mm /\ sig' = sig /\ job' = job
    BY <1>5 DEF MapSection
  <2>2. todo'[p] \subseteq todo[p]
    BY <1>0, <1>5 DEF MapSection, JobTypeOK
  <2>3. pc'[p] = pc[p] \/ pc'[p] \in {"drop", "attach", "idle", "spawn", "lock", "build"}
    BY <1>0, <1>5 DEF MapSection, AfterFound, AfterMissing, PcTypeOK
  <2> QED
    BY <1>0, <2>1, <2>2, <2>3
<1>6. CASE Remap(p)
  <2>1. pc[p] = "remap" /\ mm' = mm /\ sig' = sig /\ job' = job
    BY <1>6 DEF Remap
  <2>2. todo'[p] \subseteq todo[p]
    BY <1>0, <1>6 DEF Remap, JobTypeOK
  <2>3. pc'[p] \in {"drop", "write"}
    BY <1>0, <1>6 DEF Remap, PcTypeOK
  <2> QED
    BY <1>0, <2>1, <2>2, <2>3
<1>7. CASE Unlock(p) \/ Fail(p)
  <2>1. PICK success : EndJob(p, success)
    BY <1>7 DEF Unlock, Fail
  <2>2. pc[p] \in {"unlock", "stat", "lock"} /\ sig' = sig /\ (Fail(p) => success = FALSE \/ TRUE)
    BY <1>7 DEF Unlock, Fail
  <2>3. /\ pc'[p] = AfterJob(p, success)
        /\ mm'[p] = IF pc'[p] = "open" THEN 0 ELSE mm[p]
        /\ view'[p] = IF pc'[p] = "open" THEN NoView ELSE view[p]
    BY <1>0, <2>1 DEF EndJob, PcTypeOK, JobTypeOK, ViewTypeOK
  <2>4. pc'[p] = "attach" => pc[p] = "unlock"
    BY <1>7, <1>0 DEF Unlock, Fail, EndJob, AfterJob, PcTypeOK
  <2>5. pc'[p] \in {"attach", "idle", "exit", "open"}
    BY <2>3 DEF AfterJob
  <2> QED
    BY <1>0, <2>2, <2>3, <2>4, <2>5
<1>8. CASE Crash(p)
  BY <1>0, <1>8 DEF Crash, Resume, JobTypeOK, ViewTypeOK
<1>9. CASE p \in Clients /\ ClientStep(p)
  <2>1. CASE Close(p)
    BY <1>0, <2>1 DEF Close, Goto, PcTypeOK, JobTypeOK, ViewTypeOK
  <2>2. CASE SpawnFails(p) \/ \E b \in Builders : Spawn(p, b)
    BY <1>0, <2>2 DEF SpawnFails, Spawn, Goto, mapped, PcTypeOK
  <2> QED
    BY <1>9, <2>1, <2>2 DEF ClientStep
<1>10. CASE p \in Builders /\ BuilderStep(p)
  <2>1. CASE BuilderDone(p)
    BY <1>0, <2>1 DEF BuilderDone, Goto, mapped, PcTypeOK
  <2>2. CASE Exit(p)
    BY <1>0, <2>2 DEF Exit, Resume, JobTypeOK, ViewTypeOK
  <2> QED
    BY <1>10, <2>1, <2>2 DEF BuilderStep
<1> QED
  BY <1>1, <1>2, <1>3, <1>4, <1>5, <1>6, <1>7, <1>8, <1>9, <1>10, WorkerFrame DEF WorkerStep

-----------------------------------------------------------------------------
(* The heartbeat *)

\* ... and a process that gives up the lock has removed its heartbeat.
HbInv == HeartbeatHonest /\ \A p \in Workers : pc[p] = "unlock" => hb.pid # p

\* The dead stay dead.
LEMMA DeadStay ==
    ASSUME TypeOK, Next, NEW p \in Workers, pc[p] = "dead"
    PROVE  pc'[p] = "dead"
<1>0. PcTypeOK /\ p \in Procs
  BY DEF TypeOK, Procs
<1>1. ~WorkerStep(p)
  BY <1>0 DEF WorkerStep, Goto, Open, Stat, MapSection, Attach, Ensure, Lock, Publish, Tick,
         Writing, Write, Remap, DropLease, Unlock, Fail, BuildFails, PublishFails, Crash, MapPcs
<1>2. ~ClientStep(p) /\ ~BuilderStep(p)
  BY <1>0 DEF ClientStep, BuilderStep, Goto, Close, SpawnFails, Spawn, BuilderDone, Exit
<1> QED
  BY <1>1, <1>2, WorkerFrame

\* Every step keeps the heartbeat honest.
LEMMA HbNext == TypeOK /\ HolderInv /\ HbInv /\ [Next]_vars => HbInv'
<1> SUFFICES ASSUME TypeOK, HolderInv, HbInv, Next PROVE HbInv'
  BY DEF HbInv, HeartbeatHonest, vars
<1>0. /\ hb.pid \in Workers \cup {NoProc} /\ NoProc \notin Workers /\ PcTypeOK /\ PcTypeOK'
      /\ hb'.pid \in Workers \cup {NoProc}
  BY PcType, LeaseType DEF TypeOK, LeaseTypeOK, Procs
<1>1. HeartbeatHonest'
  <2> SUFFICES ASSUME hb'.pid # NoProc PROVE holder' = hb'.pid \/ pc'[hb'.pid] = "dead"
    BY DEF HeartbeatHonest
  <2>1. CASE hb' = hb
    <3>1. CASE pc[hb.pid] = "dead"
      BY <1>0, <2>1, <3>1, DeadStay
    <3>2. CASE holder = hb.pid /\ pc[hb.pid] # "dead"
      <4>1. \A q \in Workers : ~Lock(q) /\ (Unlock(q) => holder # q)
        BY <1>0, <2>1, <3>2 DEF Lock, Unlock, HbInv
      <4>2. \A q \in Workers : Unlock(q) => FALSE
        BY <4>1 DEF Unlock, HolderInv, LeaseExclusive, LeasePcs
      <4>3. \A q \in Workers : Crash(q) => holder' = holder \/ pc'[hb.pid] = "dead"
        BY <1>0, <2>1, <3>2 DEF Crash, Resume, Procs
      <4>4. \A o \in Observers : ~ReadUnlock(o) /\ (ReadProbe(o) => holder' = holder)
        BY <1>0, <2>1, <3>2 DEF ReadUnlock, ReadProbe, Goto, HolderInv
      <4>5. \A k \in Clearers : ClearTryLock(k) \/ ClearDone(k) \/ ClearFails(k) => holder' = holder
        BY <1>0, <2>1, <3>2 DEF ClearTryLock, ClearDone, ClearFails
      <4> QED
        BY <2>1, <3>2, <4>1, <4>2, <4>3, <4>4, <4>5, HolderFrame
    <3> QED
      BY <2>1, <3>1, <3>2 DEF HbInv, HeartbeatHonest
  <2>2. ASSUME NEW p \in Workers, Publish(p) \/ Tick(p) \/ Writing(p), hb' # hb
        PROVE  holder' = hb'.pid
    <3>1. hb'.pid = p
      BY <2>2 DEF Publish, Tick, Writing, Heartbeat
    <3>2. holder = p /\ holder' = holder
      BY <2>2 DEF Publish, Tick, Writing, Goto, HolderInv, LeaseExclusive, LeasePcs
    <3> QED
      BY <3>1, <3>2
  <2>3. ASSUME \/ \E p \in Workers : DropLease(p)
               \/ \E o \in Observers : ReadSweep(o)
        PROVE  FALSE
    BY <2>3 DEF DropLease, ReadSweep, NoHb
  <2> QED
    BY <2>1, <2>2, <2>3, HbFrame
<1>2. ASSUME NEW p \in Workers, pc'[p] = "unlock" PROVE hb'.pid # p
  <2>0. p \in Procs
    BY DEF Procs
  <2>1. CASE hb' = hb
    <3>1. ASSUME WorkerStep(p) PROVE DropLease(p) \/ pc[p] = "unlock"
      <4>1. ~Crash(p) /\ ~Unlock(p) /\ ~Fail(p)
        BY <1>0, <1>2, <2>0 DEF Crash, Resume, Unlock, Fail, EndJob, AfterJob, PcTypeOK
      <4>2. MapSection(p) => FALSE
        BY <1>0, <1>2, <2>0 DEF MapSection, AfterFound, AfterMissing, MapPcs, PcTypeOK
      <4> QED
        BY <1>0, <1>2, <2>0, <3>1, <4>1, <4>2 DEF WorkerStep, Goto, Open, Stat, Attach, Ensure,
              Lock, Publish, Tick, Writing, Write, Remap, BuildFails, PublishFails, PcTypeOK
    <3>2. ~ClientStep(p) /\ ~BuilderStep(p)
      BY <1>0, <1>2, <2>0 DEF ClientStep, BuilderStep, Goto, Close, SpawnFails, Spawn,
             BuilderDone, Exit, Resume, PcTypeOK
    <3>3. CASE DropLease(p)
      BY <1>0, <3>3 DEF DropLease, NoHb
    <3>4. CASE pc[p] = "unlock"
      BY <2>1, <3>4 DEF HbInv
    <3> QED
      BY <1>2, <3>1, <3>2, <3>3, <3>4, WorkerFrame
  <2>2. ASSUME NEW q \in Workers, Publish(q) \/ Tick(q) \/ Writing(q), hb' # hb
        PROVE  hb'.pid # p
    <3>1. hb'.pid = q /\ pc'[q] # "unlock"
      BY <1>0, <2>2 DEF Publish, Tick, Writing, Heartbeat, Goto, PcTypeOK, Procs
    <3> QED
      BY <1>2, <3>1
  <2>3. ASSUME (\E q \in Workers : DropLease(q)) \/ (\E o \in Observers : ReadSweep(o))
        PROVE  hb'.pid # p
    BY <1>0, <2>3 DEF DropLease, ReadSweep, NoHb
  <2> QED
    BY <2>1, <2>2, <2>3, HbFrame
<1> QED
  BY <1>1, <1>2 DEF HbInv

\* A heartbeat file is a live builder's, or the leftover of one that was
\* killed: a build that ended leaves none.
THEOREM HeartbeatIsHonest == Spec => []HeartbeatHonest
<1>1. Init => TypeOK /\ HolderInv /\ HbInv
  <2>1. Init => HbInv
    BY DEF Init, HbInv, HeartbeatHonest, NoHb, Procs
  <2> QED
    BY <2>1, InitType, HolderInit
<1>2. TypeOK /\ HolderInv /\ HbInv /\ [Next]_vars => TypeOK' /\ HolderInv' /\ HbInv'
  BY NextType, HolderNext, HbNext
<1>3. HbInv => HeartbeatHonest
  BY DEF HbInv
<1> QED
  BY <1>1, <1>2, <1>3, PTL DEF Spec

-----------------------------------------------------------------------------
(* What the section files and the mappings of them hold, from the lock     *)
(* discipline and the path of a job.                                       *)

\* The invariants this part builds on.
Discipline == TypeOK /\ HolderInv /\ FlowInv

\* They hold initially ...
LEMMA DisciplineInit == Init => Discipline
  BY InitType, HolderInit, FlowInit DEF Discipline

\* ... and every step keeps them.
LEMMA DisciplineNext == Discipline /\ [Next]_vars => Discipline'
  BY NextType, HolderNext, FlowNext DEF Discipline

\* While p has the lease no one else writes a section.
LEMMA OneWriter ==
    ASSUME Discipline, NEW p \in Workers, pc[p] \in LeasePcs, NEW q \in Workers, Write(q)
    PROVE  q = p
  BY DEF Discipline, HolderInv, LeaseExclusive, Write, Goto, LeasePcs

-----------------------------------------------------------------------------
(* The recheck *)

\* A worker starts building on a section it has just found missing.
LEMMA BuildStarts ==
    ASSUME Discipline, Next, NEW p \in Workers, pc'[p] = "build", pc[p] # "build"
    PROVE  \E s \in job[p] : /\ ~Maps(s, sig[p])
                             /\ file' = file /\ job' = job /\ sig' = sig
<1>0. TypeOK /\ PcTypeOK /\ p \in Procs /\ JobTypeOK
  BY DEF Discipline, TypeOK, Procs
<1>1. ASSUME WorkerStep(p) PROVE MapSection(p)
  <2>1. ~Crash(p) /\ ~Unlock(p) /\ ~Fail(p) /\ ~Remap(p)
    BY <1>0 DEF Crash, Resume, Unlock, Fail, EndJob, AfterJob, Remap, PcTypeOK
  <2> QED
    BY <1>0, <1>1, <2>1 DEF WorkerStep, Goto, Open, Stat, Attach, Ensure, Lock, Publish, Tick,
           Writing, Write, DropLease, BuildFails, PublishFails, PcTypeOK
<1>2. ~ClientStep(p) /\ ~BuilderStep(p)
  BY <1>0 DEF ClientStep, BuilderStep, Goto, Close, SpawnFails, Spawn, BuilderDone, Exit, Resume, PcTypeOK
<1>3. MapSection(p)
  BY <1>0, <1>1, <1>2, WorkerFrame
<1>4. pc[p] = "recheck"
  BY <1>0, <1>3 DEF MapSection, MapPcs, AfterFound, AfterMissing, PcTypeOK
<1>5. todo[p] \subseteq job[p]
  BY <1>4 DEF Discipline, FlowInv, Flow, PassPcs
<1>6. \E s \in todo[p] : ~Maps(s, sig[p])
  BY <1>0, <1>3, <1>4 DEF MapSection, AfterFound, PcTypeOK
<1> QED
  BY <1>3, <1>5, <1>6 DEF MapSection, disk

\* Every step keeps a build necessary.
LEMMA NoRedundantNext == Discipline /\ NoRedundantBuild /\ [Next]_vars => NoRedundantBuild'
<1> SUFFICES ASSUME Discipline, NoRedundantBuild, Next, NEW p \in Workers, pc'[p] = "build"
             PROVE  \E s \in job'[p] : ~Maps(s, sig[p])'
  BY DEF NoRedundantBuild, vars, Maps
<1>0. TypeOK /\ PcTypeOK /\ JobTypeOK /\ DiskTypeOK /\ p \in Procs
  BY DEF Discipline, TypeOK, Procs
<1>1. CASE pc[p] # "build"
  BY <1>1, BuildStarts DEF Maps
<1>2. CASE pc[p] = "build"
  <2>1. PICK s \in job[p] : file[s].sig # sig[p]
    BY <1>2 DEF NoRedundantBuild, Maps
  <2>2. sig[p] # 0 /\ s \in Sections
    BY <1>0, <1>2, JobFacts DEF Discipline, FlowInv, Flow, OnJob, LeasePcs, JobTypeOK
  <2>3. sig'[p] = sig[p] /\ job'[p] = job[p]
    BY <1>0, <1>2, JobFrame DEF Stat, Open, Ensure, Goto, JobTypeOK
  <2>4. \A q \in Workers : ~Write(q)
    BY <1>2, OneWriter DEF Write, Goto, LeasePcs
  <2>5. file'[s] = file[s] \/ file'[s] = Absent
    BY <1>0, <2>2, <2>4, FileFrame DEF ClearRemove, DiskTypeOK
  <2> QED
    BY <2>1, <2>2, <2>3, <2>5 DEF Maps, Absent
<1> QED
  BY <1>1, <1>2

\* However the processes interleave, a build under way is one that was
\* missing from the disk when the lease was had, and still is.
THEOREM NoBuildIsRedundant == Spec => []NoRedundantBuild
<1>1. Init => Discipline /\ NoRedundantBuild
  BY DisciplineInit DEF Init, NoRedundantBuild, Procs, Workers
<1>2. Discipline /\ NoRedundantBuild /\ [Next]_vars => Discipline' /\ NoRedundantBuild'
  BY DisciplineNext, NoRedundantNext
<1> QED
  BY <1>1, <1>2, PTL DEF Spec

-----------------------------------------------------------------------------
(* Mapping back what was just written *)

\* A job has one section to handle next.
LEMMA OneLead ==
    ASSUME NEW p \in Workers, JobTypeOK, todo[p] \subseteq job[p],
           NEW s, NEW t, Leads(s, todo[p]), Leads(t, todo[p])
    PROVE  s = t
<1>1. job[p] = Eager \/ \E l \in Lazy : job[p] = {l}
  BY DEF JobTypeOK, Jobs
<1>2. s \in job[p] /\ t \in job[p] /\ s \in todo[p] /\ t \in todo[p]
  BY DEF Leads
<1>3. CASE job[p] = Eager
  BY <1>2, <1>3 DEF Leads, Eager
<1> QED
  BY <1>1, <1>2, <1>3

\* A worker comes to the remap by its own write.
LEMMA RemapStarts ==
    ASSUME Discipline, Next, NEW p \in Workers, pc'[p] = "remap", pc[p] # "remap"
    PROVE  Write(p)
<1>0. TypeOK /\ PcTypeOK /\ p \in Procs /\ JobTypeOK
  BY DEF Discipline, TypeOK, Procs
<1>1. ASSUME WorkerStep(p) PROVE Write(p)
  <2>1. ~Crash(p) /\ ~Unlock(p) /\ ~Fail(p) /\ ~Remap(p)
    BY <1>0 DEF Crash, Resume, Unlock, Fail, EndJob, AfterJob, Remap, PcTypeOK
  <2>2. ~MapSection(p)
    BY <1>0 DEF MapSection, MapPcs, AfterFound, AfterMissing, PcTypeOK
  <2> QED
    BY <1>0, <1>1, <2>1, <2>2 DEF WorkerStep, Goto, Open, Stat, Attach, Ensure, Lock, Publish, Tick,
           Writing, DropLease, BuildFails, PublishFails, PcTypeOK
<1>2. ~ClientStep(p) /\ ~BuilderStep(p)
  BY <1>0 DEF ClientStep, BuilderStep, Goto, Close, SpawnFails, Spawn, BuilderDone, Exit, Resume, PcTypeOK
<1> QED
  BY <1>0, <1>1, <1>2, WorkerFrame

\* A worker between its write and its remap keeps all it derived from.
LEMMA RemapKeeps ==
    ASSUME Discipline, Next, NEW p \in Workers, pc'[p] = "remap", pc[p] = "remap"
    PROVE  /\ mm'[p] = mm[p] /\ sig'[p] = sig[p] /\ view'[p] = view[p]
           /\ todo'[p] = todo[p]
<1>0. TypeOK /\ PcTypeOK /\ p \in Procs
  BY DEF Discipline, TypeOK, Procs
<1>1. ~WorkerStep(p)
  <2>1. ~Crash(p) /\ ~Remap(p)
    BY <1>0 DEF Crash, Resume, Remap, PcTypeOK
  <2> QED
    BY <1>0, <2>1 DEF WorkerStep, Goto, Open, Stat, MapSection, Attach, Ensure, Lock, Publish, Tick,
           Writing, Write, DropLease, Unlock, Fail, BuildFails, PublishFails, MapPcs
<1>2. ~ClientStep(p) /\ ~BuilderStep(p)
  BY <1>0 DEF ClientStep, BuilderStep, Goto, Close, SpawnFails, Spawn, BuilderDone, Exit
<1> QED
  BY <1>0, <1>1, <1>2, WorkerFrame DEF Kept

\* Every step keeps what was just written where it can be mapped.
LEMMA RemapNext ==
    LockFileAtStart /\ Discipline /\ RemapSucceeds /\ [Next]_vars => RemapSucceeds'
<1> SUFFICES ASSUME LockFileAtStart, Discipline, RemapSucceeds, Next,
                    NEW p \in Workers, pc'[p] = "remap", NEW s, Leads(s, todo'[p])
             PROVE  file'[s] = [sig |-> sig'[p], from |-> Derived(p, s)']
  BY DEF RemapSucceeds, vars, Leads, Derived
<1>0. TypeOK /\ PcTypeOK /\ JobTypeOK /\ DiskTypeOK /\ p \in Procs
  BY DEF Discipline, TypeOK, Procs
<1>1. CASE pc[p] # "remap"
  <2>1. Write(p)
    BY <1>1, RemapStarts
  <2>2. todo' = todo /\ sig' = sig /\ mm' = mm /\ view' = view /\ pc[p] = "write"
    BY <2>1 DEF Write, Goto, mapped
  <2>3. todo[p] \subseteq job[p] /\ job[p] \subseteq Sections
    BY <1>0, <2>2, JobFacts DEF Discipline, FlowInv, Flow, PassPcs, JobTypeOK
  <2>4. PICK t \in todo[p] : /\ Leads(t, todo[p])
                             /\ file' = [file EXCEPT ![t] = [sig |-> sig[p], from |-> Derived(p, t)]]
    BY <2>1 DEF Write
  <2>5. s = t
    BY <1>0, <2>2, <2>3, <2>4, OneLead
  <2>6. file'[t] = [sig |-> sig[p], from |-> Derived(p, t)]
    BY <1>0, <2>3, <2>4 DEF DiskTypeOK
  <2>7. Derived(p, t)' = Derived(p, t)
    BY <2>2 DEF Derived
  <2> QED
    BY <2>2, <2>5, <2>6, <2>7
<1>2. CASE pc[p] = "remap"
  <2>1. mm'[p] = mm[p] /\ sig'[p] = sig[p] /\ view'[p] = view[p] /\ todo'[p] = todo[p]
    BY <1>2, RemapKeeps
  <2>2. file[s] = [sig |-> sig[p], from |-> Derived(p, s)]
    BY <1>2, <2>1 DEF RemapSucceeds, Leads
  <2>3. \A q \in Workers : ~Write(q)
    BY <1>2, OneWriter DEF Write, Goto, LeasePcs
  <2>4. \A k \in Clearers : ~ClearRemove(k)
    BY <1>2 DEF ClearRemove, Discipline, HolderInv, LeaseExclusive, LeasePcs, Procs
  <2>5. Derived(p, s)' = Derived(p, s)
    BY <2>1 DEF Derived
  <2> QED
    BY <2>1, <2>2, <2>3, <2>4, <2>5, FileFrame
<1> QED
  BY <1>1, <1>2

\* "This should never happen" never does, once the lock file exists: a build
\* that published a section maps that very content back.
THEOREM RemapNeverFails == ASSUME LockFileAtStart PROVE Spec => []RemapSucceeds
<1>1. Init => Discipline /\ RemapSucceeds
  BY DisciplineInit DEF Init, RemapSucceeds, Procs, Workers
<1>2. Discipline /\ RemapSucceeds /\ [Next]_vars => Discipline' /\ RemapSucceeds'
  BY DisciplineNext, RemapNext
<1> QED
  BY <1>1, <1>2, PTL DEF Spec

-----------------------------------------------------------------------------
(* What sections are derived from, with the ESM replaced at any time        *)

\* A worker's mapping and its stamp are of generations the ESM had, the stamp
\* of a job under way is no older than the mapping, and when it is newer its
\* generation is torn.  Nothing mapped is newer than the stamp.
Dated(p) ==
    /\ mm[p] <= esm /\ sig[p] <= esm
    /\ view[p] = NoView \/ mm[p] <= sig[p]
    /\ pc[p] \in OnJob => /\ mm[p] <= sig[p]
                          /\ mm[p] = sig[p] \/ sig[p] \in torn
    /\ \A s \in Sections : view[p][s] \subseteq 1 .. sig[p]
DatedInv == \A p \in Workers : Dated(p)

\* All of it together.
Content == Discipline /\ DatedInv /\ StampTrueOrTorn /\ ViewCoherent

\* The types of what a worker has, as numbers.
LEMMA StampsAreNat ==
    ASSUME TypeOK, NEW p \in Workers
    PROVE  mm[p] \in Nat /\ sig[p] \in Nat /\ esm \in Nat /\ esm # 0
  BY DEF TypeOK, JobTypeOK, DiskTypeOK, Stamps, Gens

\* A section that the stamp of a job is good for is no newer than the stamp,
\* and of the ESM the worker has mapped if that is what the stamp is of.
LEMMA MapsDated ==
    ASSUME Content, NEW p \in Workers, pc[p] \in OnJob,
           NEW s \in Sections, Maps(s, sig[p])
    PROVE  /\ file[s].from \subseteq 1 .. sig[p]
           /\ sig[p] = mm[p] /\ mm[p] \notin torn => file[s].from = {mm[p]}
<1>1. sig[p] # 0
  BY DEF Content, Discipline, FlowInv, Flow
<1> QED
  BY <1>1 DEF Content, StampTrueOrTorn, Maps

\* What a step may map: sections its stamp is good for, beside what there was.
LEMMA MapsWhat ==
    ASSUME Content, NEW p \in Workers, MapSection(p) \/ Remap(p) \/ Attach(p), NEW s \in Sections
    PROVE  /\ mm' = mm /\ sig' = sig /\ torn' = torn /\ esm' = esm /\ pc[p] \in OnJob
           /\ \/ view'[p][s] = view[p][s]
              \/ view'[p][s] = {}
              \/ Maps(s, sig[p]) /\ view'[p][s] = file[s].from
<1>0. ViewTypeOK /\ JobTypeOK
  BY DEF Content, Discipline, TypeOK
<1>1. mm' = mm /\ sig' = sig /\ torn' = torn /\ esm' = esm /\ pc[p] \in OnJob
  BY DEF MapSection, Remap, Attach, Goto, disk, OnJob, LeasePcs, MapPcs
<1>2. CASE MapSection(p) \/ Remap(p)
  <2>1. PICK t \in todo[p] : view' = view \/ (/\ Maps(t, sig[p])
                                              /\ view' = [view EXCEPT ![p][t] = file[t].from])
    BY <1>2 DEF MapSection, Remap
  <2> QED
    BY <1>0, <1>1, <2>1 DEF ViewTypeOK
<1>3. CASE Attach(p)
  BY <1>0, <1>1, <1>3 DEF Attach, ViewTypeOK
<1> QED
  BY <1>1, <1>2, <1>3

\* Steps of a worker that leave its mappings and stamp alone, or drop the
\* mappings.
LEMMA MapsNothing ==
    ASSUME TypeOK, FlowInv, Next, NEW p \in Workers
    PROVE  \/ MapSection(p) \/ Remap(p) \/ Attach(p) \/ Stat(p) \/ Open(p)
           \/ /\ view'[p] = view[p] /\ mm'[p] = mm[p] /\ sig'[p] = sig[p]
           \/ /\ view'[p] = NoView /\ mm'[p] = 0 /\ sig'[p] = sig[p]
<1>0. JobTypeOK /\ ViewTypeOK /\ Flow(p)
  BY DEF TypeOK, FlowInv
<1>1. CASE Unlock(p) \/ Fail(p)
  BY <1>0, <1>1 DEF Unlock, Fail, EndJob, JobTypeOK, ViewTypeOK
<1>2. CASE Crash(p)
  BY <1>0, <1>2 DEF Crash, JobTypeOK, ViewTypeOK
<1>3. CASE (\E l \in Lazy : Ensure(p, l)) \/ Lock(p) \/ Publish(p) \/ Tick(p) \/ Writing(p)
           \/ Write(p) \/ DropLease(p) \/ BuildFails(p) \/ PublishFails(p)
  BY <1>3 DEF Ensure, Lock, Publish, Tick, Writing, Write, DropLease, BuildFails,
              PublishFails, mapped
<1>4. CASE p \in Clients /\ ClientStep(p)
  BY <1>0, <1>4 DEF ClientStep, Close, SpawnFails, Spawn, mapped, JobTypeOK, ViewTypeOK
<1>5. CASE p \in Builders /\ BuilderStep(p)
  BY <1>0, <1>5 DEF BuilderStep, BuilderDone, Exit, mapped, JobTypeOK, ViewTypeOK
<1> QED
  BY <1>1, <1>2, <1>3, <1>4, <1>5, WorkerFrame DEF WorkerStep, Kept

\* A job gets under way by its stat only, or goes on.
LEMMA JobStarts ==
    ASSUME TypeOK, FlowInv, Next, NEW p \in Workers, pc'[p] \in OnJob, ~Stat(p)
    PROVE  pc[p] \in OnJob
<1>0. PcTypeOK /\ PcTypeOK' /\ p \in Procs
  BY PcType DEF TypeOK, Procs
<1> SUFFICES ASSUME pc[p] \notin OnJob PROVE FALSE
  OBVIOUS
<1>1. ~WorkerStep(p)
  <2> SUFFICES ASSUME WorkerStep(p) PROVE FALSE
    OBVIOUS
  <2>1. pc[p] \in {"stat", "idle", "open", "off", "exit", "dead"}
    BY <1>0 DEF PcTypeOK, WorkerPcs, OnJob
  <2>2. Open(p) \/ (\E s \in Lazy : Ensure(p, s)) \/ Fail(p) \/ Crash(p)
    BY <2>1 DEF WorkerStep, Goto, MapSection, MapPcs, Attach, Lock, Publish, Tick,
           Writing, Write, Remap, DropLease, Unlock, BuildFails, PublishFails
  <2>3. pc'[p] \in {"stat", "idle", "open", "exit", "dead"}
    BY <1>0, <2>2 DEF Goto, Open, Ensure, Fail, EndJob, AfterJob, Crash, Resume, PcTypeOK
  <2> QED
    BY <2>3 DEF OnJob, LeasePcs, MapPcs
<1>2. ~ClientStep(p) /\ ~BuilderStep(p)
  BY <1>0 DEF ClientStep, BuilderStep, Goto, Close, SpawnFails, Spawn, BuilderDone, Exit,
         Resume, PcTypeOK, OnJob, LeasePcs, MapPcs
<1> QED
  BY <1>0, <1>1, <1>2, WorkerFrame DEF OnJob, LeasePcs, MapPcs

\* Every step keeps stamps and mappings dated.
LEMMA DatedNext == Content /\ [Next]_vars => DatedInv'
<1> SUFFICES ASSUME Content, Next, NEW p \in Workers PROVE Dated(p)'
  BY DEF Content, DatedInv, Dated, vars
<1>0. /\ TypeOK /\ FlowInv /\ Dated(p) /\ JobTypeOK /\ ViewTypeOK
      /\ Discipline /\ PcTypeOK /\ p \in Procs
      /\ mm[p] \in Nat /\ sig[p] \in Nat /\ esm \in Nat
  BY StampsAreNat DEF Content, Discipline, DatedInv, TypeOK, Procs
<1>1. /\ esm' \in Nat /\ esm <= esm' /\ torn \subseteq torn'
  BY <1>0, TornFrame DEF SwapEsm, Stat
<1>2. CASE Stat(p)
  <2>1. /\ mm' = mm /\ view' = view /\ esm' = esm /\ sig'[p] = esm
        /\ torn' = IF mm[p] = esm THEN torn ELSE torn \cup {esm}
    BY <1>0, <1>2 DEF Stat, JobTypeOK
  <2>2. \A s \in Sections : view'[p][s] \subseteq 1 .. sig'[p]
    BY <1>0, <2>1 DEF Dated
  <2>3. mm'[p] = sig'[p] \/ sig'[p] \in torn'
    BY <2>1
  <2>4. mm'[p] <= sig'[p] /\ mm'[p] <= esm' /\ sig'[p] <= esm'
    BY <1>0, <2>1 DEF Dated
  <2> QED
    BY <2>2, <2>3, <2>4 DEF Dated
<1>3. CASE Open(p)
  <2>1. /\ mm'[p] = esm /\ view' = view /\ esm' = esm /\ sig' = sig /\ pc'[p] = "stat"
        /\ view[p] = NoView
    BY <1>0, <1>3 DEF Open, Goto, disk, JobTypeOK, PcTypeOK, FlowInv, Flow
  <2>2. pc'[p] \notin OnJob
    BY <2>1 DEF OnJob, LeasePcs, MapPcs
  <2> QED
    BY <1>0, <2>1, <2>2 DEF Dated
<1>4. CASE MapSection(p) \/ Remap(p) \/ Attach(p)
  <2>1. mm' = mm /\ sig' = sig /\ torn' = torn /\ esm' = esm /\ pc[p] \in OnJob
    BY <1>4, MapsWhat DEF Sections, Eager
  <2>2. ASSUME NEW s \in Sections PROVE view'[p][s] \subseteq 1 .. sig'[p]
    BY <1>0, <1>4, <2>1, MapsWhat, MapsDated DEF Dated
  <2> QED
    BY <1>0, <2>1, <2>2 DEF Dated
<1>5. CASE /\ view'[p] = view[p] /\ mm'[p] = mm[p] /\ sig'[p] = sig[p]
           /\ ~Stat(p)
  <2>1. pc'[p] \in OnJob => pc[p] \in OnJob
    BY <1>0, <1>5, JobStarts
  <2>2. mm'[p] <= esm' /\ sig'[p] <= esm'
    BY <1>0, <1>1, <1>5 DEF Dated
  <2> QED
    BY <1>0, <1>1, <1>5, <2>1, <2>2 DEF Dated
<1>6. CASE view'[p] = NoView /\ mm'[p] = 0 /\ sig'[p] = sig[p] /\ ~Stat(p)
  <2>1. pc'[p] \in OnJob => FALSE
    <3>1. FlowInv'
      BY <1>0, FlowNext
    <3> QED
      BY <1>6, <3>1 DEF FlowInv, Flow, OnJob, LeasePcs, MapPcs
  <2>2. mm'[p] <= esm' /\ sig'[p] <= esm'
    BY <1>0, <1>1, <1>6 DEF Dated
  <2>3. \A s \in Sections : view'[p][s] = {}
    BY <1>6 DEF NoView
  <2> QED
    BY <1>6, <2>1, <2>2, <2>3 DEF Dated
<1> QED
  BY <1>0, <1>2, <1>3, <1>4, <1>5, <1>6, MapsNothing

\* What a job writes is no newer than its stamp, and of it unless it is torn.
LEMMA WritesDated ==
    ASSUME Content, NEW p \in Workers, pc[p] \in OnJob, NEW s \in Sections
    PROVE  /\ sig[p] \in 1 .. esm
           /\ Derived(p, s) \subseteq 1 .. sig[p] /\ Derived(p, s) # {}
           /\ sig[p] \notin torn => Derived(p, s) = {sig[p]}
<1>0. mm[p] \in Nat /\ sig[p] \in Nat /\ esm \in Nat /\ Dated(p) /\ "forms" \in Sections
  BY StampsAreNat DEF Content, Discipline, DatedInv, Sections, Eager
<1>1. mm[p] # 0 /\ sig[p] # 0
  BY DEF Content, Discipline, FlowInv, Flow, OnJob, LeasePcs, MapPcs
<1>2. mm[p] \in 1 .. sig[p] /\ sig[p] \in 1 .. esm
  BY <1>0, <1>1 DEF Dated
<1>3. view[p]["forms"] \subseteq 1 .. sig[p]
  BY <1>0 DEF Dated
<1>4. Derived(p, s) \in {{mm[p]}, {mm[p]} \cup view[p]["forms"]}
  BY DEF Derived
<1>5. sig[p] \notin torn => mm[p] = sig[p] /\ view[p]["forms"] \subseteq {mm[p]}
  BY <1>0 DEF Dated, Content, ViewCoherent
<1> QED
  BY <1>2, <1>3, <1>4, <1>5

\* Every step keeps the stamps true, or torn.
LEMMA StampNext == Content /\ [Next]_vars => StampTrueOrTorn'
<1> SUFFICES ASSUME Content, Next, NEW s \in Sections, file'[s].sig # 0
             PROVE  /\ file'[s].from \subseteq 1 .. file'[s].sig
                    /\ file'[s].sig \notin torn' => file'[s].from = {file'[s].sig}
  BY DEF Content, StampTrueOrTorn, vars
<1>0. DiskTypeOK
  BY DEF Content, Discipline, TypeOK
<1>1. ASSUME NEW p \in Workers, Write(p), file'[s] # file[s]
      PROVE  /\ file'[s].from \subseteq 1 .. file'[s].sig
             /\ file'[s].sig \notin torn' => file'[s].from = {file'[s].sig}
  <2>1. pc[p] \in OnJob /\ torn' = torn
    BY <1>1 DEF Write, Goto, OnJob, LeasePcs
  <2>2. PICK t : file' = [file EXCEPT ![t] = [sig |-> sig[p], from |-> Derived(p, t)]]
    BY <1>1 DEF Write
  <2>3. file'[s] = [sig |-> sig[p], from |-> Derived(p, s)]
    BY <1>0, <1>1, <2>2 DEF DiskTypeOK
  <2> QED
    BY <2>1, <2>3, WritesDated
<1>2. ASSUME NEW k \in Clearers, ClearRemove(k), file'[s] # file[s] PROVE FALSE
  BY <1>0, <1>2 DEF ClearRemove, Absent, DiskTypeOK
<1>3. CASE file'[s] = file[s]
  BY <1>3, TornFrame DEF Content, StampTrueOrTorn, Stat
<1> QED
  BY <1>1, <1>2, <1>3, FileFrame

\* Every step keeps what a database has mapped of one generation.
LEMMA CoherentNext == Content /\ [Next]_vars => ViewCoherent'
<1> SUFFICES ASSUME Content, Next, NEW p \in Workers, NEW s \in Sections,
                    sig'[p] = mm'[p], mm'[p] \notin torn'
             PROVE  view'[p][s] \subseteq {mm'[p]}
  BY DEF Content, ViewCoherent, vars
<1>0. /\ TypeOK /\ FlowInv /\ Dated(p) /\ JobTypeOK /\ ViewTypeOK /\ Flow(p)
      /\ mm[p] \in Nat /\ sig[p] \in Nat /\ esm \in Nat
  BY StampsAreNat DEF Content, Discipline, DatedInv, TypeOK, FlowInv
<1>1. torn \subseteq torn'
  BY TornFrame DEF Stat
<1>2. CASE Stat(p)
  <2>1. mm' = mm /\ view' = view /\ sig'[p] = esm
    BY <1>0, <1>2 DEF Stat, JobTypeOK
  <2>2. CASE view[p] = NoView
    BY <2>1, <2>2 DEF NoView
  <2>3. CASE mm[p] <= sig[p]
    <3>1. sig[p] = mm[p]
      BY <1>0, <2>1, <2>3 DEF Dated
    <3> QED
      BY <1>1, <2>1, <3>1 DEF Content, ViewCoherent
  <2> QED
    BY <1>0, <2>2, <2>3 DEF Dated
<1>3. CASE Open(p)
  BY <1>0, <1>3 DEF Open, Goto, Flow, NoView
<1>4. CASE MapSection(p) \/ Remap(p) \/ Attach(p)
  <2>1. /\ mm' = mm /\ sig' = sig /\ torn' = torn /\ pc[p] \in OnJob
        /\ \/ view'[p][s] = view[p][s]
           \/ view'[p][s] = {}
           \/ Maps(s, sig[p]) /\ view'[p][s] = file[s].from
    BY <1>4, MapsWhat
  <2> QED
    BY <2>1, MapsDated DEF Content, ViewCoherent
<1>5. CASE view'[p] = view[p] /\ mm'[p] = mm[p] /\ sig'[p] = sig[p]
  BY <1>1, <1>5 DEF Content, ViewCoherent
<1>6. CASE view'[p] = NoView
  BY <1>6 DEF NoView
<1> QED
  BY <1>0, <1>2, <1>3, <1>4, <1>5, <1>6, MapsNothing

\* The invariant holds initially ...
LEMMA ContentInit == Init => Content
<1> SUFFICES ASSUME Init PROVE Content
  OBVIOUS
<1>1. Discipline
  BY DisciplineInit
<1>2. DatedInv
  BY DEF Init, DatedInv, Dated, OnJob, LeasePcs, MapPcs, Procs, Workers, NoView
<1>3. StampTrueOrTorn /\ ViewCoherent
  BY DEF Init, StampTrueOrTorn, ViewCoherent, Absent, NoView
<1> QED
  BY <1>1, <1>2, <1>3 DEF Content

\* ... and every step keeps it.
LEMMA ContentNext == Content /\ [Next]_vars => Content'
  BY DisciplineNext, DatedNext, StampNext, CoherentNext DEF Content

\* However the ESM is replaced under open databases, a section is never newer
\* than its stamp, and of the generation it is stamped with unless a process
\* took that stamp over an older mapping (map_or_build, rkyvcache.rs:931).
THEOREM StampsAreTrueOrTorn == Spec => []StampTrueOrTorn
<1>1. Content => StampTrueOrTorn
  BY DEF Content
<1>2. Content /\ [Next]_vars => Content'
  BY ContentNext
<1> QED
  BY <1>1, <1>2, ContentInit, PTL DEF Spec

\* ... and a database whose stamp is of the ESM it has mapped never mixes two
\* generations, unless that one is torn (Index::build, index.rs:248).
THEOREM ViewsAreCoherent == Spec => []ViewCoherent
<1>1. Content => ViewCoherent
  BY DEF Content
<1>2. Content /\ [Next]_vars => Content'
  BY ContentNext
<1> QED
  BY <1>1, <1>2, ContentInit, PTL DEF Spec

-----------------------------------------------------------------------------
(* The abstract store *)

\* The cache starts out as an empty store.
LEMMA StoreInit == Init => Store!Init
  BY DEF Init, Store!Init, Absent, Store!Empty

\* A publication fills the store, or writes again what is there.
LEMMA WriteFills ==
    ASSUME Content, NEW p \in Workers, Write(p)
    PROVE  Store!Next \/ UNCHANGED <<esm, torn, file>>
<1>0. DiskTypeOK /\ JobTypeOK
  BY DEF Content, Discipline, TypeOK
<1>1. pc[p] \in OnJob /\ esm' = esm /\ torn' = torn
  BY DEF Write, Goto, OnJob, LeasePcs
<1>2. PICK t \in Sections : file' = [file EXCEPT ![t] = [sig |-> sig[p], from |-> Derived(p, t)]]
  BY <1>0 DEF Write, JobTypeOK
<1>3. /\ sig[p] \in 1 .. esm
      /\ Derived(p, t) \subseteq 1 .. sig[p] /\ Derived(p, t) # {}
      /\ sig[p] \notin torn => Derived(p, t) = {sig[p]}
  BY <1>1, WritesDated
<1>4. CASE file[t].sig = sig[p] /\ sig[p] \notin torn
  <2>1. file[t].from = {sig[p]}
    BY <1>3, <1>4 DEF Content, StampTrueOrTorn
  <2>2. file[t] = [sig |-> sig[p], from |-> Derived(p, t)]
    BY <1>0, <1>3, <1>4, <2>1 DEF DiskTypeOK
  <2>3. file' = file
    BY <1>0, <1>2, <2>2 DEF DiskTypeOK
  <2> QED
    BY <1>1, <2>3
<1>5. CASE ~(file[t].sig = sig[p] /\ sig[p] \notin torn)
  <2>1. Store!Fill(t, sig[p])
    BY <1>1, <1>2, <1>3, <1>5 DEF Store!Fill
  <2> QED
    BY <1>3, <2>1 DEF Store!Next
<1> QED
  BY <1>4, <1>5

\* Every step of the cache is a step of the store or leaves it alone.
LEMMA StoreStep == Content /\ [Next]_vars => [Store!Next]_<<esm, torn, file>>
<1> SUFFICES ASSUME Content, [Next]_vars
             PROVE  Store!Next \/ UNCHANGED <<esm, torn, file>>
  OBVIOUS
<1>0. DiskTypeOK /\ JobTypeOK
  BY DEF Content, Discipline, TypeOK
<1>1. ASSUME NEW p \in Workers, Write(p) PROVE Store!Next \/ UNCHANGED <<esm, torn, file>>
  BY <1>1, WriteFills
<1>2. ASSUME NEW k \in Clearers, ClearRemove(k) PROVE Store!Next
  <2>1. PICK t \in Sections : file' = [file EXCEPT ![t] = Absent]
    BY <1>0, <1>2 DEF ClearRemove, JobTypeOK
  <2>2. esm' = esm /\ torn' = torn
    BY <1>2 DEF ClearRemove
  <2> QED
    BY <2>1, <2>2 DEF Store!Next, Store!Evict, Store!Empty, Absent
<1>3. CASE SwapEsm
  BY <1>3 DEF SwapEsm, Store!Next, Store!Replace
<1>4. ASSUME NEW p \in Workers, Stat(p) PROVE Store!Next \/ UNCHANGED <<esm, torn, file>>
  BY <1>4 DEF Stat, Store!Next, Store!Tear
<1>5. CASE UNCHANGED vars
  BY <1>5 DEF vars
<1> QED
  BY <1>1, <1>2, <1>3, <1>4, <1>5, FileFrame, TornFrame

\* The cache, with all its processes, locks, crashes and races and with the
\* ESM replaced at any time, implements the abstract store.
THEOREM CacheIsStore == Spec => StoreSpec
<1>1. Content /\ [Next]_vars => Content'
  BY ContentNext
<1>2. Content /\ [Next]_vars => [Store!Next]_<<esm, torn, file>>
  BY StoreStep
<1> QED
  BY <1>1, <1>2, ContentInit, StoreInit, PTL DEF Spec, StoreSpec, Store!Spec
=============================================================================
