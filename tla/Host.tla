------------------------------- MODULE Host --------------------------------
(***************************************************************************)
(* host::Host: the databases one process has open, shared by its threads.  *)
(*                                                                         *)
(* A call names an ESM by its canonical path (the key) or by another path  *)
(* to it.  Database::open runs outside the map's mutex, so calls, file     *)
(* changes and closes interleave between the steps of Host::resolve.  A    *)
(* database is abstracted to its identity (the Arc) and the generation of  *)
(* the ESM it mapped, a FileSig to the generation that was stat'ed.        *)
(***************************************************************************)
EXTENDS Naturals

CONSTANTS Threads,    \* threads of the process
          Keys,       \* canonical paths
          OpensOnRun, \* Host::new (TRUE) or Host::explicit (FALSE)
          MaxGen,     \* bound: generations of each ESM
          MaxOpens    \* bound: Database::open calls

ASSUME HostAssumption ==
    /\ OpensOnRun \in BOOLEAN
    /\ MaxGen \in Nat \ {0}
    /\ MaxOpens \in Nat

VARIABLES gen,      \* key -> generation last written there
          there,    \* key -> does the file exist?
          resident, \* key -> [sig, db], NotOpen when there is none
          opened,   \* Database::open calls that succeeded
          pc,       \* thread -> where its call is
          call,     \* thread -> [key, alias, op] of its last call
          snap,     \* thread -> the resident it found
          sig,      \* thread -> the FileSig it read before opening
          db,       \* thread -> the database it opened
          answer,   \* thread -> the database its last call gave, or NoDb
          start,    \* history: generation when the call began
          alone     \* history: has no other call overlapped the last one?

vars   == <<gen, there, resident, opened, pc, call, snap, sig, db, answer, start, alone>>
disk   == <<gen, there>>
locals == <<snap, sig, db>>
notes  == <<start, alone>>

Gens    == 1..MaxGen
NoDb    == [id |-> 0, gen |-> 0]
NotOpen == [sig |-> 0, db |-> NoDb]
Ops     == {"open", "run", "close"}
Calls   == [key : Keys, alias : BOOLEAN, op : Ops]
Pcs     == {"idle", "key", "look", "compare", "sig", "load", "install", "remove"}

Init ==
    /\ gen = [k \in Keys |-> 1]
    /\ there = [k \in Keys |-> TRUE]
    /\ resident = [k \in Keys |-> NotOpen]
    /\ opened = 0
    /\ pc = [t \in Threads |-> "idle"]
    /\ call \in [Threads -> {[key |-> k, alias |-> FALSE, op |-> "run"] : k \in Keys}]
    /\ snap = [t \in Threads |-> NotOpen]
    /\ sig = [t \in Threads |-> 0]
    /\ db = [t \in Threads |-> NoDb]
    /\ answer = [t \in Threads |-> NoDb]
    /\ start = [t \in Threads |-> 0]
    /\ alone = [t \in Threads |-> FALSE]

K(t) == call[t].key
Goto(t, from, to) == pc[t] = from /\ pc' = [pc EXCEPT ![t] = to]
Return(t, d) ==
    /\ pc' = [pc EXCEPT ![t] = "idle"]
    /\ answer' = [answer EXCEPT ![t] = d]
    /\ snap' = [snap EXCEPT ![t] = NotOpen]
    /\ sig' = [sig EXCEPT ![t] = 0]
    /\ db' = [db EXCEPT ![t] = NoDb]

\* Does the call open a database no one has opened?
Creates(t) == call[t].op = "open" \/ OpensOnRun

-----------------------------------------------------------------------------
\* A caller enters Host::open, Host::run or Host::close.
Call(t, c) ==
    /\ Goto(t, "idle", "key")
    /\ call' = [call EXCEPT ![t] = c]
    /\ answer' = [answer EXCEPT ![t] = NoDb]
    /\ start' = [start EXCEPT ![t] = gen[c.key]]
    /\ alone' = [u \in Threads |->
                   IF u = t THEN \A v \in Threads \ {t} : pc[v] = "idle"
                   ELSE alone[u] /\ pc[u] = "idle"]
    /\ UNCHANGED <<disk, resident, opened, locals>>

\* Host::key: an open key is found without the file, anything else by
\* resolving the path.
KeyKnown(t) == ~call[t].alias /\ resident[K(t)] # NotOpen

\* The key found, a close removes it and the others look it up.
FindKey(t) ==
    /\ KeyKnown(t) \/ there[K(t)]
    /\ Goto(t, "key", IF call[t].op = "close" THEN "remove" ELSE "look")
    /\ UNCHANGED <<disk, resident, opened, call, locals, answer, notes>>

\* Under the mutex: is the database open?
Look(t) ==
    /\ pc[t] = "look"
    /\ IF resident[K(t)] = NotOpen /\ ~Creates(t)
       THEN Return(t, NoDb)
       ELSE /\ Goto(t, "look", IF resident[K(t)] = NotOpen THEN "sig" ELSE "compare")
            /\ snap' = [snap EXCEPT ![t] = resident[K(t)]]
            /\ UNCHANGED <<sig, db, answer>>
    /\ UNCHANGED <<disk, resident, opened, call, notes>>

\* Stat the file: the database found is still good, or must be reopened.
Compare(t) ==
    /\ pc[t] = "compare"
    /\ there[K(t)]
    /\ IF snap[t].sig = gen[K(t)]
       THEN Return(t, snap[t].db)
       ELSE Goto(t, "compare", "sig") /\ UNCHANGED <<locals, answer>>
    /\ UNCHANGED <<disk, resident, opened, call, notes>>

\* The stamp is read before the database is opened ...
ReadSig(t) ==
    /\ there[K(t)]
    /\ Goto(t, "sig", "load")
    /\ sig' = [sig EXCEPT ![t] = gen[K(t)]]
    /\ UNCHANGED <<disk, resident, opened, call, snap, db, answer, notes>>

\* ... which maps whatever the file holds by then.
Load(t) ==
    /\ there[K(t)]
    /\ opened < MaxOpens
    /\ Goto(t, "load", "install")
    /\ opened' = opened + 1
    /\ db' = [db EXCEPT ![t] = [id |-> opened + 1, gen |-> gen[K(t)]]]
    /\ UNCHANGED <<disk, resident, call, snap, sig, answer, notes>>

\* Mutant: the stamp of the moment is recorded, not the one read before.
Put_LateStamp(t) ==
    resident' = [resident EXCEPT ![K(t)] = [sig |-> gen[K(t)], db |-> db[t]]]

\* The slot gets the new database, under the stamp read before opening it.
Put(t) == resident' = [resident EXCEPT ![K(t)] = [sig |-> sig[t], db |-> db[t]]]

\* Mutant: the latest to arrive replaces what it finds.
Install_Overwrites(t) ==
    LET current == resident[K(t)]
    IN  /\ pc[t] = "install"
        /\ \/ /\ current # NotOpen
              /\ Put(t) /\ Return(t, db[t])
           \/ /\ current = NotOpen /\ snap[t] # NotOpen /\ ~Creates(t)
              /\ Return(t, NoDb) /\ UNCHANGED resident
           \/ /\ current = NotOpen /\ (snap[t] = NotOpen \/ Creates(t))
              /\ Put(t) /\ Return(t, db[t])
        /\ UNCHANGED <<disk, opened, call, notes>>

\* Mutant: a reopened file is put back whether or not it was closed.
Install_IgnoresClose(t) ==
    LET current == resident[K(t)]
    IN  /\ pc[t] = "install"
        /\ \/ /\ current # NotOpen /\ snap[t] # NotOpen /\ current.db = snap[t].db
              /\ Put(t) /\ Return(t, db[t])
           \/ /\ current # NotOpen /\ current.db # snap[t].db
              /\ Return(t, current.db) /\ UNCHANGED resident
           \/ /\ current = NotOpen
              /\ Put(t) /\ Return(t, db[t])
        /\ UNCHANGED <<disk, opened, call, notes>>

\* Under the mutex again: replace the database found stale unless another
\* call already did, use the one that won the race of a first open, or put
\* the new one in, except that a close in between wins over a run.
Install(t) ==
    LET current == resident[K(t)]
    IN  /\ pc[t] = "install"
        /\ \/ /\ current # NotOpen /\ snap[t] # NotOpen /\ current.db = snap[t].db
              /\ Put(t) /\ Return(t, db[t])
           \/ /\ current # NotOpen /\ (snap[t] = NotOpen \/ current.db # snap[t].db)
              /\ Return(t, current.db) /\ UNCHANGED resident
           \/ /\ current = NotOpen /\ snap[t] # NotOpen /\ ~Creates(t)
              /\ Return(t, NoDb) /\ UNCHANGED resident
           \/ /\ current = NotOpen /\ (snap[t] = NotOpen \/ Creates(t))
              /\ Put(t) /\ Return(t, db[t])
        /\ UNCHANGED <<disk, opened, call, notes>>

\* Host::close, once it has the key.
Remove(t) ==
    /\ pc[t] = "remove"
    /\ resident' = [resident EXCEPT ![K(t)] = NotOpen]
    /\ Return(t, NoDb)
    /\ UNCHANGED <<disk, opened, call, notes>>

\* A path that does not resolve, a failed stat, an ESM that does not open.
Fail(t) ==
    /\ pc[t] \in {"compare", "sig", "load"} \/ (pc[t] = "key" /\ ~KeyKnown(t))
    /\ Return(t, NoDb)
    /\ UNCHANGED <<disk, resident, opened, call, notes>>

\* The file is replaced by a newer version, or taken away.
Update(k) ==
    /\ gen[k] < MaxGen
    /\ gen' = [gen EXCEPT ![k] = @ + 1]
    /\ there' = [there EXCEPT ![k] = TRUE]
    /\ UNCHANGED <<resident, opened, pc, call, locals, answer, notes>>
Delete(k) ==
    /\ there' = [there EXCEPT ![k] = FALSE]
    /\ UNCHANGED <<gen, resident, opened, pc, call, locals, answer, notes>>

Step(t) ==
    \/ \E c \in Calls : Call(t, c)
    \/ FindKey(t) \/ Look(t) \/ Compare(t) \/ ReadSig(t) \/ Load(t) \/ Install(t)
    \/ Remove(t) \/ Fail(t)

Next == (\E t \in Threads : Step(t)) \/ (\E k \in Keys : Update(k) \/ Delete(k))

Spec == Init /\ [][Next]_vars

-----------------------------------------------------------------------------
Dbs       == [id : Nat, gen : Gens \cup {0}]
Residents == [sig : Gens \cup {0}, db : Dbs]

\* Every variable keeps its type.
TypeOK ==
    /\ gen \in [Keys -> Gens] /\ there \in [Keys -> BOOLEAN]
    /\ resident \in [Keys -> Residents]
    /\ opened \in Nat
    /\ pc \in [Threads -> Pcs]
    /\ call \in [Threads -> Calls]
    /\ snap \in [Threads -> Residents]
    /\ sig \in [Threads -> Gens \cup {0}]
    /\ db \in [Threads -> Dbs]
    /\ answer \in [Threads -> Dbs]
    /\ start \in [Threads -> Gens \cup {0}]
    /\ alone \in [Threads -> BOOLEAN]

\* A stale database is never taken for a current one: while the recorded
\* stamp is the file's, the database was opened from that very file.
StampNotAhead ==
    \A k \in Keys : resident[k] # NotOpen =>
        resident[k].sig <= resident[k].db.gen /\ resident[k].db.gen <= gen[k]

\* As long as it stays open, a database is only ever replaced by one of a
\* later version of its file, whichever of the racing calls comes last.
NeverBackwards ==
    [][\A k \in Keys :
          resident[k] # NotOpen /\ resident'[k] # NotOpen =>
              resident'[k].db.gen >= resident[k].db.gen]_vars

\* "Work queued before a close fails instead of reopening the database": what
\* puts a database in is a call allowed to open it.
ClosedStaysClosed ==
    [][\A k \in Keys :
          resident[k] = NotOpen /\ resident'[k] # NotOpen =>
              \E t \in Threads : pc[t] = "install" /\ K(t) = k /\ Creates(t)]_vars

\* A call no other call overlaps answers from the file as it was when the
\* call began or later, whoever else writes or deletes the file meanwhile and
\* whatever earlier, overlapping calls left in the map.
AloneIsFresh ==
    \A t \in Threads :
        pc[t] = "idle" /\ alone[t] /\ answer[t] # NoDb => answer[t].gen >= start[t]

=============================================================================
