------------------------------- MODULE Viewer -------------------------------
(***************************************************************************)
(* The viewer's main process: the ids the renderer holds (DbRegistry), the *)
(* IPC handlers that open and close databases (createHandlers), and the    *)
(* host::Host they share, reached through the napi addon.                  *)
(*                                                                         *)
(* A handler runs to its next await in one turn of the event loop.  An     *)
(* open awaits the host on a thread of the pool, where other opens and the *)
(* closes of the main thread interleave with its steps (those of module    *)
(* Host, of which only "is this file open?" matters here: no other call    *)
(* opens or closes one).  Several ids may name one file, by different      *)
(* paths; the host knows a file by its canonical path, its key.            *)
(***************************************************************************)
EXTENDS Naturals, FiniteSets

CONSTANTS Keys,   \* canonical paths
          Ids,    \* room for ids; one that was given up may be used again,
                  \* nobody asks for anything with an id that is not open
          Calls,  \* room for open calls in flight
          NoKey

ASSUME KeysAssumption == NoKey \notin Keys
ASSUME CallsAssumption == IsFiniteSet(Calls)

VARIABLES names,        \* id -> the key of its file, or NoKey: DbRegistry.entries
          pendingOpens, \* open handlers between their call and their finally
          deferred,     \* deferredCloses
          resident,     \* the keys the host has a database for
          pc,           \* open call -> where it is
          key,          \* open call -> the key its path resolved to
          orphans       \* history: opened for a call that then failed

vars == <<names, pendingOpens, deferred, resident, pc, key, orphans>>
main == <<names, pendingOpens, deferred>>

Init ==
    /\ names = [i \in Ids |-> NoKey]
    /\ pendingOpens = 0
    /\ deferred = {}
    /\ resident = {}
    /\ pc = [c \in Calls |-> "none"]
    /\ key = [c \in Calls |-> NoKey]
    /\ orphans = {}

Goto(c, from, to) == pc[c] = from /\ pc' = [pc EXCEPT ![c] = to]

IsOpen(ns, k) == \E i \in Ids : ns[i] = k

-----------------------------------------------------------------------------
(* The open handler, on both sides of its await *)

\* CH.openDatabase up to the await.
OpenCall(c, k) ==
    /\ Goto(c, "none", "look")
    /\ key' = [key EXCEPT ![c] = k]
    /\ pendingOpens' = pendingOpens + 1
    /\ UNCHANGED <<names, deferred, resident, orphans>>

\* The closes that waited, once no open is in flight.
Evict(ns, ks) == resident' = {k \in resident : k \in ks => IsOpen(ns, k)}

\* Mutant: the handler forgets what it deferred.
Settle_DropsCloses(ns) ==
    /\ pendingOpens' = pendingOpens - 1
    /\ IF pendingOpens = 1 THEN deferred' = {} ELSE UNCHANGED deferred
    /\ UNCHANGED <<resident, orphans>>

\* The finally block.
Settle(ns) ==
    /\ pendingOpens' = pendingOpens - 1
    /\ IF pendingOpens = 1
       THEN /\ Evict(ns, deferred)
            /\ orphans' = orphans \cap resident'
            /\ deferred' = {}
       ELSE UNCHANGED <<deferred, resident, orphans>>

\* The host answered: registry.add, then the finally block.
OpenDone(c, i) ==
    /\ names[i] = NoKey
    /\ Goto(c, "opened", "none")
    /\ names' = [names EXCEPT ![i] = key[c]]
    /\ Settle(names')
    /\ UNCHANGED key

\* The host rejected: the finally block alone.
OpenFailed(c) ==
    /\ Goto(c, "failed", "none")
    /\ Settle(names)
    /\ UNCHANGED <<names, key>>

-----------------------------------------------------------------------------
(* Host::open and file_info, on a thread of the pool *)

\* Is the file open already?
Look(c) ==
    /\ \/ key[c] \in resident /\ Goto(c, "look", "found")
       \/ key[c] \notin resident /\ Goto(c, "look", "load")
    /\ UNCHANGED <<main, resident, key, orphans>>

\* A database found is the answer as it is, or its file changed.
Compare(c) ==
    /\ \/ Goto(c, "found", "describe")
       \/ Goto(c, "found", "load")
    /\ UNCHANGED <<main, resident, key, orphans>>

\* A database that was loaded is put in, or the one found there is used.
Install(c) ==
    /\ Goto(c, "load", "describe")
    /\ resident' = resident \cup {key[c]}
    /\ UNCHANGED <<main, key, orphans>>

\* file_info of the database, the answer of the call.
Describe(c) ==
    /\ Goto(c, "describe", "opened")
    /\ UNCHANGED <<main, resident, key, orphans>>

\* A stat, the open or file_info fails.
Fail(c) ==
    /\ pc[c] \in {"look", "found", "load", "describe"}
    /\ pc' = [pc EXCEPT ![c] = "failed"]
    /\ orphans' = IF pc[c] = "describe" THEN orphans \cup {key[c]} ELSE orphans
    /\ UNCHANGED <<main, resident, key>>

-----------------------------------------------------------------------------
\* Mutant: the host closes the file while other ids name it.
Close_Shared(i) ==
    /\ names[i] # NoKey
    /\ names' = [names EXCEPT ![i] = NoKey]
    /\ IF pendingOpens > 0
       THEN deferred' = deferred \cup {names[i]} /\ UNCHANGED <<resident, orphans>>
       ELSE /\ resident' = resident \ {names[i]}
            /\ orphans' = orphans \cap resident'
            /\ UNCHANGED deferred
    /\ UNCHANGED <<pendingOpens, pc, key>>

\* CH.closeDatabase: the id is gone at once, its file when no other id names
\* it and no open is in flight.
Close(i) ==
    /\ names[i] # NoKey
    /\ names' = [names EXCEPT ![i] = NoKey]
    /\ IF pendingOpens > 0
       THEN deferred' = deferred \cup {names[i]} /\ UNCHANGED <<resident, orphans>>
       ELSE /\ Evict(names', {names[i]})
            /\ orphans' = orphans \cap resident'
            /\ UNCHANGED deferred
    /\ UNCHANGED <<pendingOpens, pc, key>>

CallStep(c) ==
    \/ Look(c) \/ Compare(c) \/ Install(c) \/ Describe(c) \/ Fail(c)
    \/ OpenFailed(c)
    \/ \E k \in Keys : OpenCall(c, k)
    \/ \E i \in Ids : OpenDone(c, i)

Next == (\E c \in Calls : CallStep(c)) \/ (\E i \in Ids : Close(i))

Spec == Init /\ [][Next]_vars

-----------------------------------------------------------------------------
InFlight == {c \in Calls : pc[c] # "none"}
CallPcs  == {"none", "look", "found", "load", "describe", "opened", "failed"}

\* Every variable keeps its type, and the counter counts the opens in flight.
TypeOK ==
    /\ names \in [Ids -> Keys \cup {NoKey}]
    /\ pendingOpens \in Nat
    /\ deferred \subseteq Keys
    /\ resident \subseteq Keys
    /\ pc \in [Calls -> CallPcs]
    /\ key \in [Calls -> Keys \cup {NoKey}]
    /\ \A c \in InFlight : key[c] \in Keys
    /\ orphans \subseteq Keys
    /\ pendingOpens = Cardinality(InFlight)

\* An id never "names a closed database": what the renderer holds can be run
\* against, whichever opens and closes of the same file raced.
NamesAreOpen == \A i \in Ids : names[i] # NoKey => names[i] \in resident

\* Once no open is in flight, the host keeps no database that no id names,
\* other than one whose file_info failed after the host opened it.
NothingLeaks ==
    pendingOpens = 0 => \A k \in resident : IsOpen(names, k) \/ k \in orphans
=============================================================================
