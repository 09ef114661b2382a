---------------------------- MODULE Host_proofs ----------------------------
(***************************************************************************)
(* Theorems about Host, for any number of threads, files, versions of them *)
(* and opens.                                                              *)
(***************************************************************************)
EXTENDS Host, TLAPS

USE HostAssumption

\* The empty values have their types.
LEMMA Empties == NoDb \in Dbs /\ NotOpen \in Residents
  BY DEF NoDb, NotOpen, Dbs, Residents

\* The initial state has the right types.
LEMMA InitType == Init => TypeOK
<1> SUFFICES ASSUME Init PROVE TypeOK
  OBVIOUS
<1>1. call \in [Threads -> Calls]
  <2>1. \A k \in Keys : [key |-> k, alias |-> FALSE, op |-> "run"] \in Calls
    BY Zenon DEF Calls, Ops
  <2>2. {[key |-> k, alias |-> FALSE, op |-> "run"] : k \in Keys} \subseteq Calls
    BY <2>1
  <2> QED
    BY <2>2 DEF Init
<1>2. 1 \in Gens
  BY DEF Gens
<1> QED
  BY <1>1, <1>2, Empties DEF Init, TypeOK, Pcs

\* Leaving a call resets what the call kept to itself.
LEMMA ReturnType ==
    ASSUME TypeOK, NEW t \in Threads, NEW d \in Dbs, Return(t, d)
    PROVE  /\ pc' \in [Threads -> Pcs] /\ answer' \in [Threads -> Dbs]
           /\ snap' \in [Threads -> Residents] /\ db' \in [Threads -> Dbs]
           /\ sig' \in [Threads -> Gens \cup {0}]
  BY Empties DEF Return, TypeOK, Pcs

\* Every step keeps every type.
LEMMA NextType == TypeOK /\ [Next]_vars => TypeOK'
<1> SUFFICES ASSUME TypeOK, [Next]_vars PROVE TypeOK'
  OBVIOUS
<1>1. ASSUME NEW t \in Threads, NEW c \in Calls, Call(t, c) PROVE TypeOK'
  <2>1. c.key \in Keys
    BY DEF Calls
  <2> QED
    BY <1>1, <2>1, Empties DEF Call, Goto, TypeOK, Pcs, disk, locals
<1>2. ASSUME NEW t \in Threads, FindKey(t) PROVE TypeOK'
  BY <1>2 DEF FindKey, Goto, TypeOK, Pcs, disk, locals, notes
<1>3. ASSUME NEW t \in Threads, Look(t) PROVE TypeOK'
  <2>1. K(t) \in Keys
    BY DEF K, TypeOK, Calls
  <2>2. CASE Return(t, NoDb)
    BY <1>3, <2>2, ReturnType, Empties DEF Look, TypeOK, disk, notes
  <2> QED
    BY <1>3, <2>1, <2>2 DEF Look, Goto, TypeOK, Pcs, disk, notes
<1>4. ASSUME NEW t \in Threads, Compare(t) PROVE TypeOK'
  <2>1. CASE Return(t, snap[t].db)
    <3>1. snap[t].db \in Dbs
      BY DEF TypeOK, Residents
    <3> QED
      BY <1>4, <2>1, <3>1, ReturnType DEF Compare, TypeOK, disk, notes
  <2> QED
    BY <1>4, <2>1 DEF Compare, Goto, TypeOK, Pcs, disk, locals, notes
<1>5. ASSUME NEW t \in Threads, ReadSig(t) PROVE TypeOK'
  <2>1. K(t) \in Keys
    BY DEF K, TypeOK, Calls
  <2> QED
    BY <1>5, <2>1 DEF ReadSig, Goto, TypeOK, Pcs, disk, notes
<1>6. ASSUME NEW t \in Threads, Load(t) PROVE TypeOK'
  <2>1. K(t) \in Keys
    BY DEF K, TypeOK, Calls
  <2>2. [id |-> opened + 1, gen |-> gen[K(t)]] \in Dbs
    BY <2>1 DEF TypeOK, Dbs
  <2> QED
    BY <1>6, <2>2 DEF Load, Goto, TypeOK, Pcs, disk, notes
<1>7. ASSUME NEW t \in Threads, Install(t) PROVE TypeOK'
  <2>1. K(t) \in Keys
    BY DEF K, TypeOK, Calls
  <2>2. /\ [sig |-> sig[t], db |-> db[t]] \in Residents
        /\ resident[K(t)].db \in Dbs /\ db[t] \in Dbs
    BY <2>1 DEF TypeOK, Residents
  <2>3. resident' \in [Keys -> Residents]
    BY <1>7, <2>1, <2>2 DEF Install, Put, TypeOK
  <2>4. PICK d \in Dbs : Return(t, d)
    BY <1>7, <2>2, Empties DEF Install
  <2> QED
    BY <1>7, <2>3, <2>4, ReturnType DEF Install, TypeOK, disk, notes
<1>8. ASSUME NEW t \in Threads, Remove(t) PROVE TypeOK'
  <2>1. resident' \in [Keys -> Residents]
    BY <1>8, Empties DEF Remove, TypeOK
  <2> QED
    BY <1>8, <2>1, ReturnType, Empties DEF Remove, TypeOK, disk, notes
<1>9. ASSUME NEW t \in Threads, Fail(t) PROVE TypeOK'
  BY <1>9, ReturnType, Empties DEF Fail, TypeOK, disk, notes
<1>10. ASSUME NEW k \in Keys, Update(k) \/ Delete(k) PROVE TypeOK'
  <2>1. there' \in [Keys -> BOOLEAN]
    BY <1>10 DEF Update, Delete, TypeOK
  <2>2. gen' \in [Keys -> Gens]
    BY <1>10 DEF Update, Delete, TypeOK, Gens
  <2> QED
    BY <1>10, <2>1, <2>2 DEF Update, Delete, TypeOK, locals, notes
<1>11. CASE UNCHANGED vars
  BY <1>11 DEF vars, TypeOK
<1> QED
  BY <1>1, <1>2, <1>3, <1>4, <1>5, <1>6, <1>7, <1>8, <1>9, <1>10, <1>11 DEF Next, Step

\* The host, its threads and the files stay in the states the model gives.
THEOREM TypeCorrect == Spec => []TypeOK
  BY InitType, NextType, PTL DEF Spec

-----------------------------------------------------------------------------
(* Stamps and generations *)

\* What is known of a database in the map ...
KeyInv(k) ==
    resident[k] # NotOpen =>
        resident[k].sig <= resident[k].db.gen /\ resident[k].db.gen <= gen[k]

\* ... and of what a call holds: the database it found, then a stamp no
\* older than that database and than the call, then a database no older than
\* the stamp.
CallInv(t) ==
    /\ start[t] <= gen[K(t)]
    /\ pc[t] \in {"idle", "key", "look", "remove"} => snap[t] = NotOpen
    /\ snap[t] # NotOpen =>
          snap[t].sig <= snap[t].db.gen /\ snap[t].db.gen <= gen[K(t)]
    /\ pc[t] \in {"load", "install"} =>
          snap[t].db.gen <= sig[t] /\ start[t] <= sig[t] /\ sig[t] <= gen[K(t)]
    /\ pc[t] = "install" => sig[t] <= db[t].gen /\ db[t].gen <= gen[K(t)]

StampInv == (\A k \in Keys : KeyInv(k)) /\ (\A t \in Threads : CallInv(t))

\* Nothing is open or under way to begin with.
LEMMA StampInit == Init => StampInv
<1> SUFFICES ASSUME Init PROVE StampInv
  OBVIOUS
<1>1. ASSUME NEW t \in Threads PROVE CallInv(t)
  <2>1. K(t) \in Keys
    BY InitType DEF K, TypeOK, Calls
  <2> QED
    BY <2>1 DEF Init, CallInv
<1> QED
  BY <1>1 DEF StampInv, Init, KeyInv

\* The numbers the invariant compares are numbers.
LEMMA Numbers ==
    ASSUME TypeOK
    PROVE  /\ \A k \in Keys : /\ gen[k] \in Nat /\ resident[k].sig \in Nat
                              /\ resident[k].db.gen \in Nat
           /\ \A t \in Threads :
                 /\ K(t) \in Keys /\ start[t] \in Nat /\ sig[t] \in Nat /\ db[t].gen \in Nat
                 /\ snap[t].sig \in Nat /\ snap[t].db.gen \in Nat
<1>1. Gens \cup {0} \subseteq Nat
  BY DEF Gens
<1>2. \A d \in Dbs : d.gen \in Nat
  BY <1>1 DEF Dbs
<1>3. \A r \in Residents : r.sig \in Nat /\ r.db.gen \in Nat
  BY <1>1, <1>2 DEF Residents
<1>4. \A t \in Threads : K(t) \in Keys
  BY DEF K, TypeOK, Calls
<1>5. \A k \in Keys : gen[k] \in Nat /\ resident[k] \in Residents
  BY <1>1 DEF TypeOK
<1>6. \A t \in Threads : /\ start[t] \in Nat /\ sig[t] \in Nat
                          /\ db[t] \in Dbs /\ snap[t] \in Residents
  BY <1>1 DEF TypeOK
<1> QED
  BY <1>2, <1>3, <1>4, <1>5, <1>6

\* A thread's step leaves the calls of the others alone.
LEMMA OtherCalls ==
    ASSUME TypeOK, NEW t \in Threads, Step(t), NEW u \in Threads, u # t
    PROVE  /\ pc'[u] = pc[u] /\ call'[u] = call[u] /\ snap'[u] = snap[u]
           /\ sig'[u] = sig[u] /\ db'[u] = db[u] /\ start'[u] = start[u]
           /\ answer'[u] = answer[u] /\ gen' = gen
<1>1. CASE \E c \in Calls : Call(t, c)
  BY <1>1 DEF Call, Goto, TypeOK, disk, locals
<1>2. CASE \E d : Return(t, d) /\ UNCHANGED <<disk, call, notes>>
  BY <1>2 DEF Return, TypeOK, disk, notes
<1>3. CASE FindKey(t) \/ ReadSig(t) \/ Load(t)
  BY <1>3 DEF FindKey, ReadSig, Load, Goto, TypeOK, disk, locals, notes
<1>4. CASE Look(t)
  BY <1>2, <1>4 DEF Look, Goto, TypeOK, disk, notes
<1>5. CASE Compare(t)
  BY <1>2, <1>5 DEF Compare, Goto, TypeOK, disk, locals, notes
<1>6. CASE Install(t) \/ Remove(t) \/ Fail(t)
  BY <1>2, <1>6 DEF Install, Remove, Fail
<1> QED
  BY <1>1, <1>3, <1>4, <1>5, <1>6 DEF Step

\* Only Install and Remove touch the map.
LEMMA MapFrame ==
    ASSUME NEW t \in Threads, Step(t)
    PROVE  resident' = resident \/ Install(t) \/ Remove(t)
  BY DEF Step, Call, FindKey, Look, Compare, ReadSig, Load, Fail

\* A returning call has let go of everything.
LEMMA Returned ==
    ASSUME TypeOK, NEW t \in Threads, NEW d, Return(t, d), CallInv(t),
           UNCHANGED <<disk, call, notes>>
    PROVE  CallInv(t)'
  BY DEF Return, TypeOK, CallInv, K, disk, notes

\* Every step keeps stamps behind databases and databases behind files.
LEMMA StampNext == TypeOK /\ StampInv /\ [Next]_vars => StampInv'
<1> SUFFICES ASSUME TypeOK, StampInv, [Next]_vars PROVE StampInv'
  OBVIOUS
<1>0. TypeOK'
  BY NextType
<1>1. ASSUME NEW t \in Threads, Step(t) PROVE StampInv'
  <2>0. CallInv(t) /\ K(t) \in Keys
    BY Numbers DEF StampInv
  <2>1. ASSUME NEW u \in Threads, u # t PROVE CallInv(u)'
    BY <1>1, <2>1, OtherCalls DEF StampInv, CallInv, K
  <2>2. CallInv(t)'
    <3>1. CASE \E c \in Calls : Call(t, c)
      <4>1. PICK c \in Calls : Call(t, c)
        BY <3>1
      <4>2. c.key \in Keys
        BY DEF Calls
      <4>3. gen[c.key] \in Nat
        BY <4>2, Numbers
      <4> QED
        BY <2>0, <4>1, <4>2, <4>3 DEF Call, Goto, TypeOK, CallInv, K, disk, locals
    <3>2. CASE FindKey(t)
      BY <2>0, <3>2 DEF FindKey, Goto, TypeOK, CallInv, K, disk, locals, notes
    <3>3. CASE Look(t)
      <4>1. CASE Return(t, NoDb)
        BY <2>0, <3>3, <4>1, Returned DEF Look
      <4> QED
        BY <2>0, <3>3, <4>1 DEF Look, Goto, TypeOK, CallInv, K, disk, notes, StampInv, KeyInv
    <3>4. CASE Compare(t)
      <4>1. CASE Return(t, snap[t].db)
        BY <2>0, <3>4, <4>1, Returned DEF Compare
      <4> QED
        BY <2>0, <3>4, <4>1 DEF Compare, Goto, TypeOK, CallInv, K, disk, locals, notes
    <3>5. CASE ReadSig(t)
      <4>1. snap[t].db.gen <= gen[K(t)]
        BY <2>0, Numbers DEF CallInv, NotOpen, NoDb
      <4> QED
        BY <2>0, <3>5, <4>1, Numbers DEF ReadSig, Goto, TypeOK, CallInv, K, disk, notes
    <3>6. CASE Load(t)
      BY <2>0, <3>6, Numbers DEF Load, Goto, TypeOK, CallInv, K, disk, notes
    <3>7. CASE Install(t) \/ Remove(t) \/ Fail(t)
      BY <2>0, <3>7, Returned DEF Install, Remove, Fail
    <3> QED
      BY <1>1, <3>1, <3>2, <3>3, <3>4, <3>5, <3>6, <3>7 DEF Step
  <2>3. ASSUME NEW k \in Keys PROVE KeyInv(k)'
    <3>0. KeyInv(k) /\ gen' = gen
      BY <1>1 DEF StampInv, Step, Call, FindKey, Look, Compare, ReadSig, Load, Install,
                  Remove, Fail, disk
    <3>1. CASE resident' = resident
      BY <3>0, <3>1 DEF KeyInv
    <3>2. CASE Install(t)
      <4>1. pc[t] = "install"
        BY <3>2 DEF Install
      <4>2. CASE Put(t)
        BY <2>0, <3>0, <4>1, <4>2, Numbers DEF Put, TypeOK, KeyInv, CallInv
      <4> QED
        BY <3>1, <3>2, <4>2 DEF Install
    <3>3. CASE Remove(t)
      BY <2>0, <3>0, <3>3 DEF Remove, TypeOK, KeyInv
    <3> QED
      BY <1>1, <3>1, <3>2, <3>3, MapFrame
  <2> QED
    BY <2>1, <2>2, <2>3 DEF StampInv
<1>2. ASSUME NEW k \in Keys, Update(k) \/ Delete(k) PROVE StampInv'
  <2>1. \A j \in Keys : gen[j] <= gen'[j]
    BY <1>2, Numbers DEF Update, Delete, TypeOK
  <2>2. UNCHANGED <<resident, pc, call, snap, sig, db, start>>
    BY <1>2 DEF Update, Delete, locals, notes
  <2>3. \A j \in Keys : gen'[j] \in Nat
    BY <1>0, Numbers DEF TypeOK, Gens
  <2>4. \A j \in Keys : KeyInv(j)'
    BY <2>1, <2>2, <2>3, Numbers DEF StampInv, KeyInv
  <2>5. \A t \in Threads : CallInv(t)'
    BY <2>1, <2>2, <2>3, Numbers DEF StampInv, CallInv, K
  <2> QED
    BY <2>4, <2>5 DEF StampInv
<1>3. CASE UNCHANGED vars
  BY <1>3 DEF vars, StampInv, KeyInv, CallInv, K
<1> QED
  BY <1>1, <1>2, <1>3 DEF Next

\* A recorded stamp is never newer than the database it stands for, nor that
\* database newer than the file: a stale database is always recognised.
THEOREM StaleIsRecognised == Spec => []StampNotAhead
<1>1. Init => TypeOK /\ StampInv
  BY InitType, StampInit
<1>2. TypeOK /\ StampInv /\ [Next]_vars => TypeOK' /\ StampInv'
  BY NextType, StampNext
<1>3. StampInv => StampNotAhead
  BY DEF StampInv, KeyInv, StampNotAhead
<1> QED
  BY <1>1, <1>2, <1>3, PTL DEF Spec

\* Racing reopens of a changed file never put an older version back.
THEOREM RacesGoForward == Spec => NeverBackwards
<1> DEFINE Forward == \A k \in Keys :
                        resident[k] # NotOpen /\ resident'[k] # NotOpen =>
                            resident'[k].db.gen >= resident[k].db.gen
<1>1. Init => TypeOK /\ StampInv
  BY InitType, StampInit
<1>2. TypeOK /\ StampInv /\ [Next]_vars => TypeOK' /\ StampInv'
  BY NextType, StampNext
<1>3. TypeOK /\ StampInv /\ [Next]_vars => [Forward]_vars
  <2> SUFFICES ASSUME TypeOK, StampInv, Next, NEW k \in Keys,
                      resident[k] # NotOpen, resident'[k] # NotOpen
               PROVE  resident'[k].db.gen >= resident[k].db.gen
    BY DEF Forward
  <2>1. CASE resident'[k] = resident[k]
    BY <2>1, Numbers
  <2>2. ASSUME NEW t \in Threads, Install(t), resident'[k] # resident[k]
        PROVE  resident'[k].db.gen >= resident[k].db.gen
    <3>1. Put(t) /\ K(t) = k /\ snap[t].db = resident[k].db /\ pc[t] = "install"
      BY <2>2, Numbers DEF Install, Put, TypeOK
    <3>2. resident'[k].db = db[t]
      BY <3>1, Numbers DEF Put, TypeOK
    <3>3. CallInv(t)
      BY DEF StampInv
    <3> QED
      BY <3>1, <3>2, <3>3, Numbers DEF CallInv
  <2>3. ASSUME NEW t \in Threads, Remove(t) PROVE resident'[k] = resident[k]
    BY <2>3, Numbers DEF Remove, TypeOK
  <2>4. \A j \in Keys : Update(j) \/ Delete(j) => resident' = resident
    BY DEF Update, Delete
  <2> QED
    BY <2>1, <2>2, <2>3, <2>4, MapFrame DEF Next
<1> QED
  BY <1>1, <1>2, <1>3, PTL DEF Spec, NeverBackwards, Forward

-----------------------------------------------------------------------------
(* A call that no other overlaps *)

\* While nobody else is in a call, the map stays as the call found it, and
\* what the call answers is as new as the file was when it began.
AloneInv ==
    \A t \in Threads :
        /\ pc[t] # "idle" /\ alone[t] =>
              /\ \A u \in Threads \ {t} : pc[u] = "idle"
              /\ pc[t] \in {"compare", "sig", "load", "install"} =>
                    resident[K(t)] = snap[t]
        /\ pc[t] = "idle" /\ alone[t] /\ answer[t] # NoDb => start[t] <= answer[t].gen

\* A lone call has one way to an answer.
LEMMA LoneAnswer ==
    ASSUME TypeOK, StampInv, AloneInv, NEW t \in Threads, Step(t), alone[t],
           pc[t] # "idle", pc'[t] = "idle", answer'[t] # NoDb
    PROVE  start[t] <= answer'[t].gen
<1>0. CallInv(t) /\ K(t) \in Keys
  BY Numbers DEF StampInv
<1>1. CASE Compare(t)
  <2>1. answer'[t] = snap[t].db /\ snap[t].sig = gen[K(t)]
    BY <1>1 DEF Compare, Return, Goto, TypeOK
  <2>2. snap[t] # NotOpen
    BY <2>1 DEF NotOpen
  <2> QED
    BY <1>0, <2>1, <2>2, Numbers DEF CallInv
<1>2. CASE Install(t)
  <2>1. answer'[t] = db[t]
    <3>1. resident[K(t)] = snap[t] /\ pc[t] = "install"
      BY <1>2 DEF Install, AloneInv
    <3> QED
      BY <1>2, <3>1 DEF Install, Return, TypeOK
  <2> QED
    BY <1>0, <1>2, <2>1, Numbers DEF CallInv, Install
<1>3. CASE ~Compare(t) /\ ~Install(t)
  BY <1>3 DEF Step, Call, FindKey, Look, ReadSig, Load, Remove, Fail, Return, Goto, TypeOK
<1> QED
  BY <1>1, <1>2, <1>3

\* How the history of a call develops.
LEMMA Overlaps ==
    ASSUME TypeOK, NEW t \in Threads, Step(t), NEW u \in Threads
    PROVE  \/ \E c \in Calls : Call(t, c)
           \/ alone' = alone /\ start' = start /\ call' = call /\ pc[t] # "idle"
  BY DEF Step, FindKey, Look, Compare, ReadSig, Load, Install, Remove, Fail, Goto, notes

\* Every step keeps that.
LEMMA AloneNext == TypeOK /\ StampInv /\ AloneInv /\ [Next]_vars => AloneInv'
<1> SUFFICES ASSUME TypeOK, StampInv, AloneInv, [Next]_vars PROVE AloneInv'
  OBVIOUS
<1>1. ASSUME NEW t \in Threads, NEW c \in Calls, Call(t, c) PROVE AloneInv'
  <2>1. \A u \in Threads : u # t => pc'[u] = pc[u] /\ answer'[u] = answer[u] /\ start'[u] = start[u]
    BY <1>1 DEF Call, Goto, TypeOK
  <2>2. \A u \in Threads : u # t /\ alone'[u] => alone[u] /\ pc[u] = "idle"
    BY <1>1 DEF Call
  <2>3. pc'[t] = "key" /\ (alone'[t] => \A u \in Threads \ {t} : pc[u] = "idle")
    BY <1>1 DEF Call, Goto, TypeOK
  <2> QED
    BY <2>1, <2>2, <2>3 DEF AloneInv
<1>2. ASSUME NEW t \in Threads, Step(t), \A c \in Calls : ~Call(t, c) PROVE AloneInv'
  <2>0. alone' = alone /\ start' = start /\ call' = call /\ pc[t] # "idle"
    BY <1>2, Overlaps
  <2>1. ASSUME NEW u \in Threads, u # t
        PROVE  /\ pc'[u] = pc[u] /\ snap'[u] = snap[u] /\ answer'[u] = answer[u]
               /\ alone[u] => pc[u] = "idle"
    BY <1>2, <2>0, <2>1, OtherCalls DEF AloneInv
  <2>2. alone[t] /\ pc'[t] \in {"compare", "sig", "load", "install"}
           => resident'[K(t)] = snap'[t]
    <3> SUFFICES ASSUME alone[t], pc'[t] \in {"compare", "sig", "load", "install"}
                 PROVE  resident'[K(t)] = snap'[t]
      OBVIOUS
    <3>1. ~Install(t) /\ ~Remove(t)
      BY DEF Install, Remove, Return, TypeOK
    <3>2. resident' = resident
      BY <1>2, <3>1, MapFrame
    <3>3. CASE Look(t)
      BY <3>2, <3>3 DEF Look, Return, Goto, TypeOK
    <3>4. CASE ~Look(t)
      <4>1. snap' = snap /\ pc[t] \in {"compare", "sig", "load", "install"}
        BY <1>2, <3>1, <3>4 DEF Step, FindKey, Compare, ReadSig, Load, Fail, Return, Goto,
                                TypeOK, locals
      <4> QED
        BY <2>0, <3>2, <4>1 DEF AloneInv
    <3> QED
      BY <3>3, <3>4
  <2>3. ASSUME NEW u \in Threads, pc'[u] # "idle", alone'[u]
        PROVE  u = t /\ \A v \in Threads \ {u} : pc'[v] = "idle"
    BY <2>0, <2>1, <2>3 DEF AloneInv
  <2>4. ASSUME NEW u \in Threads, pc'[u] = "idle", alone'[u], answer'[u] # NoDb
        PROVE  start'[u] <= answer'[u].gen
    BY <1>2, <2>0, <2>1, <2>4, LoneAnswer DEF AloneInv
  <2>5. \A u \in Threads : K(u)' = K(u)
    BY <2>0 DEF K
  <2> QED
    BY <2>0, <2>2, <2>3, <2>4, <2>5 DEF AloneInv
<1>3. ASSUME NEW k \in Keys, Update(k) \/ Delete(k) PROVE AloneInv'
  BY <1>3 DEF Update, Delete, AloneInv, K, locals, notes
<1>4. CASE UNCHANGED vars
  BY <1>4 DEF vars, AloneInv, K
<1> QED
  BY <1>1, <1>2, <1>3, <1>4 DEF Next

\* A call that overlaps no other answers with the file as it was when the
\* call began, or newer, however often the file changes meanwhile.
THEOREM LoneCallsAreFresh == Spec => []AloneIsFresh
<1>1. Init => TypeOK /\ StampInv /\ AloneInv
  <2>1. Init => AloneInv
    BY DEF Init, AloneInv
  <2> QED
    BY <2>1, InitType, StampInit
<1>2. TypeOK /\ StampInv /\ AloneInv /\ [Next]_vars => TypeOK' /\ StampInv' /\ AloneInv'
  BY NextType, StampNext, AloneNext
<1>3. TypeOK /\ AloneInv => AloneIsFresh
  <2>1. TypeOK => \A t \in Threads : start[t] \in Nat /\ answer[t].gen \in Nat
    BY DEF TypeOK, Dbs, Gens
  <2> QED
    BY <2>1 DEF AloneInv, AloneIsFresh
<1> QED
  BY <1>1, <1>2, <1>3, PTL DEF Spec

-----------------------------------------------------------------------------
(* Closing *)

\* A call that found nothing open and went on is one that may open.
OpenerInv ==
    \A t \in Threads :
        /\ pc[t] = "compare" => snap[t] # NotOpen
        /\ pc[t] \in {"sig", "load", "install"} /\ snap[t] = NotOpen => Creates(t)

\* Every step keeps that.
LEMMA OpenerNext == TypeOK /\ OpenerInv /\ [Next]_vars => OpenerInv'
<1> SUFFICES ASSUME TypeOK, OpenerInv, [Next]_vars PROVE OpenerInv'
  OBVIOUS
<1>1. ASSUME NEW t \in Threads, Step(t) PROVE OpenerInv'
  <2>1. ASSUME NEW u \in Threads, u # t
        PROVE  pc'[u] = pc[u] /\ snap'[u] = snap[u] /\ Creates(u)' = Creates(u)
    BY <1>1, <2>1, OtherCalls DEF Creates
  <2>2. /\ pc'[t] = "compare" => snap'[t] # NotOpen
        /\ pc'[t] \in {"sig", "load", "install"} /\ snap'[t] = NotOpen => Creates(t)'
    <3>1. CASE Look(t)
      BY <3>1 DEF Look, Return, Goto, Creates, TypeOK
    <3>2. CASE ReadSig(t) \/ Load(t)
      BY <3>2 DEF ReadSig, Load, Goto, Creates, OpenerInv, TypeOK
    <3>3. CASE Compare(t)
      BY <3>3 DEF Compare, Return, Goto, Creates, OpenerInv, TypeOK, locals
    <3>4. CASE (\E c \in Calls : Call(t, c)) \/ FindKey(t)
      BY <3>4 DEF Call, FindKey, Goto, TypeOK
    <3>5. CASE Install(t) \/ Remove(t) \/ Fail(t)
      BY <3>5 DEF Install, Remove, Fail, Return, TypeOK
    <3> QED
      BY <1>1, <3>1, <3>2, <3>3, <3>4, <3>5 DEF Step
  <2> QED
    BY <2>1, <2>2 DEF OpenerInv
<1>2. CASE UNCHANGED <<pc, snap, call>>
  BY <1>2 DEF OpenerInv, Creates
<1>3. (\E k \in Keys : Update(k) \/ Delete(k)) \/ UNCHANGED vars => UNCHANGED <<pc, snap, call>>
  BY DEF Update, Delete, vars, locals
<1> QED
  BY <1>1, <1>2, <1>3 DEF Next

\* What puts a database where there is none is a call that may open it: a
\* run that a close overtakes fails instead of undoing the close.
THEOREM CloseWins == Spec => ClosedStaysClosed
<1> DEFINE Opened == \A k \in Keys :
                       resident[k] = NotOpen /\ resident'[k] # NotOpen =>
                           \E t \in Threads : pc[t] = "install" /\ K(t) = k /\ Creates(t)
<1>1. Init => TypeOK /\ OpenerInv
  BY InitType DEF Init, OpenerInv
<1>2. TypeOK /\ OpenerInv /\ [Next]_vars => TypeOK' /\ OpenerInv'
  BY NextType, OpenerNext
<1>3. TypeOK /\ OpenerInv /\ [Next]_vars => [Opened]_vars
  <2> SUFFICES ASSUME TypeOK, OpenerInv, Next, NEW k \in Keys,
                      resident[k] = NotOpen, resident'[k] # NotOpen
               PROVE  \E t \in Threads : pc[t] = "install" /\ K(t) = k /\ Creates(t)
    BY DEF Opened
  <2>1. PICK t \in Threads : Install(t) \/ Remove(t)
    BY MapFrame DEF Next, Update, Delete
  <2>2. Install(t) /\ Put(t) /\ K(t) = k
    BY <2>1 DEF Install, Remove, Put, TypeOK
  <2> QED
    BY <2>2 DEF Install, OpenerInv
<1> QED
  BY <1>1, <1>2, <1>3, PTL DEF Spec, ClosedStaysClosed, Opened
=============================================================================
