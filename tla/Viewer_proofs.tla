---------------------------- MODULE Viewer_proofs ----------------------------
(***************************************************************************)
(* Viewer: type correctness, and that ids and databases of the host stay   *)
(* in step, for any number of files, ids and opens in flight.              *)
(***************************************************************************)
EXTENDS Viewer, FiniteSetTheorems, TLAPS

-----------------------------------------------------------------------------
(* The counter *)

\* The opens in flight are finitely many, and none or one when the counter
\* says so.
LEMMA Counting ==
    /\ IsFiniteSet(InFlight)
    /\ Cardinality(InFlight) \in Nat
    /\ Cardinality(InFlight) = 0 <=> InFlight = {}
    /\ \A c \in InFlight : Cardinality(InFlight) = 1 => InFlight = {c}
<1>1. IsFiniteSet(InFlight)
  BY CallsAssumption, FS_Subset DEF InFlight
<1>2. Cardinality(InFlight) = 1 => \E x : InFlight = {x}
  BY <1>1, FS_Singleton
<1> QED
  BY <1>1, <1>2, FS_CardinalityType, FS_EmptySet

\* A call that begins adds itself to the opens in flight, one that settles
\* takes itself out, any other step leaves them as they are.
LEMMA CountUp ==
    ASSUME TypeOK, NEW c \in Calls, Goto(c, "none", "look")
    PROVE  /\ InFlight' = InFlight \cup {c}
           /\ Cardinality(InFlight') = Cardinality(InFlight) + 1
<1>1. InFlight' = InFlight \cup {c} /\ c \notin InFlight
  BY DEF Goto, TypeOK, InFlight
<1> QED
  BY <1>1, Counting, FS_AddElement

LEMMA CountDown ==
    ASSUME TypeOK, NEW c \in Calls, pc[c] # "none", pc' = [pc EXCEPT ![c] = "none"]
    PROVE  /\ InFlight' = InFlight \ {c}
           /\ Cardinality(InFlight') = Cardinality(InFlight) - 1
<1>1. InFlight' = InFlight \ {c} /\ c \in InFlight
  BY DEF TypeOK, InFlight
<1> QED
  BY <1>1, Counting, FS_RemoveElement

LEMMA CountSame ==
    ASSUME TypeOK, NEW c \in Calls, pc[c] # "none", NEW to \in CallPcs \ {"none"},
           pc' = [pc EXCEPT ![c] = to]
    PROVE  InFlight' = InFlight
BY DEF TypeOK, InFlight

-----------------------------------------------------------------------------
(* The ids and the host *)

\* What an open in flight was told is open stays open: nothing is closed
\* before it settles.
Answered(c) == pc[c] \in {"found", "describe", "opened"} => key[c] \in resident

\* Why a database is kept: an id names it, its close waits, the call that
\* opened it is about to name it, or file_info failed.
Kept(k) ==
    \/ IsOpen(names, k)
    \/ k \in deferred
    \/ k \in orphans
    \/ \E c \in Calls : pc[c] \in {"describe", "opened"} /\ key[c] = k

Inv ==
    /\ TypeOK
    /\ NamesAreOpen
    /\ \A c \in Calls : Answered(c)
    /\ \A k \in resident : Kept(k)
    /\ pendingOpens = 0 => deferred = {}

LEMMA InitInv == Init => Inv
<1> SUFFICES ASSUME Init PROVE Inv
  OBVIOUS
<1>1. InFlight = {}
  BY DEF Init, InFlight
<1>2. Cardinality(InFlight) = 0
  BY <1>1, FS_EmptySet
<1> QED
  BY <1>1, <1>2, KeysAssumption
     DEF Init, Inv, TypeOK, NamesAreOpen, Answered, Kept, CallPcs

LEMMA OpenCallInv ==
    ASSUME Inv, NEW c \in Calls, NEW k \in Keys, OpenCall(c, k) PROVE Inv'
<1>1. InFlight' = InFlight \cup {c} /\ Cardinality(InFlight') = Cardinality(InFlight) + 1
  BY CountUp DEF Inv, OpenCall
<1>2. TypeOK'
  BY <1>1, Counting DEF Inv, TypeOK, OpenCall, Goto, CallPcs
<1>3. pendingOpens' # 0
  BY DEF Inv, TypeOK, OpenCall
<1>4. NamesAreOpen' /\ \A d \in Calls : Answered(d)'
  BY DEF Inv, TypeOK, OpenCall, Goto, NamesAreOpen, Answered
<1>5. ASSUME NEW x \in resident PROVE Kept(x)'
  BY DEF Inv, TypeOK, OpenCall, Goto, Kept, IsOpen
<1> QED
  BY <1>2, <1>3, <1>4, <1>5 DEF Inv, OpenCall

\* The steps of the host between the two sides of the await.
LEMMA HostInv ==
    ASSUME Inv, NEW c \in Calls,
           Look(c) \/ Compare(c) \/ Install(c) \/ Describe(c) \/ Fail(c)
    PROVE  Inv'
<1>1. PICK to \in CallPcs \ {"none"} : pc' = [pc EXCEPT ![c] = to]
  BY DEF Look, Compare, Install, Describe, Fail, Goto, CallPcs
<1>2. pc[c] # "none"
  BY DEF Look, Compare, Install, Describe, Fail, Goto
<1>3. InFlight' = InFlight
  BY <1>1, <1>2, CountSame DEF Inv
<1>4. key[c] \in Keys
  BY <1>2 DEF Inv, TypeOK, InFlight
<1>5. /\ UNCHANGED <<names, pendingOpens, deferred, key>>
      /\ resident \subseteq resident'
      /\ resident' \subseteq resident \cup {key[c]}
      /\ orphans \subseteq orphans'
      /\ orphans' \subseteq orphans \cup {key[c]}
  BY DEF Look, Compare, Install, Describe, Fail, main
<1>6. TypeOK'
  BY <1>1, <1>3, <1>4, <1>5 DEF Inv, TypeOK
<1>7. NamesAreOpen'
  BY <1>5 DEF Inv, NamesAreOpen
<1>8. ASSUME NEW d \in Calls PROVE Answered(d)'
  <2>1. CASE d # c
    BY <2>1, <1>1, <1>5 DEF Inv, Answered, TypeOK
  <2>2. CASE d = c
    BY <2>2, <1>5 DEF Inv, Answered, TypeOK, Look, Compare, Install, Describe, Fail, Goto
  <2> QED
    BY <2>1, <2>2
<1>9. ASSUME NEW k \in resident' PROVE Kept(k)'
  <2>1. IsOpen(names, k)' = IsOpen(names, k)
    BY <1>5 DEF IsOpen
  <2>2. ASSUME NEW d \in Calls, d # c, pc[d] \in {"describe", "opened"}, key[d] = k
        PROVE  Kept(k)'
    BY <2>2, <1>1, <1>5 DEF Inv, TypeOK, Kept
  <2>3. CASE k = key[c] /\ pc[c] \in {"describe", "opened"}
    BY <2>3, <1>5 DEF Inv, TypeOK, Kept, Look, Compare, Install, Describe, Fail, Goto
  <2>4. CASE k \notin resident
    BY <2>4, <1>5 DEF Inv, TypeOK, Kept, Look, Compare, Install, Describe, Fail, Goto
  <2>5. CASE k \in resident /\ (IsOpen(names, k) \/ k \in deferred \/ k \in orphans)
    BY <2>5, <2>1, <1>5 DEF Kept
  <2> QED
    BY <2>2, <2>3, <2>4, <2>5 DEF Inv, Kept
<1> QED
  BY <1>5, <1>6, <1>7, <1>8, <1>9 DEF Inv

\* What the finally block leaves, whether the call was given an id or not.
LEMMA SettleInv ==
    ASSUME Inv, NEW c \in Calls, pc[c] # "none", pc' = [pc EXCEPT ![c] = "none"],
           UNCHANGED key, names' \in [Ids -> Keys \cup {NoKey}], Settle(names'),
           \A i \in Ids : names'[i] # NoKey => names'[i] \in resident,
           \A k \in Keys : IsOpen(names, k) => IsOpen(names', k),
           pc[c] \in {"describe", "opened"} => IsOpen(names', key[c])
    PROVE  Inv'
<1>1. InFlight' = InFlight \ {c} /\ Cardinality(InFlight') = Cardinality(InFlight) - 1
  BY CountDown DEF Inv
<1>2. c \in InFlight
  BY DEF InFlight
<1>3. pendingOpens = 1 => \A d \in Calls : pc'[d] = "none"
  BY <1>2, Counting DEF Inv, TypeOK, InFlight
<1>4. /\ pendingOpens' = pendingOpens - 1
      /\ pendingOpens = 1 => /\ resident' = {k \in resident : k \in deferred => IsOpen(names', k)}
                             /\ orphans' = orphans \cap resident'
                             /\ deferred' = {}
      /\ pendingOpens # 1 => UNCHANGED <<deferred, resident, orphans>>
  BY DEF Settle, Evict
<1>5. pendingOpens' = Cardinality(InFlight') /\ pendingOpens' \in Nat
  BY <1>1, <1>2, <1>4, Counting DEF Inv, TypeOK
<1>6. TypeOK'
  BY <1>1, <1>4, <1>5 DEF Inv, TypeOK, CallPcs
<1>7. NamesAreOpen'
  BY <1>4 DEF Inv, TypeOK, NamesAreOpen, IsOpen
<1>8. ASSUME NEW d \in Calls PROVE Answered(d)'
  BY <1>3, <1>4 DEF Inv, TypeOK, Answered
<1>9. ASSUME NEW k \in resident' PROVE Kept(k)'
  <2>1. k \in resident /\ k \in Keys /\ IsOpen(names, k)' = IsOpen(names', k)
    BY <1>4 DEF Inv, TypeOK, IsOpen
  <2>2. CASE IsOpen(names, k) \/ k \in orphans
    BY <2>1, <2>2, <1>4 DEF Kept
  <2>3. CASE k \in deferred
    BY <2>1, <2>3, <1>4 DEF Kept
  <2>4. ASSUME NEW d \in Calls, pc[d] \in {"describe", "opened"}, key[d] = k
        PROVE  Kept(k)'
    BY <2>1, <2>4, <1>3 DEF Inv, TypeOK, Kept
  <2> QED
    BY <2>1, <2>2, <2>3, <2>4 DEF Inv, Kept
<1>10. pendingOpens' = 0 => deferred' = {}
  BY <1>4 DEF Inv, TypeOK
<1> QED
  BY <1>6, <1>7, <1>8, <1>9, <1>10 DEF Inv

LEMMA OpenDoneInv ==
    ASSUME Inv, NEW c \in Calls, NEW i \in Ids, OpenDone(c, i) PROVE Inv'
<1>1. key[c] \in resident /\ key[c] \in Keys /\ key[c] # NoKey
  BY KeysAssumption DEF Inv, TypeOK, Answered, OpenDone, Goto
<1>2. names' \in [Ids -> Keys \cup {NoKey}]
  BY <1>1 DEF Inv, TypeOK, OpenDone
<1>3. \A j \in Ids : names'[j] # NoKey => names'[j] \in resident
  BY <1>1 DEF Inv, TypeOK, NamesAreOpen, OpenDone
<1>4. \A k \in Keys : IsOpen(names, k) => IsOpen(names', k)
  BY KeysAssumption DEF Inv, TypeOK, IsOpen, OpenDone
<1>5. IsOpen(names', key[c])
  BY DEF Inv, TypeOK, IsOpen, OpenDone
<1> QED
  BY <1>2, <1>3, <1>4, <1>5, SettleInv DEF OpenDone, Goto

LEMMA OpenFailedInv ==
    ASSUME Inv, NEW c \in Calls, OpenFailed(c) PROVE Inv'
<1>1. /\ pc[c] = "failed" /\ pc' = [pc EXCEPT ![c] = "none"]
      /\ names' = names /\ UNCHANGED key /\ Settle(names')
  BY DEF OpenFailed, Goto, Settle, Evict
<1>2. /\ names' \in [Ids -> Keys \cup {NoKey}]
      /\ \A i \in Ids : names'[i] # NoKey => names'[i] \in resident
      /\ \A k \in Keys : IsOpen(names, k) => IsOpen(names', k)
  BY <1>1 DEF Inv, TypeOK, NamesAreOpen
<1> QED
  BY <1>1, <1>2, SettleInv

LEMMA CloseInv ==
    ASSUME Inv, NEW i \in Ids, Close(i) PROVE Inv'
<1>1. /\ names[i] \in Keys /\ names' = [names EXCEPT ![i] = NoKey]
      /\ UNCHANGED <<pendingOpens, pc, key>>
      /\ pendingOpens > 0 => deferred' = deferred \cup {names[i]} /\ UNCHANGED <<resident, orphans>>
      /\ ~(pendingOpens > 0) =>
            /\ resident' = {k \in resident : k = names[i] => IsOpen(names', k)}
            /\ orphans' = orphans \cap resident'
            /\ UNCHANGED deferred
  BY DEF Inv, TypeOK, Close, Evict
<1>2. InFlight' = InFlight
  BY <1>1 DEF InFlight
<1>3. TypeOK'
  BY <1>1, <1>2 DEF Inv, TypeOK
<1>4. NamesAreOpen'
  BY <1>1 DEF Inv, TypeOK, NamesAreOpen, IsOpen
<1>5. ~(pendingOpens > 0) => pendingOpens = 0 /\ \A c \in Calls : pc[c] = "none"
  BY Counting DEF Inv, TypeOK, InFlight
<1>6. ASSUME NEW c \in Calls PROVE Answered(c)'
  BY <1>1, <1>5 DEF Inv, Answered
<1>7. ASSUME NEW k \in resident' PROVE Kept(k)'
  <2>1. k \in resident /\ k \in Keys
    BY <1>1 DEF Inv, TypeOK
  <2>2. IsOpen(names, k) /\ k # names[i] => IsOpen(names, k)'
    BY <1>1 DEF Inv, TypeOK, IsOpen
  <2>3. IsOpen(names, k)' = IsOpen(names', k)
    BY DEF IsOpen
  <2>4. CASE k = names[i]
    BY <2>3, <2>4, <1>1 DEF Kept
  <2>5. CASE k # names[i]
    BY <2>1, <2>2, <2>5, <1>1, <1>5 DEF Inv, Kept
  <2> QED
    BY <2>4, <2>5
<1> QED
  BY <1>1, <1>3, <1>4, <1>5, <1>6, <1>7 DEF Inv

LEMMA NextInv == Inv /\ [Next]_vars => Inv'
<1> SUFFICES ASSUME Inv, [Next]_vars PROVE Inv'
  OBVIOUS
<1>1. ASSUME NEW c \in Calls, CallStep(c) PROVE Inv'
  BY <1>1, OpenCallInv, HostInv, OpenDoneInv, OpenFailedInv DEF CallStep
<1>2. CASE UNCHANGED vars
  BY <1>2 DEF vars, Inv, TypeOK, NamesAreOpen, Answered, Kept, IsOpen, InFlight
<1> QED
  BY <1>1, <1>2, CloseInv DEF Next

-----------------------------------------------------------------------------
\* Every variable of the main process keeps its type, and pendingOpens counts
\* the opens in flight.
THEOREM TypeCorrect == Spec => []TypeOK
<1>1. Inv => TypeOK
  BY DEF Inv
<1> QED
  BY <1>1, InitInv, NextInv, PTL DEF Spec

\* Every id the renderer holds names a file the host has open, however opens
\* and closes of the file race.
THEOREM IdsStayOpen == Spec => []NamesAreOpen
<1>1. Inv => NamesAreOpen
  BY DEF Inv
<1> QED
  BY <1>1, InitInv, NextInv, PTL DEF Spec

\* With no open in flight, the host keeps only what an id names or what
\* file_info failed on.
THEOREM HostIsPruned == Spec => []NothingLeaks
<1>1. ASSUME Inv PROVE NothingLeaks
  <2>1. pendingOpens = 0 => \A c \in Calls : pc[c] = "none"
    BY <1>1, Counting DEF Inv, TypeOK, InFlight
  <2> QED
    BY <1>1, <2>1 DEF Inv, Kept, NothingLeaks
<1> QED
  BY <1>1, InitInv, NextInv, PTL DEF Spec
=============================================================================
