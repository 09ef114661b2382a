-------------------------- MODULE SectionFile_proofs --------------------------
(***************************************************************************)
(* Theorems about SectionFile, for any number of writers, readers, files,  *)
(* versions, payload sizes and power losses.                               *)
(***************************************************************************)
EXTENDS SectionFile, TLAPS

USE FilesAssumption, SizeAssumption, LossesAssumption

\* A file that may be published: all of it is on the device.
Safe(f) ==
    /\ file[f].header /\ file[f].headerSafe
    /\ file[f].safe = Size[file[f].version] /\ file[f].len = file[f].safe
    /\ file[f].lost = {}

\* How far a writer's file has come.
Progress(w) ==
    LET c == file[tmp[w]]
        written == c.safe = Size[c.version] /\ c.len = c.safe
    IN  CASE wpc[w] = "idle"    -> TRUE
          [] wpc[w] = "payload" -> ~c.header /\ c.lost = {}
          [] wpc[w] = "header"  -> ~c.header /\ c.lost = {} /\ written
          [] wpc[w] = "sync"    -> c.header /\ c.lost = {} /\ written
          [] wpc[w] = "rename"  -> Safe(tmp[w])

Owned(w) ==
    tmp[w] # None =>
        /\ tmp[w] \notin past
        /\ \A u \in Writers : u # w => tmp[u] # tmp[w]
        /\ \A r \in Readers : reading[r] # tmp[w]

\* What holds of a file whatever its use.
Written(f) ==
    /\ file[f].header => /\ file[f].safe = Size[file[f].version]
                         /\ file[f].len = file[f].safe /\ file[f].lost = {}
    /\ file[f].headerSafe => file[f].header

PathInv   == final \in past /\ \A f \in past : f # None => Safe(f)
ReaderInv == \A r \in Readers :
                 /\ reading[r] # None => Safe(reading[r])
                 /\ rpc[r] = "mapped" => file[reading[r]].version = asked[r]
WriterInv == \A w \in Writers : Progress(w) /\ Owned(w)
FilesInv  == \A f \in Files : Written(f)
Inv       == TypeOK /\ PathInv /\ ReaderInv /\ WriterInv /\ FilesInv

\* With nothing written, nothing is torn.
LEMMA InitInv == Init => Inv
<1> SUFFICES ASSUME Init PROVE Inv
  OBVIOUS
<1>1. file \in [Files -> Contents]
  <2>1. \A v \in Versions : Fresh(v) \in Contents
    BY DEF Fresh, Contents
  <2> QED
    BY <2>1 DEF Init
<1>2. TypeOK
  BY <1>1 DEF Init, TypeOK
<1>3. FilesInv
  BY DEF Init, FilesInv, Written, Fresh
<1> QED
  BY <1>2, <1>3 DEF Init, Inv, PathInv, ReaderInv, WriterInv, Progress, Owned

-----------------------------------------------------------------------------
(* Types *)

\* What a writer does to its file keeps the type of what it holds.
LEMMA EditType ==
    ASSUME NEW c \in Contents
    PROVE  /\ [c EXCEPT !.len = @ + 1] \in Contents
           /\ [c EXCEPT !.safe = c.len] \in Contents
           /\ [c EXCEPT !.header = TRUE] \in Contents
           /\ [c EXCEPT !.headerSafe = c.header, !.safe = c.len] \in Contents
<1>1. [c EXCEPT !.len = @ + 1] \in Contents
  BY DEF Contents
<1>2. [c EXCEPT !.safe = c.len] \in Contents
  BY DEF Contents
<1>3. [c EXCEPT !.header = TRUE] \in Contents
  BY Zenon DEF Contents
<1>4. [c EXCEPT !.headerSafe = c.header, !.safe = c.len] \in Contents
  BY Zenon DEF Contents
<1> QED
  BY <1>1, <1>2, <1>3, <1>4

\* So does every step, to every file.
LEMMA FileType == TypeOK /\ Next => (file \in [Files -> Contents])'
<1> SUFFICES ASSUME TypeOK, Next PROVE file' \in [Files -> Contents]
  OBVIOUS
<1>0. \A f \in Files : file[f] \in Contents
  BY DEF TypeOK
<1>w. ASSUME NEW w \in Writers, wpc[w] # "idle" PROVE tmp[w] \in Files
  BY <1>w DEF TypeOK
<1>1. ASSUME NEW w \in Writers, NEW v \in Versions, Create(w, v) PROVE file' \in [Files -> Contents]
  <2>1. Fresh(v) \in Contents
    BY DEF Fresh, Contents
  <2> QED
    BY <1>1, <2>1 DEF Create, TypeOK
<1>2. ASSUME NEW w \in Writers, Append(w) \/ SyncPayload(w) \/ WriteHeader(w) \/ SyncAll(w)
      PROVE  file' \in [Files -> Contents]
  <2> DEFINE c == file[tmp[w]]
  <2>1. tmp[w] \in Files /\ c \in Contents
    BY <1>0, <1>2, <1>w DEF Append, SyncPayload, WriteHeader, SyncAll, At
  <2>3. \/ file' = [file EXCEPT ![tmp[w]] = [c EXCEPT !.len = @ + 1]]
        \/ file' = [file EXCEPT ![tmp[w]] = [c EXCEPT !.safe = c.len]]
        \/ file' = [file EXCEPT ![tmp[w]] = [c EXCEPT !.header = TRUE]]
        \/ file' = [file EXCEPT ![tmp[w]] = [c EXCEPT !.headerSafe = c.header, !.safe = c.len]]
    BY <1>2, <2>1 DEF Append, SyncPayload, WriteHeader, SyncAll, TypeOK, Contents
  <2>4. PICK d \in Contents : file' = [file EXCEPT ![tmp[w]] = d]
    <3> HIDE DEF c
    <3> QED
      BY <2>1, <2>3, EditType
  <2> QED
    BY <2>4 DEF TypeOK
<1>3. CASE PowerLoss
  <2>1. ASSUME NEW c \in Contents PROVE Remains(c) \subseteq Contents
    BY DEF Remains, Contents
  <2>2. \A f \in Files : file'[f] \in Remains(file[f])
    BY <1>3 DEF PowerLoss
  <2>3. file' \in [Files -> UNION {Remains(file[f]) : f \in Files}]
    BY <1>3 DEF PowerLoss
  <2> QED
    BY <1>0, <2>1, <2>2, <2>3
<1>4. CASE UNCHANGED file
  BY <1>4 DEF TypeOK
<1> QED
  BY <1>1, <1>2, <1>3, <1>4 DEF Next, Rename, Abandon, Unlink, Commit, OpenSection, CheckSection, Unmap

\* Every step keeps the types.
LEMMA NextType == TypeOK /\ [Next]_vars => TypeOK'
<1> SUFFICES ASSUME TypeOK, Next PROVE TypeOK'
  BY DEF TypeOK, vars
<1>1. CASE \E w \in Writers : (\E v \in Versions : Create(w, v)) \/ Append(w) \/ SyncPayload(w)
             \/ WriteHeader(w) \/ SyncAll(w) \/ Rename(w) \/ Abandon(w)
  BY <1>1, FileType DEF TypeOK, Create, Append, SyncPayload, WriteHeader, SyncAll, Rename, Abandon,
                        At, path, readers
<1>2. CASE \E r \in Readers : (\E v \in Versions : OpenSection(r, v)) \/ CheckSection(r) \/ Unmap(r)
  BY <1>2, FileType DEF TypeOK, OpenSection, CheckSection, Unmap, path
<1>3. CASE Unlink \/ Commit
  BY <1>3, FileType DEF TypeOK, Unlink, Commit, readers
<1>4. CASE PowerLoss
  BY <1>4, FileType DEF TypeOK, PowerLoss
<1> QED
  BY <1>1, <1>2, <1>3, <1>4 DEF Next

-----------------------------------------------------------------------------
(* The invariant *)

Rest == PathInv /\ ReaderInv /\ WriterInv /\ FilesInv

\* A writer at work changes its own file, which is no one else's.
LEMMA WriteInv ==
    ASSUME Inv, NEW w \in Writers,
           Append(w) \/ SyncPayload(w) \/ WriteHeader(w) \/ SyncAll(w)
    PROVE  Rest'
<1> DEFINE f == tmp[w]
<1>0. /\ TypeOK /\ Owned(w) /\ Progress(w) /\ f \in Files /\ f # None /\ wpc[w] # "idle"
      /\ file[f] \in Contents
  BY DEF Inv, WriterInv, TypeOK, Append, SyncPayload, WriteHeader, SyncAll, At
<1>1. final' = final /\ past' = past /\ tmp' = tmp /\ rpc' = rpc /\ reading' = reading /\ asked' = asked
  BY DEF Append, SyncPayload, WriteHeader, SyncAll, path, readers
<1>2. \A g \in Files : g # f => file'[g] = file[g]
  BY <1>0 DEF TypeOK, Append, SyncPayload, WriteHeader, SyncAll
<1>3. \A u \in Writers : u # w => wpc'[u] = wpc[u]
  BY <1>0 DEF TypeOK, Append, SyncPayload, WriteHeader, SyncAll, At
<1>4. Progress(w)' /\ Written(f)'
  <2>1. CASE Append(w)
    BY <1>0, <1>1, <2>1 DEF Append, Progress, Written, TypeOK, Contents, Inv, FilesInv
  <2>2. CASE SyncPayload(w)
    BY <1>0, <1>1, <2>2 DEF SyncPayload, At, Progress, Written, TypeOK, Contents, Inv, FilesInv
  <2>3. CASE WriteHeader(w)
    BY <1>0, <1>1, <2>3 DEF WriteHeader, At, Progress, Written, TypeOK, Contents, Inv, FilesInv
  <2>4. CASE SyncAll(w)
    BY <1>0, <1>1, <2>4 DEF SyncAll, At, Progress, Safe, Written, TypeOK, Contents, Inv, FilesInv
  <2> QED
    BY <2>1, <2>2, <2>3, <2>4
<1>5. PathInv'
  BY <1>0, <1>1, <1>2 DEF Inv, PathInv, Owned, Safe, TypeOK
<1>6. ReaderInv'
  BY <1>0, <1>1, <1>2 DEF Inv, ReaderInv, Owned, Safe, TypeOK
<1>7. FilesInv'
  <2>1. ASSUME NEW g \in Files, g # f PROVE Written(g)'
    BY <1>2, <2>1 DEF Inv, FilesInv, Written
  <2>2. ASSUME NEW g \in Files, g = f PROVE Written(g)'
    BY <1>1, <1>4, <2>2 DEF Written
  <2> QED
    BY <2>1, <2>2 DEF FilesInv
<1>8. WriterInv'
  <2>1. ASSUME NEW u \in Writers, u # w PROVE Progress(u)'
    <3>1. Progress(u) /\ (wpc[u] # "idle" => tmp[u] \in Files /\ tmp[u] # f)
      BY <1>0, <2>1 DEF Inv, WriterInv, Owned, TypeOK
    <3> QED
      BY <1>1, <1>2, <1>3, <2>1, <3>1 DEF Progress, Safe
  <2>2. \A u \in Writers : Owned(u)'
    BY <1>1 DEF Inv, WriterInv, Owned
  <2> QED
    BY <1>4, <2>1, <2>2 DEF WriterInv
<1> QED
  BY <1>5, <1>6, <1>7, <1>8 DEF Rest

\* A new temp file is one nobody uses.
LEMMA CreateInv ==
    ASSUME Inv, NEW w \in Writers, NEW v \in Versions, Create(w, v)
    PROVE  Rest'
<1>0. TypeOK /\ wpc[w] = "idle" /\ tmp[w] = None
  BY DEF Inv, TypeOK, Create, At
<1>1. final' = final /\ past' = past /\ rpc' = rpc /\ reading' = reading /\ asked' = asked
  BY DEF Create, path, readers
<1>2. PICK f \in Files \ InUse : /\ file' = [file EXCEPT ![f] = Fresh(v)]
                                 /\ tmp' = [tmp EXCEPT ![w] = f]
                                 /\ wpc' = [wpc EXCEPT ![w] = "payload"]
  BY DEF Create, At
<1>3. /\ f # None /\ f \notin past
      /\ \A u \in Writers : tmp[u] # f
      /\ \A r \in Readers : reading[r] # f
  BY <1>2 DEF InUse
<1>4. \A g \in Files : g # f => file'[g] = file[g]
  BY <1>0, <1>2 DEF TypeOK
<1>5. PathInv'
  BY <1>0, <1>1, <1>3, <1>4 DEF Inv, PathInv, Safe, TypeOK
<1>6. ReaderInv'
  BY <1>0, <1>1, <1>3, <1>4 DEF Inv, ReaderInv, Safe, TypeOK
<1>7. file'[f] = Fresh(v) /\ FilesInv'
  BY <1>0, <1>2, <1>4 DEF Inv, FilesInv, Written, Fresh, TypeOK
<1>8. WriterInv'
  <2>1. Progress(w)'
    BY <1>0, <1>2, <1>7 DEF Progress, Fresh, TypeOK
  <2>2. ASSUME NEW u \in Writers, u # w PROVE Progress(u)'
    <3>1. Progress(u) /\ (wpc[u] # "idle" => tmp[u] \in Files /\ tmp[u] # f)
      BY <1>0, <1>3, <2>2 DEF Inv, WriterInv, TypeOK
    <3>2. tmp'[u] = tmp[u] /\ wpc'[u] = wpc[u]
      BY <1>0, <1>2, <2>2 DEF TypeOK
    <3> QED
      BY <1>4, <3>1, <3>2 DEF Progress, Safe
  <2>3. \A u \in Writers : Owned(u)'
    BY <1>0, <1>1, <1>2, <1>3 DEF Inv, WriterInv, Owned, TypeOK
  <2> QED
    BY <2>1, <2>2, <2>3 DEF WriterInv
<1> QED
  BY <1>5, <1>6, <1>7, <1>8 DEF Rest

\* What is renamed into place is safe; what is abandoned is let go.
LEMMA LetGoInv ==
    ASSUME Inv, NEW w \in Writers, Rename(w) \/ Abandon(w)
    PROVE  Rest'
<1>0. /\ TypeOK /\ Owned(w) /\ Progress(w) /\ tmp[w] \in Files /\ tmp[w] # None
  BY DEF Inv, WriterInv, TypeOK, Rename, Abandon, At
<1>1. /\ file' = file /\ rpc' = rpc /\ reading' = reading /\ asked' = asked
      /\ tmp' = [tmp EXCEPT ![w] = None] /\ wpc' = [wpc EXCEPT ![w] = "idle"]
      /\ past' \subseteq past \cup {tmp[w]}
  BY DEF Rename, Abandon, At, path, readers
<1>2. PathInv'
  BY <1>0, <1>1 DEF Inv, PathInv, Rename, Abandon, At, path, Progress, Safe
<1>3. ReaderInv' /\ FilesInv'
  BY <1>1 DEF Inv, ReaderInv, FilesInv, Safe, Written
<1>4. WriterInv'
  <2>1. Progress(w)'
    BY <1>0, <1>1 DEF TypeOK, Progress
  <2>3. ASSUME NEW u \in Writers, u # w PROVE Progress(u)'
    <3>1. wpc'[u] = wpc[u] /\ tmp'[u] = tmp[u] /\ Progress(u)
      BY <1>0, <1>1, <2>3 DEF Inv, WriterInv, TypeOK
    <3> QED
      BY <1>1, <3>1 DEF Progress, Safe
  <2>2. \A u \in Writers : Owned(u)'
    BY <1>0, <1>1 DEF Inv, WriterInv, TypeOK, Owned
  <2> QED
    BY <2>1, <2>2, <2>3 DEF WriterInv
<1> QED
  BY <1>2, <1>3, <1>4 DEF Rest

\* Readers map only what is safe.
LEMMA ReadInv ==
    ASSUME Inv, NEW r \in Readers,
           (\E v \in Versions : OpenSection(r, v)) \/ CheckSection(r) \/ Unmap(r)
    PROVE  Rest'
<1>0. TypeOK /\ PathInv
  BY DEF Inv
<1>1. file' = file /\ final' = final /\ past' = past /\ tmp' = tmp /\ wpc' = wpc
  BY DEF OpenSection, CheckSection, Unmap, path
<1>2. \A q \in Readers : reading'[q] \in {reading[q], None} \/ (reading'[q] = final /\ final # None)
  BY <1>0 DEF OpenSection, CheckSection, Unmap, TypeOK
<1>3. ReaderInv'
  <2>1. ASSUME NEW q \in Readers, reading'[q] # None PROVE Safe(reading[q])'
    <3>1. Safe(reading'[q])
      BY <1>0, <1>1, <1>2, <2>1 DEF Inv, ReaderInv, PathInv
    <3> QED
      BY <1>1, <3>1 DEF Safe
  <2>2. ASSUME NEW q \in Readers, rpc'[q] = "mapped" PROVE (file[reading[q]].version = asked[q])'
    BY <1>0, <1>1, <2>2 DEF Inv, ReaderInv, TypeOK, OpenSection, CheckSection, Unmap, Accepts
  <2> QED
    BY <2>1, <2>2 DEF ReaderInv
<1>4. PathInv' /\ FilesInv'
  BY <1>1 DEF Inv, PathInv, FilesInv, Safe, Written
<1>5. WriterInv'
  <2>1. \A u \in Writers : Progress(u)'
    BY <1>1 DEF Inv, WriterInv, Progress, Safe
  <2>2. \A u \in Writers : Owned(u)'
    BY <1>0, <1>1, <1>2 DEF Inv, WriterInv, Owned, PathInv
  <2> QED
    BY <2>1, <2>2 DEF WriterInv
<1> QED
  BY <1>3, <1>4, <1>5 DEF Rest

\* A power loss takes nothing from a safe file.
LEMMA LossInv == ASSUME Inv, PowerLoss PROVE Rest'
<1>0. /\ TypeOK /\ final' \in past /\ past' = {final'}
      /\ \A f \in Files : file'[f] \in Remains(file[f])
  BY DEF Inv, PowerLoss
<1>1. ASSUME NEW f \in Files, Safe(f) PROVE Safe(f)'
  <2>1. file[f] \in Contents
    BY <1>0 DEF TypeOK
  <2>2. /\ file'[f].version = file[f].version /\ file'[f].header \in {file[f].header, file[f].headerSafe}
        /\ file'[f].headerSafe = file'[f].header /\ file'[f].safe = file'[f].len
        /\ file'[f].len \in file[f].safe..file[f].len
        /\ file'[f].lost \subseteq file[f].lost \cup ((file[f].safe + 1)..file[f].len)
    BY <1>0 DEF Remains
  <2>3. (file[f].safe + 1)..file[f].len = {}
    BY <1>1, <2>1 DEF Safe, Contents
  <2>4. file'[f].header /\ file'[f].headerSafe
    <3>1. file[f].header /\ file[f].headerSafe
      BY <1>1 DEF Safe
    <3>2. file'[f].header = file[f].header \/ file'[f].header = file[f].headerSafe
      BY <2>2
    <3> QED
      BY <2>2, <3>1, <3>2
  <2>5. file'[f].len = file[f].len /\ file'[f].lost = {}
    BY <1>1, <2>1, <2>2, <2>3 DEF Safe, Contents
  <2> QED
    BY <1>1, <2>2, <2>4, <2>5 DEF Safe
<1>2. FilesInv'
  <2> SUFFICES ASSUME NEW f \in Files PROVE Written(f)'
    BY DEF FilesInv
  <2>1. file[f] \in Contents /\ Written(f)
    BY <1>0 DEF TypeOK, Inv, FilesInv
  <2>2. /\ file'[f].version = file[f].version /\ file'[f].header \in {file[f].header, file[f].headerSafe}
        /\ file'[f].headerSafe = file'[f].header /\ file'[f].safe = file'[f].len
        /\ file'[f].len \in file[f].safe..file[f].len
        /\ file'[f].lost \subseteq file[f].lost \cup ((file[f].safe + 1)..file[f].len)
    BY <1>0 DEF Remains
  <2>3. CASE ~file'[f].header
    BY <2>2, <2>3 DEF Written
  <2>4. CASE file'[f].header
    <3>1. file[f].header
      BY <2>1, <2>2, <2>4 DEF Written
    <3>2. (file[f].safe + 1)..file[f].len = {} /\ file'[f].len = file[f].len
      BY <2>1, <2>2, <3>1 DEF Written, Contents
    <3> QED
      BY <2>1, <2>2, <3>1, <3>2 DEF Written
  <2> QED
    BY <2>3, <2>4
<1>3. PathInv'
  BY <1>0, <1>1 DEF Inv, PathInv, TypeOK
<1>4. ReaderInv' /\ WriterInv'
  BY DEF PowerLoss, ReaderInv, WriterInv, Progress, Owned
<1> QED
  BY <1>2, <1>3, <1>4 DEF Rest

\* Every step keeps the invariant.
LEMMA NextInv == Inv /\ [Next]_vars => Inv'
<1> SUFFICES ASSUME Inv, [Next]_vars PROVE Rest'
  BY NextType DEF Inv, Rest
<1>1. CASE Unlink \/ Commit
  <2>1. PathInv'
    BY <1>1 DEF Unlink, Commit, Inv, PathInv, Safe
  <2>2. WriterInv'
    <3>1. past' \subseteq past \cup {None} /\ tmp' = tmp /\ wpc' = wpc /\ file' = file /\ reading' = reading
      BY <1>1 DEF Unlink, Commit, Inv, PathInv, readers
    <3>2. \A w \in Writers : Progress(w)'
      BY <3>1 DEF Inv, WriterInv, Progress, Safe
    <3>3. \A w \in Writers : Owned(w)'
      BY <3>1 DEF Inv, WriterInv, Owned
    <3> QED
      BY <3>2, <3>3 DEF WriterInv
  <2>3. ReaderInv' /\ FilesInv'
    BY <1>1 DEF Unlink, Commit, readers, Inv, ReaderInv, FilesInv, Safe, Written
  <2> QED
    BY <2>1, <2>2, <2>3 DEF Rest
<1>2. CASE UNCHANGED vars
  BY <1>2, ZenonT(30) DEF vars, Inv, Rest, PathInv, ReaderInv, WriterInv, FilesInv, Safe, Written, Progress, Owned
<1> QED
  BY <1>1, <1>2, WriteInv, CreateInv, LetGoInv, ReadInv, LossInv DEF Next

\* A temp file is used by one writer, and every variable keeps its type.
THEOREM TypeCorrect == Spec => []TypeOK
<1>1. Inv => TypeOK
  BY DEF Inv
<1> QED
  BY <1>1, InitInv, NextInv, PTL DEF Spec

\* Whatever is at the section's path is a whole section, through any kills,
\* errors and power losses.
THEOREM NothingTorn == Spec => []PublishedIsWhole
<1>1. Inv => PublishedIsWhole
  BY DEF Inv, TypeOK, PathInv, PublishedIsWhole, Whole, Safe
<1> QED
  BY <1>1, InitInv, NextInv, PTL DEF Spec

\* No file ever has a header before its payload is on the device.
THEOREM HeaderComesLast == Spec => []HeaderLast
<1>1. Inv => HeaderLast
  BY DEF Inv, FilesInv, Written, HeaderLast
<1> QED
  BY <1>1, InitInv, NextInv, PTL DEF Spec

\* A mapping is never changed under its reader.
THEOREM MappingsAreStable == Spec => []MappedStaysWhole
<1>1. Inv => MappedStaysWhole
  BY DEF Inv, TypeOK, ReaderInv, MappedStaysWhole, Whole, Safe
<1> QED
  BY <1>1, InitInv, NextInv, PTL DEF Spec
=============================================================================
