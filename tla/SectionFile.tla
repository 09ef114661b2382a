----------------------------- MODULE SectionFile -----------------------------
(***************************************************************************)
(* One section file of the cache on disk: how rkyvcache::write_section_raw *)
(* puts a new version of it in place, and what Section::map_raw makes of   *)
(* what it finds, through kills, I/O errors and power losses.              *)
(*                                                                         *)
(* A version is the section of one ESM generation; its payload is a number *)
(* of blocks.  The operating system keeps what was written but not synced  *)
(* in memory: a killed process loses nothing of it, a power loss may lose  *)
(* any part, and may undo a rename.  BuildCache has the locks that keep    *)
(* writers apart and takes this whole protocol as its one step Write; here *)
(* any number of writers run at once.                                      *)
(***************************************************************************)
EXTENDS Naturals

CONSTANTS Writers, Readers,
          Files,     \* the files there is room for (inodes)
          None,      \* no file
          Versions,  \* ESM generations
          Size,      \* version -> blocks of its payload
          MaxLosses  \* bound: power losses

ASSUME FilesAssumption == None \notin Files
ASSUME SizeAssumption == Size \in [Versions -> Nat]
ASSUME LossesAssumption == MaxLosses \in Nat

VARIABLES file,    \* what each file holds, in memory and on the device
          final,   \* the file at the section's path, or None
          past,    \* what that path may be found to name after a power loss
          wpc,     \* where each writer is
          tmp,     \* writer -> the temp file it is writing
          rpc,     \* where each reader is
          reading, \* reader -> the file it opened
          asked,   \* reader -> the version it wants
          losses

vars    == <<file, final, past, wpc, tmp, rpc, reading, asked, losses>>
path    == <<final, past>>
readers == <<rpc, reading, asked>>

(***************************************************************************)
(* version: whose section it is; header: has the real header been written? *)
(* (else the placeholder); len: payload blocks in the file; lost: those a  *)
(* power loss left zeroed; safe, headerSafe: what has reached the device.  *)
(***************************************************************************)
Contents == [version : Versions, header : BOOLEAN, len : Nat, lost : SUBSET Nat,
             safe : Nat, headerSafe : BOOLEAN]
Fresh(v) == [version |-> v, header |-> FALSE, len |-> 0, lost |-> {},
             safe |-> 0, headerSafe |-> FALSE]

Init ==
    /\ file \in [Files -> {Fresh(v) : v \in Versions}]
    /\ final = None /\ past = {None}
    /\ wpc = [w \in Writers |-> "idle"]
    /\ tmp = [w \in Writers |-> None]
    /\ rpc = [r \in Readers |-> "idle"]
    /\ reading = [r \in Readers |-> None]
    /\ asked \in [Readers -> Versions]
    /\ losses = 0

-----------------------------------------------------------------------------
(* write_section_raw *)

\* The files that are not free to be created anew.
InUse == {final} \cup past \cup {tmp[w] : w \in Writers} \cup {reading[r] : r \in Readers}

At(w, from, to) == wpc[w] = from /\ wpc' = [wpc EXCEPT ![w] = to]

\* Mutant: the section is written in place.
Create_InPlace(w, v) ==
    \E f \in (Files \ InUse) \cup ({final} \cap Files) :
        /\ At(w, "idle", "payload")
        /\ file' = [file EXCEPT ![f] = Fresh(v)]
        /\ tmp' = [tmp EXCEPT ![w] = f]
        /\ UNCHANGED <<path, readers, losses>>

\* A file of a name no one else uses, with a placeholder for a header.
Create(w, v) ==
    \E f \in Files \ InUse :
        /\ At(w, "idle", "payload")
        /\ file' = [file EXCEPT ![f] = Fresh(v)]
        /\ tmp' = [tmp EXCEPT ![w] = f]
        /\ UNCHANGED <<path, readers, losses>>

\* The serializer streams the payload into it.
Append(w) ==
    LET f == tmp[w]
    IN  /\ wpc[w] = "payload"
        /\ file[f].len < Size[file[f].version]
        /\ file' = [file EXCEPT ![f].len = @ + 1]
        /\ UNCHANGED <<path, wpc, tmp, readers, losses>>

\* Mutant: the payload is flushed and left to the operating system.
SyncPayload_Flushes(w) ==
    LET f == tmp[w]
    IN  /\ At(w, "payload", "header")
        /\ file[f].len = Size[file[f].version]
        /\ UNCHANGED <<file, path, tmp, readers, losses>>

\* flush and sync_data, when all of it is written.
SyncPayload(w) ==
    LET f == tmp[w]
    IN  /\ At(w, "payload", "header")
        /\ file[f].len = Size[file[f].version]
        /\ file' = [file EXCEPT ![f].safe = file[f].len]
        /\ UNCHANGED <<path, tmp, readers, losses>>

\* Back to the start: the real header.
WriteHeader(w) ==
    /\ At(w, "header", "sync")
    /\ file' = [file EXCEPT ![tmp[w]].header = TRUE]
    /\ UNCHANGED <<path, tmp, readers, losses>>

\* Mutant: the header is left to the operating system.
SyncAll_Skipped(w) ==
    /\ At(w, "sync", "rename")
    /\ UNCHANGED <<file, path, tmp, readers, losses>>

SyncAll(w) ==
    LET f == tmp[w]
    IN  /\ At(w, "sync", "rename")
        /\ file' = [file EXCEPT ![f].headerSafe = file[f].header, ![f].safe = file[f].len]
        /\ UNCHANGED <<path, tmp, readers, losses>>

\* The rename puts it in place of what was there.
Rename(w) ==
    /\ At(w, "rename", "idle")
    /\ final' = tmp[w]
    /\ past' = past \cup {tmp[w]}
    /\ tmp' = [tmp EXCEPT ![w] = None]
    /\ UNCHANGED <<file, readers, losses>>

\* An error of any step, or a kill: the section's path is not touched.  The
\* temp file is removed or stays behind under a name nothing opens.
Abandon(w) ==
    /\ wpc[w] # "idle"
    /\ wpc' = [wpc EXCEPT ![w] = "idle"]
    /\ tmp' = [tmp EXCEPT ![w] = None]
    /\ UNCHANGED <<file, path, readers, losses>>

\* clear_cache unlinks the section.
Unlink ==
    /\ final # None
    /\ final' = None
    /\ past' = past \cup {None}
    /\ UNCHANGED <<file, wpc, tmp, readers, losses>>

\* The file system commits the renames and removals so far.
Commit ==
    /\ past # {final}
    /\ past' = {final}
    /\ UNCHANGED <<file, final, wpc, tmp, readers, losses>>

-----------------------------------------------------------------------------
(* Section::map_raw *)

\* Open what the path names, if anything.
OpenSection(r, v) ==
    /\ rpc[r] = "idle"
    /\ final # None
    /\ rpc' = [rpc EXCEPT ![r] = "check"]
    /\ reading' = [reading EXCEPT ![r] = final]
    /\ asked' = [asked EXCEPT ![r] = v]
    /\ UNCHANGED <<file, path, wpc, tmp, losses>>

\* The header checks, and the exact length they promise.
Accepts(c, v) == c.header /\ c.version = v /\ c.len = Size[v]

\* The checks pass and the file stays mapped, or it counts as absent.
CheckSection(r) ==
    /\ rpc[r] = "check"
    /\ IF Accepts(file[reading[r]], asked[r])
       THEN rpc' = [rpc EXCEPT ![r] = "mapped"] /\ UNCHANGED reading
       ELSE /\ rpc' = [rpc EXCEPT ![r] = "idle"]
            /\ reading' = [reading EXCEPT ![r] = None]
    /\ UNCHANGED <<file, path, wpc, tmp, asked, losses>>

\* The Section is dropped.
Unmap(r) ==
    /\ rpc[r] = "mapped"
    /\ rpc' = [rpc EXCEPT ![r] = "idle"]
    /\ reading' = [reading EXCEPT ![r] = None]
    /\ UNCHANGED <<file, path, wpc, tmp, asked, losses>>

-----------------------------------------------------------------------------
(* The power fails: no process survives, and of each file any part that was *)
(* not synced may be gone: the header, the end, or blocks in the middle.    *)

Remains(c) ==
    {d \in [version : {c.version}, header : {c.header, c.headerSafe},
            len : c.safe..c.len, lost : SUBSET (c.lost \cup ((c.safe + 1)..c.len)),
            safe : c.safe..c.len, headerSafe : {c.header, c.headerSafe}] :
        /\ d.safe = d.len /\ d.headerSafe = d.header
        /\ c.lost \cap 1..d.len \subseteq d.lost /\ d.lost \subseteq 1..d.len}

PowerLoss ==
    /\ losses < MaxLosses
    /\ losses' = losses + 1
    /\ \E after \in [Files -> UNION {Remains(file[f]) : f \in Files}] :
         /\ \A f \in Files : after[f] \in Remains(file[f])
         /\ file' = after
    /\ final' \in past
    /\ past' = {final'}
    /\ wpc' = [w \in Writers |-> "idle"]
    /\ tmp' = [w \in Writers |-> None]
    /\ rpc' = [r \in Readers |-> "idle"]
    /\ reading' = [r \in Readers |-> None]
    /\ UNCHANGED asked

Next ==
    \/ \E w \in Writers :
         \/ \E v \in Versions : Create(w, v)
         \/ Append(w) \/ SyncPayload(w) \/ WriteHeader(w) \/ SyncAll(w) \/ Rename(w)
         \/ Abandon(w)
    \/ \E r \in Readers :
         (\E v \in Versions : OpenSection(r, v)) \/ CheckSection(r) \/ Unmap(r)
    \/ Unlink \/ Commit \/ PowerLoss

Spec == Init /\ [][Next]_vars

-----------------------------------------------------------------------------
\* Every variable keeps its type, and whoever is busy has a file.
TypeOK ==
    /\ file \in [Files -> Contents]
    /\ final \in Files \cup {None} /\ past \subseteq Files \cup {None}
    /\ wpc \in [Writers -> {"idle", "payload", "header", "sync", "rename"}]
    /\ tmp \in [Writers -> Files \cup {None}]
    /\ \A w \in Writers : wpc[w] = "idle" <=> tmp[w] = None
    /\ rpc \in [Readers -> {"idle", "check", "mapped"}]
    /\ reading \in [Readers -> Files \cup {None}]
    /\ \A r \in Readers : rpc[r] = "idle" <=> reading[r] = None
    /\ asked \in [Readers -> Versions]
    /\ losses \in Nat

Whole(c) == c.header /\ c.len = Size[c.version] /\ c.lost = {}

\* "There is no way for a file to ever exist at the final path with a
\* valid-looking header but a truncated or torn payload", and what was
\* published stays readable: a power loss gives back this version or an
\* earlier one, whole.
PublishedIsWhole == final # None => Whole(file[final])

\* A real header vouches for a payload that is on the device already, in a
\* temp file too, at every moment a crash may come.
HeaderLast == \A f \in Files : file[f].header => file[f].safe = Size[file[f].version]
                                                /\ file[f].lost = {}

\* The SAFETY note of map_raw, "no concurrent-mutation hazard for the duration
\* of this mapping": whatever writers and clearers do, a mapped section stays
\* the whole section of the version asked for.
MappedStaysWhole ==
    \A r \in Readers : rpc[r] = "mapped" =>
        Whole(file[reading[r]]) /\ file[reading[r]].version = asked[r]
=============================================================================
