--------------------------- MODULE SourceSections ---------------------------
(***************************************************************************)
(* The two cache sections that are derived from files besides the ESM: the *)
(* string tables (src/esm/src/strings.rs, section `lstrings`) and the      *)
(* curves (src/esm/src/curves.rs, section `curves`).  Each holds a stamp   *)
(* of the files it was read from; a process that opens the ESM trusts a    *)
(* published section only while that stamp is the one it computes itself.  *)
(*                                                                         *)
(* Strings are stamped file by file, so a rewrite counts.  Loose curves    *)
(* are stamped by their directories, so files that come and go count and   *)
(* a rewrite in place does not.  A process takes every stat, listing and   *)
(* read in a step of its own, while the files change under it.             *)
(* BuildCache models the lease and the section file; here the lease is one *)
(* variable and a publication one step.                                    *)
(*                                                                         *)
(* The field `late` of a call and of a section is a history: no step reads *)
(* it.  It names the directories that were made after the call had listed  *)
(* the root and before it took the root's stamp, which fits from then on   *)
(* although the directory is neither listed nor stamped.                   *)
(***************************************************************************)
EXTENDS Naturals, Sequences, FiniteSets

CONSTANTS
    Procs,       \* processes that open the database
    NoProc,      \* the lease is free
    Strings,     \* the string files (strings.rs:321 loose_paths)
    Curves,      \* the curve files the CURV records name
    Root,        \* the directory curvetables/json
    Subs,        \* directories that may exist in Root
    Order,       \* all of these, in the order the code visits them
    Home,        \* [Curves -> {Root} \cup Subs]: where a curve file lives
    MaxChanges   \* bound on the changes of the environment

ASSUME SourceAssumption ==
    /\ NoProc \notin Procs /\ Root \notin Subs
    /\ (Strings \cup Curves) \cap ({Root} \cup Subs) = {}
    /\ Home \in [Curves -> {Root} \cup Subs]
    /\ Order \in Seq(Strings \cup Curves \cup {Root} \cup Subs)
    /\ \A q \in Strings \cup Curves \cup {Root} \cup Subs :
           \E i \in DOMAIN Order : Order[i] = q

Files == Strings \cup Curves
Dirs == {Root} \cup Subs
Paths == Files \cup Dirs
Kinds == {"lstrings", "curves"}

First(paths) ==
    Order[CHOOSE i \in DOMAIN Order :
              Order[i] \in paths /\ \A j \in 1 .. i - 1 : Order[j] \notin paths]

VARIABLES
    meta,     \* meta[p]: 0 when p is absent, else what `stat` tells of it
    clock,    \* the latest meta given: a change never repeats an earlier one
    lease,    \* who builds a section
    section,  \* section[k]: the published section, a set of at most one
    proc      \* proc[p]: the step of a call of `cached` and what it has seen

vars == <<meta, clock, lease, section, proc>>

NoStamp == [p \in {} |-> 0]
Idle == [pc |-> "idle", kind |-> "lstrings", dirs |-> {}, stamp |-> NoStamp,
         got |-> NoStamp, late |-> {}]

Exists(p) == meta[p] > 0

StampPaths_RootOnly(k, dirs) == IF k = "lstrings" THEN Strings ELSE {Root}

(* The paths a section of kind k is stamped by: every string file, or the  *)
(* root and the subdirectories that were listed.                           *)
StampPaths(k, dirs) == IF k = "lstrings" THEN Strings ELSE {Root} \cup dirs

(* The files a section of kind k is read from. *)
ReadPaths(k) == IF k = "lstrings" THEN Strings ELSE Curves

(* source_stamp: fails when one of the paths cannot be statted.  FNV-1a of *)
(* the metadata is taken to tell different metadata apart.                 *)
StampFails(paths) == \E p \in paths : ~Exists(p)
SourceStamp(paths) == [p \in paths |-> meta[p]]

(* Whether a section holds the stamp a process computes for it: strings    *)
(* compare the stamp taken when the call began, curves restat the          *)
(* directories the section itself lists.                                   *)
IsCurrent(s, k, mine) ==
    IF k = "lstrings"
    THEN s.stamp = mine
    ELSE LET paths == StampPaths(k, s.dirs)
         IN  ~StampFails(paths) /\ s.stamp = SourceStamp(paths)

-----------------------------------------------------------------------------
Init ==
    /\ meta = [p \in Paths |-> IF p \in Subs \cup Curves THEN 0 ELSE 1]
    /\ clock = 1
    /\ lease = NoProc
    /\ section = [k \in Kinds |-> {}]
    /\ proc = [p \in Procs |-> Idle]

Goto(p, rec) == proc' = [proc EXCEPT ![p] = rec]

(* An error ends the call; a lease it held is dropped. *)
Fail(p) ==
    /\ Goto(p, Idle)
    /\ lease' = IF lease = p THEN NoProc ELSE lease
    /\ UNCHANGED <<meta, clock, section>>

(* `cached`: strings are stamped first of all, curves look at the section. *)
Call(p, k) ==
    /\ proc[p].pc = "idle"
    /\ Goto(p, [Idle EXCEPT !.pc = IF k = "lstrings" THEN "stamp" ELSE "map",
                            !.kind = k])
    /\ UNCHANGED <<meta, clock, lease, section>>

(* One `stat` of source_stamp.  Strings go on to look at the section with  *)
(* the stamp complete, curves to read what they stamped.                   *)
Stat(p) ==
    LET c == proc[p]
        paths == StampPaths(c.kind, c.dirs)
        todo == paths \ DOMAIN c.stamp
    IN  /\ c.pc = "stamp"
        /\ IF todo = {}
           THEN /\ Goto(p, [c EXCEPT !.pc = IF c.kind = "lstrings" THEN "map"
                                            ELSE "read"])
                /\ UNCHANGED <<meta, clock, lease, section>>
           ELSE LET q == First(todo)
                IN IF Exists(q)
                  THEN /\ Goto(p, [c EXCEPT !.stamp = [x \in DOMAIN @ \cup {q} |->
                                     IF x = q THEN meta[q] ELSE @[x]]])
                       /\ UNCHANGED <<meta, clock, lease, section>>
                  ELSE Fail(p)

(* map_or_build: a current section is returned, before the lease is asked  *)
(* for and again once it is held (acquire_or_recheck).                     *)
Map(p) ==
    LET c == proc[p]
        fit == {s \in section[c.kind] : IsCurrent(s, c.kind, c.stamp)}
    IN  /\ c.pc = "map"
        /\ IF fit # {}
           THEN /\ Goto(p, Idle)
                /\ lease' = IF lease = p THEN NoProc ELSE lease
           ELSE \/ /\ lease = NoProc
                   /\ lease' = p
                   /\ UNCHANGED proc
                \/ /\ lease = p
                   /\ Goto(p, [c EXCEPT !.pc = IF c.kind = "lstrings" THEN "read"
                                               ELSE "list"])
                   /\ UNCHANGED lease
        /\ UNCHANGED <<meta, clock, section>>

(* The closure curves build with: the subdirectories are listed ...        *)
List(p) ==
    LET c == proc[p]
    IN  /\ c.pc = "list"
        /\ IF Exists(Root)
           THEN /\ Goto(p, [c EXCEPT !.pc = "stamp",
                                     !.dirs = {d \in Subs : Exists(d)}])
                /\ UNCHANGED <<meta, clock, lease, section>>
           ELSE Fail(p)

(* ... then stamped (Stat), then every file is read.  A missing string     *)
(* file fails the build, a missing curve file is skipped.                  *)
Read(p) ==
    LET c == proc[p]
        todo == ReadPaths(c.kind) \ DOMAIN c.got
    IN  /\ c.pc = "read"
        /\ todo # {}
        /\ LET q == First(todo)
           IN IF Exists(q) \/ c.kind = "curves"
             THEN /\ Goto(p, [c EXCEPT !.got = [x \in DOMAIN @ \cup {q} |->
                                IF x = q THEN meta[q] ELSE @[x]]])
                  /\ UNCHANGED <<meta, clock, lease, section>>
             ELSE Fail(p)

Publish_StampAfter(p) ==
    LET c == proc[p]
        paths == StampPaths(c.kind, c.dirs)
        new == [stamp |-> SourceStamp(paths), dirs |-> c.dirs, got |-> c.got,
                late |-> c.late]
    IN  /\ c.pc = "read"
        /\ DOMAIN c.got = ReadPaths(c.kind)
        /\ section' = [section EXCEPT ![c.kind] = {new}]
            /\ lease' = NoProc
        /\ Goto(p, Idle)
        /\ UNCHANGED <<meta, clock>>

(* The section as built is published with the stamp taken before it was    *)
(* read, the lease is released and the call returns it.                    *)
Publish(p) ==
    LET c == proc[p]
        new == [stamp |-> c.stamp, dirs |-> c.dirs, got |-> c.got,
                late |-> c.late]
    IN  /\ c.pc = "read"
        /\ DOMAIN c.got = ReadPaths(c.kind)
        /\ section' = [section EXCEPT ![c.kind] = {new}]
            /\ lease' = NoProc
        /\ Goto(p, Idle)
        /\ UNCHANGED <<meta, clock>>

-----------------------------------------------------------------------------
(* The environment: whoever extracts, patches or removes game files.       *)
Touch(changed) ==
    /\ clock < MaxChanges
    /\ clock' = clock + 1
    /\ meta' = [q \in Paths |-> IF q \in DOMAIN changed THEN changed[q] ELSE meta[q]]
    /\ UNCHANGED <<lease, section>>

(* A file is rewritten in place: its own metadata changes. *)
Rewrite(f) ==
    /\ Exists(f)
    /\ Touch([q \in {f} |-> clock + 1])
    /\ UNCHANGED proc

(* A curve file is added or removed: so does its directory's. *)
Add(f) ==
    /\ ~Exists(f) /\ Exists(Home[f])
    /\ Touch([q \in {f, Home[f]} |-> clock + 1])
    /\ UNCHANGED proc
Remove(f) ==
    /\ Exists(f)
    /\ Touch([q \in {f, Home[f]} |-> IF q = f THEN 0 ELSE clock + 1])
    /\ UNCHANGED proc

(* The call has listed Root without d and not yet taken Root's stamp. *)
Overlooks(c, d) ==
    /\ c.kind = "curves" /\ c.pc = "stamp"
    /\ d \notin c.dirs /\ Root \notin DOMAIN c.stamp

Mkdir(d) ==
    /\ ~Exists(d) /\ Exists(Root)
    /\ Touch([q \in {d, Root} |-> clock + 1])
    /\ proc' = [p \in Procs |-> IF Overlooks(proc[p], d)
                                THEN [proc[p] EXCEPT !.late = @ \cup {d}]
                                ELSE proc[p]]

Rmdir(d) ==
    /\ Exists(d)
    /\ \A f \in Curves : Home[f] = d => ~Exists(f)
    /\ Touch([q \in {d, Root} |-> IF q = d THEN 0 ELSE clock + 1])
    /\ UNCHANGED proc

Next ==
    \/ \E p \in Procs : \/ \E k \in Kinds : Call(p, k)
                        \/ Stat(p) \/ Map(p) \/ List(p) \/ Read(p) \/ Publish(p)
    \/ \E f \in Files : Rewrite(f)
    \/ \E f \in Curves : Add(f) \/ Remove(f)
    \/ \E d \in Subs : Mkdir(d) \/ Rmdir(d)

Spec == Init /\ [][Next]_vars

-----------------------------------------------------------------------------

(* String tables that the next open will trust hold the text the files     *)
(* have now, although they were stamped before they were parsed, perhaps   *)
(* by another process, and the files may have changed in between.          *)
CurrentStringsAreTrue ==
    \A s \in section["lstrings"] :
        ~StampFails(Strings) /\ s.stamp = SourceStamp(Strings) =>
            s.got = [f \in Strings |-> meta[f]]

(* What a trusted curves section knows and what exists are the same. *)
Knows(s, f) == (s.got[f] > 0) <=> Exists(f)

(* A curves section that the next open will trust knows every curve file   *)
(* that exists and none that does not, whatever came and went while it was *)
(* listed, stamped and read (curves.rs:279), except for a file whose       *)
(* directory was made between the listing and the stamp of the root.       *)
AddedIsSeen ==
    \A s \in section["curves"] :
        IsCurrent(s, "curves", NoStamp) =>
            \A f \in Curves : Home[f] \in s.late \/ Knows(s, f)

(* "Stamp before reading, so a curve added meanwhile is seen as a change   *)
(* next time rather than missed" (curves.rs:279): without the exception.   *)
AddedNeverMissed ==
    \A s \in section["curves"] :
        IsCurrent(s, "curves", NoStamp) => \A f \in Curves : Knows(s, f)
=============================================================================
