------------------------ MODULE SourceSections_proofs ------------------------
(***************************************************************************)
(* The sections derived from files besides the ESM, for any files, number  *)
(* of processes and number of changes: a section that the next open will   *)
(* trust tells of the files as they are.  Metadata only grows, so that a   *)
(* stamp which still fits says that nothing changed since it was taken.    *)
(***************************************************************************)
EXTENDS SourceSections, WellFoundedInduction, TLAPS

Fields == {"pc", "kind", "dirs", "stamp", "got", "late"}

IsMap(g) == g = [x \in DOMAIN g |-> g[x]]

\* Stamps are of times that have been.
Past(stamp) == \A x \in DOMAIN stamp : stamp[x] \in 1 .. clock

\* A call of `cached` reads only after it has stamped everything.
CallShape(c) ==
    /\ DOMAIN c = Fields
    /\ c.kind \in Kinds /\ c.dirs \subseteq Subs
    /\ DOMAIN c.stamp \subseteq StampPaths(c.kind, c.dirs) /\ Past(c.stamp)
    /\ DOMAIN c.got \subseteq ReadPaths(c.kind) /\ IsMap(c.got)
    /\ c.pc \in {"idle", "stamp", "map", "list", "read"}
    /\ c.pc # "read" => DOMAIN c.got = {}
    /\ c.pc = "read" => DOMAIN c.stamp = StampPaths(c.kind, c.dirs)
    /\ c.pc = "map" =>
         DOMAIN c.stamp = IF c.kind = "lstrings" THEN Strings ELSE {}
    /\ c.pc = "list" => c.kind = "curves" /\ DOMAIN c.stamp = {}

SectionShape(k, s) ==
    /\ s.dirs \subseteq Subs
    /\ DOMAIN s.stamp = StampPaths(k, s.dirs) /\ Past(s.stamp)
    /\ DOMAIN s.got = ReadPaths(k) /\ IsMap(s.got)

MetaShape ==
    /\ clock \in Nat
    /\ meta \in [Paths -> Nat]
    /\ \A q \in Paths : meta[q] <= clock
    \* A curve file lives in a directory that exists.
    /\ \A f \in Curves : Exists(f) => Exists(Home[f])

Shape ==
    /\ MetaShape
    /\ DOMAIN proc = Procs /\ \A p \in Procs : CallShape(proc[p])
    /\ DOMAIN section = Kinds
    /\ \A k \in Kinds : \A s \in section[k] : SectionShape(k, s)

-----------------------------------------------------------------------------
(* The steps.                                                              *)

LEMMA FirstOfThem ==
    ASSUME NEW paths \in SUBSET Paths, paths # {}
    PROVE  First(paths) \in paths
<1> DEFINE at == {i \in DOMAIN Order : Order[i] \in paths}
<1>1. DOMAIN Order = 1 .. Len(Order) /\ Len(Order) \in Nat
  BY SourceAssumption
<1>2. at # {} /\ at \subseteq Nat
  BY <1>1, SourceAssumption DEF Paths, Files, Dirs
<1>3. PICK i \in at : \A j \in at : i <= j
  <2>1. PICK i \in at : \A j \in at : <<j, i>> \notin OpToRel(<, Nat)
    BY <1>2, NatLessThanWellFounded, WFMin
  <2>2. \A j \in at : ~(j < i)
    BY <1>2, <2>1 DEF OpToRel
  <2> QED
    BY <1>2, <2>2
<1>4. \A j \in 1 .. i - 1 : Order[j] \notin paths
  BY <1>1, <1>3
<1> QED
  BY <1>3, <1>4 DEF First

\* A change of the files leaves a call where it is; at most, it notes that a
\* directory is late.
Noted(p) ==
    LET c == proc[p]
        w == proc'[p]
    IN  /\ DOMAIN w = Fields
        /\ w.pc = c.pc /\ w.kind = c.kind /\ w.dirs = c.dirs
        /\ w.stamp = c.stamp /\ w.got = c.got
        /\ c.late \subseteq w.late

\* What every change of the files has in common: what changes gets a stamp
\* no one has seen, and so does the directory of what comes or goes.
Changes ==
    /\ clock' = clock + 1
    /\ \A q \in Paths : meta'[q] \in {meta[q], 0, clock + 1}
    /\ \A f \in Curves : Exists(f)' = Exists(f) \/ meta'[Home[f]] = clock + 1
    /\ \A d \in Subs :
         Exists(d)' => \/ Exists(d)
                       \/ /\ meta'[Root] = clock + 1
                          /\ \A p \in Procs : Overlooks(proc[p], d) => d \in proc'[p].late
    /\ UNCHANGED section
    /\ DOMAIN proc' = Procs
    /\ \A p \in Procs : Noted(p)

Environment ==
    \/ \E f \in Files : Rewrite(f)
    \/ \E f \in Curves : Add(f) \/ Remove(f)
    \/ \E d \in Subs : Mkdir(d) \/ Rmdir(d)

LEMMA PlacesAreApart ==
    /\ Curves \subseteq Paths /\ Strings \subseteq Paths /\ Subs \subseteq Paths
    /\ Root \in Paths /\ Root \notin Subs
    /\ \A f \in Curves : f \notin Dirs /\ Home[f] \in Dirs
    /\ \A f \in Files : f \notin Dirs
    /\ Dirs \subseteq Paths /\ Subs \subseteq Dirs /\ Root \in Dirs
BY SourceAssumption DEF Paths, Files, Dirs

LEMMA EnvironmentChanges ==
    ASSUME Shape, Environment
    PROVE  Changes /\ MetaShape'
<1> USE DEF Shape
<1>0. UNCHANGED proc => DOMAIN proc' = Procs /\ \A p \in Procs : Noted(p)
  BY DEF Noted, CallShape, Fields
<1>1. CASE \E f \in Files : Rewrite(f)
  <2>1. PICK f \in Files : Rewrite(f)
    BY <1>1
  <2>2. /\ meta' = [q \in Paths |-> IF q = f THEN clock + 1 ELSE meta[q]]
        /\ clock' = clock + 1 /\ meta[f] > 0
        /\ UNCHANGED <<section, proc>>
    BY <2>1 DEF Rewrite, Touch, Exists
  <2> QED
    BY <1>0, <2>2, PlacesAreApart DEF MetaShape, Changes, Exists, Files
<1>2. ASSUME NEW f \in Curves, Add(f)
      PROVE  Changes /\ MetaShape'
  <2>1. /\ meta' = [q \in Paths |-> IF q \in {f, Home[f]} THEN clock + 1 ELSE meta[q]]
        /\ clock' = clock + 1 /\ meta[Home[f]] > 0
        /\ UNCHANGED <<section, proc>>
    BY <1>2 DEF Add, Touch, Exists
  <2> QED
    BY <1>0, <2>1, PlacesAreApart DEF MetaShape, Changes, Exists
<1>3. ASSUME NEW f \in Curves, Remove(f)
      PROVE  Changes /\ MetaShape'
  <2>1. /\ meta' = [q \in Paths |-> IF q = f THEN 0
                                    ELSE IF q = Home[f] THEN clock + 1 ELSE meta[q]]
        /\ clock' = clock + 1 /\ meta[f] > 0
        /\ UNCHANGED <<section, proc>>
    BY <1>3 DEF Remove, Touch, Exists
  <2>2. meta[Home[f]] > 0
    BY <2>1 DEF MetaShape, Exists
  <2> QED
    BY <1>0, <2>1, <2>2, PlacesAreApart DEF MetaShape, Changes, Exists
<1>4. ASSUME NEW d \in Subs, Mkdir(d)
      PROVE  Changes /\ MetaShape'
  <2>1. /\ meta' = [q \in Paths |-> IF q \in {d, Root} THEN clock + 1 ELSE meta[q]]
        /\ clock' = clock + 1 /\ meta[Root] > 0 /\ UNCHANGED section
        /\ proc' = [p \in Procs |-> IF Overlooks(proc[p], d)
                                    THEN [proc[p] EXCEPT !.late = proc[p].late \cup {d}]
                                    ELSE proc[p]]
    BY <1>4 DEF Mkdir, Touch, Exists
  <2>2. ASSUME NEW p \in Procs
        PROVE  /\ Noted(p)
               /\ Overlooks(proc[p], d) => d \in proc'[p].late
    <3>1. CallShape(proc[p])
      OBVIOUS
    <3>2. CASE Overlooks(proc[p], d)
      <4>1. proc'[p] = [proc[p] EXCEPT !.late = proc[p].late \cup {d}]
        BY <2>1, <3>2
      <4> QED
        BY <3>1, <4>1 DEF Noted, CallShape, Fields
    <3>3. CASE ~Overlooks(proc[p], d)
      <4>1. proc'[p] = proc[p]
        BY <2>1, <3>3
      <4> QED
        BY <3>1, <3>3, <4>1 DEF Noted, CallShape
    <3> QED
      BY <3>2, <3>3
  <2>3. MetaShape'
    BY <2>1, PlacesAreApart DEF MetaShape, Exists
  <2> QED
    BY <2>1, <2>2, <2>3, PlacesAreApart DEF MetaShape, Changes, Exists
<1>5. ASSUME NEW d \in Subs, Rmdir(d)
      PROVE  Changes /\ MetaShape'
  <2>1. /\ meta' = [q \in Paths |-> IF q = d THEN 0
                                    ELSE IF q = Root THEN clock + 1 ELSE meta[q]]
        /\ clock' = clock + 1
        /\ \A f \in Curves : Home[f] = d => ~(meta[f] > 0)
        /\ UNCHANGED <<section, proc>>
    BY <1>5 DEF Rmdir, Touch, Exists
  <2> QED
    BY <1>0, <2>1, PlacesAreApart DEF MetaShape, Changes, Exists
<1> QED
  BY <1>1, <1>2, <1>3, <1>4, <1>5 DEF Environment

\* What one process does it does for itself.
Works(p) ==
    \/ \E k \in Kinds : Call(p, k)
    \/ Stat(p) \/ Map(p) \/ List(p) \/ Read(p) \/ Publish(p)

LEMMA StepsAre == [Next]_vars => Environment \/ (\E p \in Procs : Works(p)) \/ UNCHANGED vars
BY DEF Next, Environment, Works

\* A stat or a read adds one path to what has been seen.
Extended(g, q, m) == [x \in DOMAIN g \cup {q} |-> IF x = q THEN m ELSE g[x]]

LEMMA ExtendedIs ==
    ASSUME NEW g, NEW q, NEW m
    PROVE  /\ DOMAIN Extended(g, q, m) = DOMAIN g \cup {q} /\ IsMap(Extended(g, q, m))
           /\ Extended(g, q, m)[q] = m
           /\ \A x \in DOMAIN g : x # q => Extended(g, q, m)[x] = g[x]
BY DEF Extended, IsMap

\* The ways a call can go on: it ends, begins, looks at the section, sees one
\* more path, or has seen them all and publishes.
Ends(p)    == proc' = [proc EXCEPT ![p] = Idle] /\ UNCHANGED section
Begins(p)  ==
    \E k \in Kinds :
        /\ proc' = [proc EXCEPT ![p] = [Idle EXCEPT
                      !.pc = IF k = "lstrings" THEN "stamp" ELSE "map", !.kind = k]]
        /\ UNCHANGED <<section, lease>>
GoesOn(p)  ==
    \E pc \in {"map", "read", "list"} :
        /\ proc' = [proc EXCEPT ![p].pc = pc]
        /\ \/ /\ proc[p].pc = "stamp" /\ pc = (IF proc[p].kind = "lstrings" THEN "map" ELSE "read")
              /\ StampPaths(proc[p].kind, proc[p].dirs) \subseteq DOMAIN proc[p].stamp
           \/ /\ proc[p].pc = "map" /\ pc = (IF proc[p].kind = "lstrings" THEN "read" ELSE "list")
              /\ lease = p
        /\ UNCHANGED <<section, lease>>
Stamps(p)  ==
    \E q \in StampPaths(proc[p].kind, proc[p].dirs) :
        /\ proc[p].pc = "stamp" /\ Exists(q) /\ q \notin DOMAIN proc[p].stamp
        /\ proc' = [proc EXCEPT ![p].stamp = Extended(@, q, meta[q])]
        /\ UNCHANGED <<section, lease>>
Lists(p)   ==
    /\ proc[p].pc = "list"
    /\ proc' = [proc EXCEPT ![p].pc = "stamp", ![p].dirs = {d \in Subs : Exists(d)}]
    /\ UNCHANGED <<section, lease>>
Reads(p)   ==
    \E q \in ReadPaths(proc[p].kind) :
        /\ proc[p].pc = "read"
        /\ proc' = [proc EXCEPT ![p].got = Extended(@, q, meta[q])]
        /\ UNCHANGED <<section, lease>>

LEMMA WaysToWork ==
    ASSUME Shape, NEW p \in Procs, Works(p)
    PROVE  /\ UNCHANGED <<meta, clock>>
           /\ \/ Begins(p) \/ GoesOn(p) \/ Stamps(p) \/ Lists(p) \/ Reads(p) \/ Publish(p)
              \/ Ends(p) /\ lease' = (IF lease = p THEN NoProc ELSE lease)
              \/ UNCHANGED <<section, proc>> /\ lease = NoProc /\ lease' = p
<1>1. CASE \E k \in Kinds : Call(p, k)
  BY <1>1 DEF Call, Begins, Goto
<1>2. CASE Stat(p)
  <2> DEFINE todo == StampPaths(proc[p].kind, proc[p].dirs) \ DOMAIN proc[p].stamp
  <2>1. CASE todo = {}
    BY <1>2, <2>1 DEF Stat, Goto, GoesOn
  <2>2. CASE todo # {}
    <3>1. todo \subseteq Paths
      BY PlacesAreApart DEF StampPaths, Shape, CallShape
    <3>2. First(todo) \in todo
      BY <2>2, <3>1, FirstOfThem
    <3>3. CASE Exists(First(todo))
      BY <1>2, <2>2, <3>2, <3>3 DEF Stat, Goto, Stamps, Extended
    <3>4. CASE ~Exists(First(todo))
      BY <1>2, <2>2, <3>4 DEF Stat, Fail, Goto, Ends
    <3> QED
      BY <3>3, <3>4
  <2> QED
    BY <2>1, <2>2
<1>3. CASE Map(p)
  BY <1>3 DEF Map, Goto, Ends, GoesOn
<1>4. CASE List(p)
  BY <1>4 DEF List, Goto, Fail, Ends, Lists
<1>5. CASE Read(p)
  <2> DEFINE todo == ReadPaths(proc[p].kind) \ DOMAIN proc[p].got
  <2>1. todo \subseteq Paths /\ todo # {}
    BY <1>5, PlacesAreApart DEF ReadPaths, Read
  <2>2. First(todo) \in todo
    BY <2>1, FirstOfThem
  <2>3. \/ proc' = [proc EXCEPT ![p].got = Extended(@, First(todo), meta[First(todo)])]
           /\ UNCHANGED <<meta, clock, lease, section>>
        \/ Fail(p)
    BY <1>5 DEF Read, Goto, Extended
  <2> QED
    BY <1>5, <2>2, <2>3 DEF Read, Reads, Fail, Goto, Ends
<1>6. CASE Publish(p)
  BY <1>6 DEF Publish
<1> QED
  BY <1>1, <1>2, <1>3, <1>4, <1>5, <1>6 DEF Works

-----------------------------------------------------------------------------
(* The shape of calls and sections.                                        *)

LEMMA IdleShape ==
    ASSUME MetaShape, NEW k \in Kinds
    PROVE  /\ CallShape(Idle)
           /\ CallShape([Idle EXCEPT !.pc = IF k = "lstrings" THEN "stamp" ELSE "map", !.kind = k])
BY DEF CallShape, Idle, NoStamp, Fields, IsMap, Past, Kinds, StampPaths

LEMMA ShapeWorks ==
    ASSUME Shape, NEW p \in Procs, Works(p)
    PROVE  Shape'
<1> DEFINE c == proc[p]
<1>1. CallShape(c) /\ MetaShape /\ UNCHANGED <<meta, clock>>
  BY WaysToWork DEF Shape
<1>2. MetaShape'
  BY <1>1 DEF MetaShape, Exists
<1>3. \A k \in Kinds : \A s : SectionShape(k, s) => SectionShape(k, s)'
  BY <1>1 DEF SectionShape, Past, StampPaths, ReadPaths
<1>4. \A d : CallShape(d) => CallShape(d)'
  BY <1>1 DEF CallShape, Past, StampPaths, ReadPaths
<1>5. SUFFICES ASSUME NEW d, proc' = [proc EXCEPT ![p] = d], CallShape(d)
               PROVE  UNCHANGED section => Shape'
  <2>1. CASE Begins(p)
    BY <1>1, <1>5, <2>1, IdleShape DEF Begins, Shape
  <2>2. CASE Ends(p)
    BY <1>1, <1>5, <2>2, IdleShape DEF Ends, Shape, Kinds
  <2>3. CASE GoesOn(p)
    <3>1. PICK pc \in {"map", "read", "list"} :
            /\ proc' = [proc EXCEPT ![p] = [c EXCEPT !.pc = pc]]
            /\ \/ /\ c.pc = "stamp" /\ pc = (IF c.kind = "lstrings" THEN "map" ELSE "read")
                  /\ StampPaths(c.kind, c.dirs) \subseteq DOMAIN c.stamp
               \/ c.pc = "map" /\ pc = (IF c.kind = "lstrings" THEN "read" ELSE "list")
            /\ UNCHANGED section
      BY <2>3 DEF GoesOn
    <3>2. CallShape([c EXCEPT !.pc = pc])
      BY <1>1, <3>1 DEF CallShape, Fields, StampPaths, Kinds
    <3> QED
      BY <1>5, <3>1, <3>2
  <2>4. CASE Stamps(p)
    <3>1. PICK q \in StampPaths(c.kind, c.dirs) :
            /\ c.pc = "stamp" /\ Exists(q)
            /\ proc' = [proc EXCEPT ![p] = [c EXCEPT !.stamp = Extended(c.stamp, q, meta[q])]]
            /\ UNCHANGED section
      BY <2>4 DEF Stamps
    <3>2. q \in Paths
      BY <1>1, PlacesAreApart DEF StampPaths, CallShape
    <3>3. meta[q] \in 1 .. clock
      BY <1>1, <3>1, <3>2 DEF MetaShape, Exists
    <3> DEFINE stamp == Extended(c.stamp, q, meta[q])
    <3>6. /\ DOMAIN stamp = DOMAIN c.stamp \cup {q} /\ stamp[q] = meta[q]
          /\ \A x \in DOMAIN c.stamp : x # q => stamp[x] = c.stamp[x]
      BY DEF Extended
    <3> HIDE DEF stamp
    <3>4. DOMAIN stamp \subseteq StampPaths(c.kind, c.dirs) /\ Past(stamp)
      BY <1>1, <3>1, <3>3, <3>6 DEF CallShape, Past
    <3>5. CallShape([c EXCEPT !.stamp = stamp])
      BY <1>1, <3>1, <3>4 DEF CallShape, Fields
    <3> QED
      BY <1>5, <3>1, <3>5 DEF stamp
  <2>5. CASE Lists(p)
    <3>1. /\ c.pc = "list" /\ UNCHANGED section
          /\ proc' = [proc EXCEPT ![p] = [c EXCEPT !.pc = "stamp", !.dirs = {d1 \in Subs : Exists(d1)}]]
      BY <2>5 DEF Lists
    <3>2. CallShape([c EXCEPT !.pc = "stamp", !.dirs = {d1 \in Subs : Exists(d1)}])
      BY <1>1, <3>1 DEF CallShape, Fields, Past, StampPaths
    <3> QED
      BY <1>5, <3>1, <3>2
  <2>6. CASE Reads(p)
    <3>1. PICK q \in ReadPaths(c.kind) :
            /\ c.pc = "read"
            /\ proc' = [proc EXCEPT ![p] = [c EXCEPT !.got = Extended(c.got, q, meta[q])]]
            /\ UNCHANGED section
      BY <2>6 DEF Reads
    <3> DEFINE got == Extended(c.got, q, meta[q])
    <3>4. DOMAIN got = DOMAIN c.got \cup {q} /\ IsMap(got)
      BY ExtendedIs
    <3> HIDE DEF got
    <3>2. DOMAIN got \subseteq ReadPaths(c.kind) /\ IsMap(got)
      BY <1>1, <3>1, <3>4 DEF CallShape
    <3>3. CallShape([c EXCEPT !.got = got])
      BY <1>1, <3>1, <3>2 DEF CallShape, Fields
    <3> QED
      BY <1>5, <3>1, <3>3 DEF got
  <2>7. CASE Publish(p)
    <3> DEFINE new == [stamp |-> c.stamp, dirs |-> c.dirs, got |-> c.got, late |-> c.late]
    <3>1. /\ c.pc = "read" /\ DOMAIN c.got = ReadPaths(c.kind)
          /\ section' = [section EXCEPT ![c.kind] = {new}]
          /\ proc' = [proc EXCEPT ![p] = Idle]
      BY <2>7 DEF Publish, Goto
    <3>2. SectionShape(c.kind, new)
      BY <1>1, <3>1 DEF CallShape, SectionShape
    <3>3. /\ DOMAIN section' = Kinds
          /\ \A k \in Kinds : \A s \in section'[k] : SectionShape(k, s)
      BY <1>1, <3>1, <3>2 DEF Shape, CallShape
    <3>4. \A r \in Procs : CallShape(proc'[r])
      BY <1>1, <3>1, IdleShape DEF Shape, Kinds
    <3> QED
      BY <1>2, <1>3, <1>4, <3>1, <3>3, <3>4 DEF Shape
  <2>8. CASE UNCHANGED <<section, proc>>
    BY <1>2, <1>3, <1>4, <2>8 DEF Shape
  <2> QED
    BY <2>1, <2>2, <2>3, <2>4, <2>5, <2>6, <2>7, <2>8, WaysToWork
<1> QED
  BY <1>2, <1>3, <1>4, <1>5 DEF Shape

\* What has been stamped stays past when the files change.
LEMMA ShapeChanges ==
    ASSUME Shape, Environment
    PROVE  Shape'
<1>1. Changes /\ MetaShape'
  BY EnvironmentChanges DEF Shape
<1>2. clock \in Nat /\ clock' = clock + 1 /\ UNCHANGED section
  BY <1>1 DEF Changes, Shape, MetaShape
<1>3. \A g : Past(g) => Past(g)'
  BY <1>2 DEF Past
<1>4. \A d : CallShape(d) => CallShape(d)'
  BY <1>3 DEF CallShape, StampPaths, ReadPaths
<1>6. \A p \in Procs : CallShape(proc'[p])
  BY <1>1 DEF Shape, Changes, Noted, CallShape, Fields
<1>5. \A k, s : SectionShape(k, s) => SectionShape(k, s)'
  BY <1>3 DEF SectionShape, StampPaths, ReadPaths
<1> QED
  BY <1>1, <1>2, <1>4, <1>5, <1>6 DEF Shape, Changes

LEMMA ShapeAlways == Spec => []Shape
<1>1. Init => Shape
  <2> SUFFICES ASSUME Init PROVE Shape
    OBVIOUS
  <2>1. MetaShape
    BY PlacesAreApart DEF Init, MetaShape, Exists
  <2> QED
    BY <2>1, IdleShape DEF Init, Shape, Kinds
<1>2. Shape /\ [Next]_vars => Shape'
  <2>1. ASSUME Shape, UNCHANGED vars
        PROVE  Shape'
    <3>1. MetaShape'
      BY <2>1 DEF Shape, vars, MetaShape, Exists
    <3>2. \A d : CallShape(d) => CallShape(d)'
      BY <2>1 DEF vars, CallShape, Past, StampPaths, ReadPaths
    <3>3. \A k, s : SectionShape(k, s) => SectionShape(k, s)'
      BY <2>1 DEF vars, SectionShape, Past, StampPaths, ReadPaths
    <3> QED
      BY <2>1, <3>1, <3>2, <3>3 DEF Shape, vars
  <2> QED
    BY <2>1, ShapeWorks, ShapeChanges, StepsAre
<1> QED
  BY <1>1, <1>2, PTL DEF Spec

-----------------------------------------------------------------------------
(* String tables.                                                          *)

\* What was read of a file whose stamp still fits is what it holds.
TrueStrings(v) == \A f \in DOMAIN v.got : v.stamp[f] = meta[f] => v.got[f] = meta[f]

StringsInv ==
    /\ \A p \in Procs : proc[p].kind = "lstrings" => TrueStrings(proc[p])
    /\ \A s \in section["lstrings"] : TrueStrings(s)

LEMMA StringsHold == Shape /\ StringsInv /\ [Next]_vars => StringsInv'
<1> SUFFICES ASSUME Shape, StringsInv, [Next]_vars
             PROVE  StringsInv'
  OBVIOUS
<1>1. CASE Environment
  <2>1. Changes /\ MetaShape
    BY <1>1, EnvironmentChanges DEF Shape
  <2>5. \A p \in Procs : /\ proc'[p].kind = proc[p].kind /\ proc'[p].got = proc[p].got
                         /\ proc'[p].stamp = proc[p].stamp
    BY <2>1 DEF Changes, Noted, Shape, CallShape, Fields
  <2>2. ASSUME NEW v, TrueStrings(v), DOMAIN v.got \subseteq Strings, Past(v.stamp),
               DOMAIN v.got \subseteq DOMAIN v.stamp
        PROVE  \A f \in DOMAIN v.got : v.stamp[f] = meta'[f] => v.got[f] = meta'[f]
    BY <2>1, <2>2, PlacesAreApart DEF TrueStrings, Changes, MetaShape, Past
  <2>3. ASSUME NEW p \in Procs, proc[p].kind = "lstrings"
        PROVE  TrueStrings(proc[p])'
    <3> DEFINE c == proc[p]
    <3>1. CallShape(c) /\ TrueStrings(c)
      BY <2>3 DEF Shape, StringsInv
    <3>2. CASE proc[p].pc = "read"
      <4>1. \A f \in DOMAIN c.got : c.stamp[f] = meta'[f] => c.got[f] = meta'[f]
        BY <2>2, <2>3, <3>1, <3>2 DEF CallShape, StampPaths, ReadPaths
      <4> QED
        BY <2>5, <4>1 DEF TrueStrings
    <3>3. CASE proc[p].pc # "read"
      BY <2>5, <3>1, <3>3 DEF CallShape, TrueStrings
    <3> QED
      BY <3>2, <3>3
  <2>4. ASSUME NEW s \in section["lstrings"]
        PROVE  TrueStrings(s)'
    <3>1. SectionShape("lstrings", s) /\ TrueStrings(s)
      BY <2>4 DEF Shape, StringsInv, Kinds
    <3>2. \A f \in DOMAIN s.got : s.stamp[f] = meta'[f] => s.got[f] = meta'[f]
      BY <2>2, <3>1 DEF SectionShape, StampPaths, ReadPaths
    <3> QED
      BY <3>2 DEF TrueStrings
  <2> QED
    BY <2>1, <2>3, <2>4, <2>5 DEF StringsInv, Changes
<1>2. ASSUME NEW p \in Procs, Works(p)
      PROVE  StringsInv'
  <2> DEFINE c == proc[p]
  <2>1. CallShape(c) /\ UNCHANGED <<meta, clock>> /\ proc[p] = c
    BY <1>2, WaysToWork DEF Shape
  <2>2. \A v : TrueStrings(v) => TrueStrings(v)'
    BY <2>1 DEF TrueStrings
  <2>3. ASSUME NEW d, proc' = [proc EXCEPT ![p] = d], UNCHANGED section,
               d.kind = "lstrings" => TrueStrings(d)
        PROVE  StringsInv'
    BY <2>2, <2>3 DEF StringsInv, Shape
  <2>4. \A d : DOMAIN d.got = {} => TrueStrings(d)
    BY DEF TrueStrings
  <2>5. CASE Begins(p) \/ Ends(p)
    BY <2>3, <2>4, <2>5 DEF Begins, Ends, Idle, NoStamp
  <2>6. CASE GoesOn(p)
    <3>1. PICK pc : proc' = [proc EXCEPT ![p] = [c EXCEPT !.pc = pc]] /\ UNCHANGED section
      BY <2>6 DEF GoesOn
    <3>2. c.kind = "lstrings" => TrueStrings([c EXCEPT !.pc = pc])
      BY <2>1 DEF StringsInv, TrueStrings, CallShape, Fields
    <3>3. [c EXCEPT !.pc = pc].kind = c.kind
      BY <2>1 DEF CallShape, Fields
    <3> QED
      BY <2>3, <3>1, <3>2, <3>3
  <2>7. CASE Stamps(p) \/ Lists(p)
    <3>1. c.pc # "read" /\ UNCHANGED section
      BY <2>7 DEF Stamps, Lists
    <3>2. PICK d : proc' = [proc EXCEPT ![p] = d] /\ d.got = c.got
      BY <2>1, <2>7 DEF Stamps, Lists, CallShape, Fields
    <3>3. DOMAIN d.got = {}
      BY <2>1, <3>1, <3>2 DEF CallShape
    <3> QED
      BY <2>3, <2>4, <3>1, <3>2, <3>3
  <2>8. CASE Reads(p)
    <3>1. PICK q \in ReadPaths(c.kind) :
            /\ proc' = [proc EXCEPT ![p] = [c EXCEPT !.got = Extended(c.got, q, meta[q])]]
            /\ UNCHANGED section
      BY <2>8 DEF Reads
    <3> DEFINE got == Extended(c.got, q, meta[q])
    <3>2. /\ DOMAIN got = DOMAIN c.got \cup {q} /\ got[q] = meta[q]
          /\ \A x \in DOMAIN c.got : x # q => got[x] = c.got[x]
      BY DEF Extended
    <3> HIDE DEF got
    <3>3. c.kind = "lstrings" => TrueStrings([c EXCEPT !.got = got])
      BY <2>1, <3>2 DEF StringsInv, TrueStrings, CallShape, Fields
    <3>4. [c EXCEPT !.got = got].kind = c.kind
      BY <2>1 DEF CallShape, Fields
    <3> QED
      BY <2>3, <3>1, <3>3, <3>4 DEF got
  <2>9. CASE Publish(p)
    <3> DEFINE new == [stamp |-> c.stamp, dirs |-> c.dirs, got |-> c.got, late |-> c.late]
    <3>1. /\ section' = [section EXCEPT ![c.kind] = {new}]
          /\ proc' = [proc EXCEPT ![p] = Idle]
      BY <2>9 DEF Publish, Goto
    <3>2. c.kind = "lstrings" => TrueStrings(new)
      BY DEF StringsInv, TrueStrings
    <3>3. \A s \in section'["lstrings"] : TrueStrings(s)'
      BY <2>1, <2>2, <3>1, <3>2 DEF StringsInv, Shape, CallShape, Kinds
    <3>4. TrueStrings(Idle)
      BY <2>4 DEF Idle, NoStamp
    <3> QED
      BY <2>2, <3>1, <3>3, <3>4 DEF StringsInv, Shape
  <2>10. CASE UNCHANGED <<section, proc>>
    BY <2>2, <2>10 DEF StringsInv
  <2> QED
    BY <1>2, <2>5, <2>6, <2>7, <2>8, <2>9, <2>10, WaysToWork
<1>3. CASE UNCHANGED vars
  BY <1>3 DEF vars, StringsInv, TrueStrings
<1> QED
  BY <1>1, <1>2, <1>3, StepsAre

(* A string section that the next open will trust holds what the files     *)
(* hold (strings.rs:268), whoever parsed it and whatever changed meanwhile.*)
THEOREM CurrentStringsAlwaysTrue == Spec => []CurrentStringsAreTrue
<1>1. Init => StringsInv
  BY DEF Init, StringsInv, TrueStrings, Idle, NoStamp, Kinds
<1>2. Shape /\ StringsInv => CurrentStringsAreTrue
  <2> SUFFICES ASSUME Shape, StringsInv, NEW s \in section["lstrings"],
                      s.stamp = SourceStamp(Strings)
               PROVE  s.got = [f \in Strings |-> meta[f]]
    BY DEF CurrentStringsAreTrue
  <2>1. DOMAIN s.got = Strings /\ IsMap(s.got)
    BY DEF Shape, SectionShape, Kinds, ReadPaths
  <2>2. \A f \in Strings : s.got[f] = meta[f]
    BY <2>1 DEF StringsInv, TrueStrings, SourceStamp
  <2> QED
    BY <2>1, <2>2 DEF IsMap
<1> QED
  BY <1>1, <1>2, ShapeAlways, StringsHold, PTL DEF Spec

-----------------------------------------------------------------------------
(* Curves.                                                                 *)

\* The stamp of the root, once it is taken, fits.
RootFits(m, v) == Root \in DOMAIN v.stamp => v.stamp[Root] = m[Root]

\* A file whose directory was stamped exists or not as it did then, as long
\* as the stamp fits; the directory of any other file was not there, unless
\* it is late.
TrueCurves(m, v) ==
    \A f \in DOMAIN v.got :
        IF Home[f] \in DOMAIN v.stamp
        THEN v.stamp[Home[f]] = m[Home[f]] => ((v.got[f] > 0) <=> (m[f] > 0))
        ELSE RootFits(m, v) /\ Home[f] \notin v.late => v.got[f] = 0

\* While the root's stamp fits, what exists was listed, or is late.
AllListed(m, v) ==
    RootFits(m, v) => \A d \in Subs \ v.dirs : m[d] > 0 => d \in v.late

CurvesInv ==
    /\ \A p \in Procs :
         proc[p].kind = "curves" /\ proc[p].pc \in {"stamp", "read"} =>
             AllListed(meta, proc[p]) /\ TrueCurves(meta, proc[p])
    /\ \A s \in section["curves"] : AllListed(meta, s) /\ TrueCurves(meta, s)

\* What the environment does to a view: it may make a directory late in it,
\* and does so when the view overlooks it.
Later(v, w) ==
    /\ w.stamp = v.stamp /\ w.dirs = v.dirs /\ w.got = v.got
    /\ v.late \subseteq w.late
    /\ \A d \in Subs \ v.dirs :
         meta'[d] > 0 /\ ~(meta[d] > 0) /\ Root \notin DOMAIN v.stamp => d \in w.late

LEMMA ViewsAge ==
    ASSUME Shape, Changes, NEW v, NEW w, Later(v, w), AllListed(meta, v), TrueCurves(meta, v),
           DOMAIN v.got \subseteq Curves, Past(v.stamp)
    PROVE  AllListed(meta', w) /\ TrueCurves(meta', w)
<1>1. MetaShape
  BY DEF Shape
<1>2. \A x \in DOMAIN v.stamp \cap Paths :
        v.stamp[x] = meta'[x] => v.stamp[x] = meta[x] /\ meta'[x] # clock + 1
  <2> SUFFICES ASSUME NEW x \in DOMAIN v.stamp, x \in Paths, v.stamp[x] = meta'[x]
               PROVE  v.stamp[x] = meta[x] /\ meta'[x] # clock + 1
    OBVIOUS
  <2>1. v.stamp[x] \in 1 .. clock /\ clock \in Nat
    BY <1>1 DEF Past, MetaShape
  <2> QED
    BY <2>1 DEF Changes
<1>3. ASSUME RootFits(meta', w)
      PROVE  /\ RootFits(meta, v)
             /\ \A d \in Subs \ v.dirs : meta'[d] > 0 => meta[d] > 0 \/ d \in w.late
  <2>1. Root \in DOMAIN v.stamp => v.stamp[Root] = meta'[Root]
    BY <1>3 DEF RootFits, Later
  <2>2. CASE Root \in DOMAIN v.stamp
    BY <1>2, <2>1, <2>2, PlacesAreApart DEF RootFits, Changes, Exists
  <2>3. CASE Root \notin DOMAIN v.stamp
    BY <2>3 DEF RootFits, Later
  <2> QED
    BY <2>2, <2>3
<1>4. ASSUME RootFits(meta', w), NEW d \in Subs \ w.dirs, meta'[d] > 0
      PROVE  d \in w.late
  BY <1>3, <1>4 DEF AllListed, Later
<1>5. ASSUME NEW f \in DOMAIN v.got, Home[f] \in DOMAIN v.stamp,
             v.stamp[Home[f]] = meta'[Home[f]]
      PROVE  (v.got[f] > 0) <=> (meta'[f] > 0)
  <2>1. f \in Curves /\ Home[f] \in Paths
    BY <1>5, PlacesAreApart
  <2>2. v.stamp[Home[f]] = meta[Home[f]] /\ meta'[Home[f]] # clock + 1
    BY <1>2, <1>5, <2>1
  <2>3. meta'[f] > 0 <=> meta[f] > 0
    BY <2>1, <2>2 DEF Changes, Exists
  <2> QED
    BY <1>5, <2>2, <2>3 DEF TrueCurves
<1>6. ASSUME NEW f \in DOMAIN v.got, Home[f] \notin DOMAIN v.stamp,
             RootFits(meta', w), Home[f] \notin w.late
      PROVE  v.got[f] = 0
  BY <1>3, <1>6 DEF TrueCurves, Later
<1>7. AllListed(meta', w)
  BY <1>4 DEF AllListed
<1>8. TrueCurves(meta', w)
  <2>1. w.stamp = v.stamp /\ w.got = v.got
    BY DEF Later
  <2> QED
    BY <1>5, <1>6, <2>1 DEF TrueCurves
<1> QED
  BY <1>7, <1>8

LEMMA CurvesChange ==
    ASSUME Shape, CurvesInv, Environment
    PROVE  CurvesInv'
<1>1. Changes
  BY EnvironmentChanges
<1>2. ASSUME NEW p \in Procs, proc'[p].kind = "curves", proc'[p].pc \in {"stamp", "read"}
      PROVE  AllListed(meta', proc'[p]) /\ TrueCurves(meta', proc'[p])
  <2> DEFINE c == proc[p]
             w == proc'[p]
  <2>1. /\ CallShape(c) /\ c.late \subseteq w.late
        /\ w.pc = c.pc /\ w.kind = c.kind
        /\ w.stamp = c.stamp /\ w.dirs = c.dirs /\ w.got = c.got
    BY <1>1 DEF Shape, Changes, Noted, CallShape, Fields
  <2>2. AllListed(meta, c) /\ TrueCurves(meta, c)
    BY <1>2, <2>1 DEF CurvesInv
  <2>3. \A d \in Subs \ c.dirs :
          meta'[d] > 0 /\ ~(meta[d] > 0) /\ Root \notin DOMAIN c.stamp => d \in w.late
    <3> SUFFICES ASSUME NEW d \in Subs \ c.dirs, meta'[d] > 0, ~(meta[d] > 0),
                        Root \notin DOMAIN c.stamp
                 PROVE  d \in w.late
      OBVIOUS
    <3>1. c.pc = "stamp"
      BY <1>2, <2>1 DEF CallShape, StampPaths, Kinds
    <3>2. Overlooks(c, d)
      BY <1>2, <2>1, <3>1 DEF Overlooks
    <3> QED
      BY <1>1, <3>2 DEF Changes, Exists
  <2>4. DOMAIN c.got \subseteq Curves /\ Past(c.stamp)
    BY <1>2, <2>1 DEF CallShape, ReadPaths
  <2>5. Later(c, w)
    BY <2>1, <2>3 DEF Later
  <2> QED
    BY <1>1, <2>2, <2>4, <2>5, ViewsAge
<1>3. ASSUME NEW s \in section["curves"]
      PROVE  AllListed(meta', s) /\ TrueCurves(meta', s)
  <2>1. SectionShape("curves", s) /\ AllListed(meta, s) /\ TrueCurves(meta, s)
    BY <1>3 DEF Shape, Kinds, CurvesInv
  <2>2. Root \in DOMAIN s.stamp /\ DOMAIN s.got \subseteq Curves /\ Past(s.stamp)
    BY <2>1 DEF SectionShape, StampPaths, ReadPaths
  <2>3. Later(s, s)
    BY <2>2 DEF Later
  <2> QED
    BY <1>1, <2>1, <2>2, <2>3, ViewsAge
<1> QED
  BY <1>1, <1>2, <1>3 DEF CurvesInv, Changes

LEMMA CurvesWork ==
    ASSUME Shape, CurvesInv, NEW p \in Procs, Works(p)
    PROVE  CurvesInv'
<1> DEFINE c == proc[p]
<1>1. CallShape(c) /\ MetaShape /\ UNCHANGED <<meta, clock>>
  BY WaysToWork DEF Shape
<1>2. ASSUME NEW d, proc' = [proc EXCEPT ![p] = d], UNCHANGED section,
             d.kind = "curves" /\ d.pc \in {"stamp", "read"} => AllListed(meta, d) /\ TrueCurves(meta, d)
      PROVE  CurvesInv'
  BY <1>1, <1>2 DEF CurvesInv, Shape
<1>3. \A d : DOMAIN d.got = {} => TrueCurves(meta, d)
  BY DEF TrueCurves
<1>4. CASE Begins(p)
  <2>1. PICK k \in Kinds :
          /\ UNCHANGED section
          /\ proc' = [proc EXCEPT ![p] = [Idle EXCEPT
                        !.pc = IF k = "lstrings" THEN "stamp" ELSE "map", !.kind = k]]
    BY <1>4 DEF Begins
  <2> DEFINE d == [Idle EXCEPT !.pc = IF k = "lstrings" THEN "stamp" ELSE "map", !.kind = k]
  <2>2. ~(d.kind = "curves" /\ d.pc \in {"stamp", "read"})
    BY DEF Idle, Kinds
  <2> HIDE DEF d
  <2> QED
    BY <1>2, <2>1, <2>2 DEF d
<1>5. CASE Ends(p)
  BY <1>2, <1>5 DEF Ends, Idle
<1>6. CASE GoesOn(p)
  <2>1. PICK pc \in {"map", "read", "list"} :
          /\ proc' = [proc EXCEPT ![p] = [c EXCEPT !.pc = pc]] /\ UNCHANGED section
          /\ c.kind = "curves" /\ pc = "read" => c.pc = "stamp"
    BY <1>6 DEF GoesOn
  <2> DEFINE d == [c EXCEPT !.pc = pc]
  <2>2. /\ d.kind = c.kind /\ d.pc = pc /\ d.dirs = c.dirs /\ d.got = c.got /\ d.stamp = c.stamp
        /\ d.late = c.late
    BY <1>1 DEF CallShape, Fields
  <2> HIDE DEF d
  <2>3. d.kind = "curves" /\ d.pc \in {"stamp", "read"} => AllListed(meta, d) /\ TrueCurves(meta, d)
    BY <2>1, <2>2 DEF CurvesInv, TrueCurves, AllListed, RootFits
  <2> QED
    BY <1>2, <2>1, <2>3 DEF d
<1>7. CASE Stamps(p)
  <2>1. PICK q :
          /\ proc' = [proc EXCEPT ![p] = [c EXCEPT !.stamp = Extended(c.stamp, q, meta[q])]]
          /\ UNCHANGED section /\ c.pc = "stamp" /\ q \notin DOMAIN c.stamp
    BY <1>7 DEF Stamps
  <2> DEFINE stamp == Extended(c.stamp, q, meta[q])
             d == [c EXCEPT !.stamp = stamp]
  <2>2. /\ DOMAIN stamp = DOMAIN c.stamp \cup {q}
        /\ \A x \in DOMAIN c.stamp : stamp[x] = c.stamp[x]
    BY <2>1 DEF Extended
  <2> HIDE DEF stamp
  <2>3. /\ d.kind = c.kind /\ d.pc = c.pc /\ d.dirs = c.dirs /\ d.got = c.got
        /\ d.stamp = stamp /\ d.late = c.late
    BY <1>1 DEF CallShape, Fields
  <2> HIDE DEF d
  <2>4. DOMAIN d.got = {}
    BY <1>1, <2>1, <2>3 DEF CallShape
  <2>5. RootFits(meta, d) => RootFits(meta, c)
    BY <2>2, <2>3 DEF RootFits
  <2>6. d.kind = "curves" => AllListed(meta, d)
    BY <2>1, <2>3, <2>5 DEF CurvesInv, AllListed
  <2> QED
    BY <1>2, <1>3, <2>1, <2>4, <2>6 DEF d, stamp
<1>8. CASE Lists(p)
  <2> DEFINE dirs == {d \in Subs : Exists(d)}
             d == [c EXCEPT !.pc = "stamp", !.dirs = dirs]
  <2>1. proc' = [proc EXCEPT ![p] = d] /\ UNCHANGED section /\ c.pc = "list"
    BY <1>8 DEF Lists
  <2>2. d.dirs = dirs /\ d.got = c.got
    BY <1>1 DEF CallShape, Fields
  <2>3. AllListed(meta, d)
    BY <2>2 DEF AllListed, Exists
  <2> HIDE DEF d, dirs
  <2>4. DOMAIN d.got = {}
    BY <1>1, <2>1, <2>2 DEF CallShape
  <2> QED
    BY <1>2, <1>3, <2>1, <2>2, <2>3, <2>4
<1>9. CASE Reads(p)
  <2>1. PICK q \in ReadPaths(c.kind) :
          /\ proc' = [proc EXCEPT ![p] = [c EXCEPT !.got = Extended(c.got, q, meta[q])]]
          /\ UNCHANGED section /\ c.pc = "read"
    BY <1>9 DEF Reads
  <2> DEFINE got == Extended(c.got, q, meta[q])
             d == [c EXCEPT !.got = got]
  <2>2. /\ DOMAIN got = DOMAIN c.got \cup {q} /\ got[q] = meta[q]
        /\ \A x \in DOMAIN c.got : x # q => got[x] = c.got[x]
    BY DEF Extended
  <2> HIDE DEF got
  <2>3. /\ d.kind = c.kind /\ d.stamp = c.stamp /\ d.dirs = c.dirs /\ d.got = got
        /\ d.late = c.late
    BY <1>1 DEF CallShape, Fields
  <2> HIDE DEF d
  <2>4. ASSUME c.kind = "curves"
        PROVE  AllListed(meta, d) /\ TrueCurves(meta, d)
    <3>1. /\ AllListed(meta, c) /\ TrueCurves(meta, c) /\ q \in Curves
          /\ DOMAIN c.stamp = {Root} \cup c.dirs
      BY <1>1, <2>1, <2>4 DEF CurvesInv, CallShape, StampPaths, ReadPaths
    <3>2. RootFits(meta, c) <=> RootFits(meta, d)
      BY <2>3 DEF RootFits
    <3>3. RootFits(meta, c) /\ Home[q] \notin DOMAIN c.stamp /\ Home[q] \notin c.late => meta[q] = 0
      BY <1>1, <3>1, PlacesAreApart DEF AllListed, MetaShape, Exists, Dirs
    <3>4. AllListed(meta, d)
      BY <2>3, <3>1, <3>2 DEF AllListed
    <3> QED
      BY <2>2, <2>3, <3>1, <3>2, <3>3, <3>4 DEF TrueCurves, Exists
  <2> QED
    BY <1>2, <2>1, <2>3, <2>4 DEF d, got
<1>10. CASE Publish(p)
  <2> DEFINE new == [stamp |-> c.stamp, dirs |-> c.dirs, got |-> c.got, late |-> c.late]
  <2>1. /\ section' = [section EXCEPT ![c.kind] = {new}] /\ c.pc = "read"
        /\ proc' = [proc EXCEPT ![p] = Idle]
    BY <1>10 DEF Publish, Goto
  <2>2. c.kind = "curves" => TrueCurves(meta, new) /\ AllListed(meta, new)
    BY <2>1 DEF CurvesInv, TrueCurves, AllListed, RootFits
  <2>3. \A s \in section'["curves"] : TrueCurves(meta, s) /\ AllListed(meta, s)
    BY <1>1, <2>1, <2>2 DEF CurvesInv, Shape, CallShape, Kinds
  <2>4. \A r \in Procs : proc'[r] = proc[r] \/ proc'[r].pc = "idle"
    BY <2>1 DEF Shape, Idle
  <2> QED
    BY <1>1, <2>3, <2>4 DEF CurvesInv
<1>11. CASE UNCHANGED <<section, proc>>
  BY <1>1, <1>11 DEF CurvesInv
<1> QED
  BY <1>4, <1>5, <1>6, <1>7, <1>8, <1>9, <1>10, <1>11, WaysToWork

(* A curves section that the next open will trust knows every curve file   *)
(* that exists and none that does not (curves.rs:279), whatever comes and  *)
(* goes, except for the files of a directory that was made between the     *)
(* listing and the stamp of the root.                                      *)
THEOREM AddedIsAlwaysSeen == Spec => []AddedIsSeen
<1>1. Init => CurvesInv
  BY DEF Init, CurvesInv, Idle, Kinds
<1>2. Shape /\ CurvesInv /\ [Next]_vars => CurvesInv'
  <2>1. CurvesInv /\ UNCHANGED vars => CurvesInv'
    BY DEF CurvesInv, vars, TrueCurves, AllListed, RootFits, Exists
  <2> QED
    BY <2>1, CurvesChange, CurvesWork, StepsAre
<1>3. Shape /\ CurvesInv => AddedIsSeen
  <2> SUFFICES ASSUME Shape, CurvesInv, NEW s \in section["curves"],
                      IsCurrent(s, "curves", NoStamp), NEW f \in Curves,
                      Home[f] \notin s.late
               PROVE  (s.got[f] > 0) <=> Exists(f)
    BY DEF AddedIsSeen, Knows
  <2>1. SectionShape("curves", s) /\ MetaShape /\ TrueCurves(meta, s) /\ AllListed(meta, s)
    BY DEF Shape, Kinds, CurvesInv
  <2>2. /\ DOMAIN s.stamp = {Root} \cup s.dirs
        /\ \A x \in DOMAIN s.stamp : s.stamp[x] = meta[x]
    BY <2>1 DEF IsCurrent, SectionShape, StampPaths, SourceStamp
  <2>3. f \in DOMAIN s.got
    BY <2>1 DEF SectionShape, ReadPaths
  <2>4. CASE Home[f] \in DOMAIN s.stamp
    BY <2>1, <2>2, <2>3, <2>4 DEF TrueCurves, Exists
  <2>5. CASE Home[f] \notin DOMAIN s.stamp
    <3>1. RootFits(meta, s)
      BY <2>2 DEF RootFits
    <3>2. ~Exists(Home[f]) /\ s.got[f] = 0
      BY <2>1, <2>2, <2>3, <2>5, <3>1, PlacesAreApart DEF AllListed, TrueCurves, Dirs, Exists
    <3> QED
      BY <2>1, <3>2 DEF MetaShape
  <2> QED
    BY <2>4, <2>5
<1> QED
  BY <1>1, <1>2, <1>3, ShapeAlways, PTL DEF Spec

=============================================================================
