----------------------------- MODULE PluginFile -----------------------------
(***************************************************************************)
(* The plugin file and what one scan of it builds: reader.rs walks the     *)
(* nested groups, tree.rs turns the walk into the arena of groups that the *)
(* viewer browses, index.rs turns the same walk into the record table and  *)
(* its lazy companions (types, editor names, reverse references).          *)
(*                                                                         *)
(* A file is a sequence of cells.  A header takes one cell, and so does    *)
(* each unit of a record's data; a cell is described by the header it      *)
(* would be read as:                                                       *)
(*   [sig |-> Grup, size, type, label]   size counts the header            *)
(*   [sig, size, id, edid, refs]         size counts the data              *)
(* The first cell is the TES4 header.  A group size is at least 1: every   *)
(* writer counts the header in it.                                         *)
(***************************************************************************)
EXTENDS Orders

None == "none"
Grup == "GRUP"

\* The position after the TES4 record, where the first group starts.
BodyStart(file) == 2 + file[1].size

RecordEnd(file, pos) == pos + 1 + file[pos].size

-----------------------------------------------------------------------------
(* The walk *)

Bail == [kind |-> "bail"]

IsGroup(file, pos) == file[pos].sig = Grup

\* What a header takes with all it counts.
CellEnd(file, pos) == IF IsGroup(file, pos) THEN pos + file[pos].size ELSE RecordEnd(file, pos)

\* The events from a position to the end of its container, given those further
\* on.  A record that runs past its container ends the container quietly; a
\* group that does ends the whole walk in an error.
Descent(file, further, pos, end) ==
  LET after == CellEnd(file, pos)
  IN  IF pos >= end THEN <<>>
      ELSE IF after > end THEN IF IsGroup(file, pos) THEN <<Bail>> ELSE <<>>
      ELSE IF IsGroup(file, pos)
      THEN <<[kind |-> "start", offset |-> pos, end |-> after]>> \o further[pos + 1][after]
             \o <<[kind |-> "end", offset |-> pos]>> \o further[after][end]
      ELSE <<[kind |-> "record", offset |-> pos]>> \o further[after][end]

WalkStructure(file) ==
  LET stop == Len(file) + 1
      events[pos \in 1..stop] == [end \in 1..stop |-> Descent(file, events, pos, end)]
  IN  IF BodyStart(file) >= stop THEN <<>> ELSE events[BodyStart(file)][stop]

WalkRecords(file) ==
  LET walk == WalkStructure(file)
      records == Picked(walk, {i \in DOMAIN walk : walk[i].kind = "record"})
  IN  [i \in DOMAIN records |-> records[i].offset]

\* parse_record_at: the header and the data at an offset, or None past the end.
ParseRecordAt(file, pos) ==
  IF pos \in DOMAIN file /\ RecordEnd(file, pos) <= Len(file) + 1 THEN file[pos] ELSE None

\* record_stub_at: the header alone, with the editor name of a record that has
\* data.
RecordStubAt(file, pos) ==
  IF pos \notin DOMAIN file THEN None
  ELSE [id |-> file[pos].id, sig |-> file[pos].sig, offset |-> pos,
        edid |-> IF file[pos].size > 0 THEN file[pos].edid ELSE None]

\* A walk that a group ended fails, and the scan with it.
ScanFails(file) == Bail \in ToSet(WalkStructure(file))

-----------------------------------------------------------------------------
(* The arena of groups *)

\* What a map holds after an insertion: a key it has gets the new value.
Insert(map, key, value) == [k \in DOMAIN map \union {key} |-> IF k = key THEN value ELSE map[k]]

EmptyTree == [groups |-> <<>>, roots |-> <<>>, stack |-> <<>>, offsets |-> <<>>]

GroupRef(idx) == [ref |-> "group", at |-> idx]
RecordRef(pos) == [ref |-> "record", at |-> pos]

\* One more child of the innermost open group, if there is one.
Adopt(tree, child) ==
  IF tree.stack = <<>> THEN tree.groups
  ELSE [tree.groups EXCEPT ![Last(tree.stack)].children = Append(@, child)]

Entered(tree, event) ==
  LET idx == Len(tree.groups) + 1
      entry == [start |-> event.offset, end |-> event.end, depth |-> Len(tree.stack),
                parent |-> IF tree.stack = <<>> THEN 0 ELSE Last(tree.stack), children |-> <<>>]
  IN  [groups |-> Append(Adopt(tree, GroupRef(idx)), entry),
       roots |-> IF tree.stack = <<>> THEN Append(tree.roots, idx) ELSE tree.roots,
       stack |-> Append(tree.stack, idx),
       offsets |-> Insert(tree.offsets, event.offset, idx)]

Met(tree, event) == [tree EXCEPT !.groups = Adopt(tree, RecordRef(event.offset))]

(* Mutant: an end event leaves the group open. *)
PushEvent_LeavesOpen(tree, event) ==
  IF event.kind = "start" THEN Entered(tree, event)
  ELSE IF event.kind = "record" THEN Met(tree, event)
  ELSE tree

PushEvent(tree, event) ==
  IF event.kind = "start" THEN Entered(tree, event)
  ELSE IF event.kind = "record" THEN Met(tree, event)
  ELSE [tree EXCEPT !.stack = Front(@)]

TreeOf(file) ==
  LET walk == WalkStructure(file)
      tree[n \in 0..Len(walk)] == IF n = 0 THEN EmptyTree ELSE PushEvent(tree[n - 1], walk[n])
  IN  tree[Len(walk)]

\* TreeView::children: a page of a group's children, clamped on both sides.
Children(tree, idx, offset, limit) ==
  LET all == tree.groups[idx].children
      clamp(n) == IF n < Len(all) THEN n ELSE Len(all)
  IN  SubSeq(all, clamp(offset) + 1, clamp(offset + limit))

GroupAt(tree, pos) == IF pos \in DOMAIN tree.offsets THEN tree.offsets[pos] ELSE 0

FindRootByType(file, tree, sig) ==
  LET named(idx) == /\ file[tree.groups[idx].start].type = 0
                    /\ file[tree.groups[idx].start].label = sig
      hits == SelectSeq(tree.roots, named)
  IN  IF hits = <<>> THEN 0 ELSE Head(hits)

\* The tree operations.  A row is a group of the arena or a record's header.
RowOf(file, tree, child) ==
  IF child.ref = "group" THEN tree.groups[child.at] ELSE RecordStubAt(file, child.at)

GroupChildrenAt(file, tree, idx, offset, limit) ==
  LET page == Children(tree, idx, offset, limit)
  IN  [i \in DOMAIN page |-> RowOf(file, tree, page[i])]

ListGroups(tree) == [i \in DOMAIN tree.roots |-> tree.groups[tree.roots[i]]]

ListTypeChildren(file, tree, sig, offset, limit) ==
  LET idx == FindRootByType(file, tree, sig)
  IN  IF idx = 0 THEN <<>> ELSE GroupChildrenAt(file, tree, idx, offset, limit)

ListGroupChildren(file, tree, pos, offset, limit) ==
  LET idx == GroupAt(tree, pos)
  IN  IF idx = 0 THEN <<>> ELSE GroupChildrenAt(file, tree, idx, offset, limit)

-----------------------------------------------------------------------------
(* The record table and what is derived from it *)

\* A later record of the same FormID replaces the earlier one.
FormsOf(file) ==
  LET walked == WalkRecords(file)
      forms[n \in 0..Len(walked)] ==
        IF n = 0 THEN <<>> ELSE Insert(forms[n - 1], file[walked[n]].id, walked[n])
  IN  forms[Len(walked)]

FormIds(forms) == Rising(DOMAIN forms)

TypeIndex(file, forms, sig) ==
  LET ofType(id) == file[forms[id]].sig = sig IN SelectSeq(FormIds(forms), ofType)

\* The offsets of the records of one type, in FormID order.
RecordsByType(file, forms, sig) ==
  LET ids == TypeIndex(file, forms, sig) IN [i \in DOMAIN ids |-> forms[ids[i]]]

\* Editor names in FormID order: of two records of one name the higher wins.
EdidSection(file, forms) ==
  LET ids == FormIds(forms)
      named(names, id) ==
        LET edid == file[forms[id]].edid IN IF edid = None THEN names ELSE Insert(names, edid, id)
      names[n \in 0..Len(ids)] == IF n = 0 THEN <<>> ELSE named(names[n - 1], ids[n])
  IN  names[Len(ids)]

Listed(xref, id) == IF id \in DOMAIN xref THEN xref[id] ELSE <<>>

(* Mutant: a form named twice is pushed twice. *)
XrefSection_Repeats(file, forms, hardcoded) ==
  LET walked == WalkRecords(file)
      named(pos, id) ==
        {i \in DOMAIN file[pos].refs : file[pos].refs[i] = id /\ id # file[pos].id /\ id \in DOMAIN forms}
      pushed(xref, pos) ==
        [id \in DOMAIN xref \union ToSet(file[pos].refs) |->
           Listed(xref, id) \o [i \in 1..Cardinality(named(pos, id)) |-> file[pos].id]]
      xref[n \in 0..Len(walked)] == IF n = 0 THEN <<>> ELSE pushed(xref[n - 1], walked[n])
  IN  xref[Len(walked)]

\* The forms a record names, other than itself, that exist.
Targets(file, forms, hardcoded, pos) ==
  {id \in ToSet(file[pos].refs) : id # file[pos].id /\ id \in DOMAIN forms \union hardcoded}

\* Each record adds itself once to every form it names.
XrefSection(file, forms, hardcoded) ==
  LET walked == WalkRecords(file)
      pushed(xref, pos) ==
        LET named == Targets(file, forms, hardcoded, pos)
        IN  [id \in DOMAIN xref \union named |->
               Listed(xref, id) \o (IF id \in named THEN <<file[pos].id>> ELSE <<>>)]
      xref[n \in 0..Len(walked)] == IF n = 0 THEN <<>> ELSE pushed(xref[n - 1], walked[n])
  IN  xref[Len(walked)]

Referencers(xref, forms, id) ==
  LET listed == Listed(xref, id) IN Picked(listed, {i \in DOMAIN listed : listed[i] \in DOMAIN forms})
=============================================================================
