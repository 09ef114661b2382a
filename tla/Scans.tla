-------------------------------- MODULE Scans --------------------------------
(***************************************************************************)
(* The scan of a plugin file (Index::build and the lazy sections after it) *)
(* over the walk and the tables of PluginFile, and what a client sees who  *)
(* browses its groups.                                                     *)
(***************************************************************************)
EXTENDS Requests, PluginFile

ScanOf(file) ==
  LET forms == FormsOf(file)
  IN  [tree |-> TreeOf(file), forms |-> forms, names |-> EdidSection(file, forms),
       xref |-> XrefSection(file, forms, {})]

\* build_tree_and_forms and the two lazy sections after it; a walk that a group
\* ended fails the scan.
Scan ==
  /\ request.op = "scan"
  /\ IF ScanFails(request.file) THEN Refuse("scan") ELSE Run("scan", ScanOf(request.file))

\* The groups whose extent holds a position, and the smallest of them.
Holding(tree, pos) ==
  {g \in DOMAIN tree.groups : tree.groups[g].start < pos /\ pos < tree.groups[g].end}
Innermost(tree, pos) ==
  LET around == Holding(tree, pos)
  IN  IF around = {} THEN 0
      ELSE CHOOSE g \in around : \A h \in around : tree.groups[h].start <= tree.groups[g].start

\* Everything a client sees of a group who asks for the next page from where
\* it is, as the viewer does (recordLoad.ts), and the rows there are.
Paged(file, tree, g, size) ==
  LET start == tree.groups[g].start
      asks == Len(tree.groups[g].children)
      shown[n \in 0..asks] ==
        IF n = 0 THEN <<>>
        ELSE shown[n - 1] \o ListGroupChildren(file, tree, start, Len(shown[n - 1]), size)
  IN  shown[asks]
Rows(file, tree, g) ==
  LET all == tree.groups[g].children IN [i \in DOMAIN all |-> RowOf(file, tree, all[i])]

\* How often a list holds x.
Held(listed, x) == Cardinality({i \in DOMAIN listed : listed[i] = x})

OnceIf(condition) == IF condition THEN 1 ELSE 0

TreeAgrees(file, tree) ==
  LET groups == tree.groups
      entered == {event \in ToSet(WalkStructure(file)) : event.kind = "start"}
  IN  /\ {<<groups[g].start, groups[g].end>> : g \in DOMAIN groups} = {<<e.offset, e.end>> : e \in entered}
      /\ \A g, h \in DOMAIN groups : g < h => groups[g].start < groups[h].start
      /\ \A g \in DOMAIN groups :
           /\ groups[g].parent = Innermost(tree, groups[g].start)
           /\ Held(tree.roots, g) = OnceIf(groups[g].parent = 0)
           /\ \A h \in DOMAIN groups :
                Held(groups[h].children, GroupRef(g)) = OnceIf(h = groups[g].parent)
           /\ \A pos \in ToSet(WalkRecords(file)) :
                Held(groups[g].children, RecordRef(pos)) = OnceIf(g = Innermost(tree, pos))
           /\ \A size \in 1..Len(groups[g].children) : Paged(file, tree, g, size) = Rows(file, tree, g)

\* Whoever browses a scanned file meets every group and every record once,
\* under the smallest group that contains it and whatever the page size (the
\* stack of tree.rs and the paging of the viewer's tree).
BrowsedOnce == Answered("scan") => TreeAgrees(request.file, Out.tree)

\* The records of a FormID, the last of them, and how often a form lists r.
RecordsOf(file, id) == {pos \in ToSet(WalkRecords(file)) : file[pos].id = id}
Standing(file, id) == file[Max(RecordsOf(file, id))]
Times(index, r, id) == Held(Referencers(index.xref, index.forms, id), r)

IndexAgrees(file, index) ==
  LET ids == {file[pos].id : pos \in ToSet(WalkRecords(file))}
  IN  /\ DOMAIN index.forms = ids
      /\ \A id, r \in ids : Cardinality(RecordsOf(file, r)) = 1 =>
           Times(index, r, id) = OnceIf(r # id /\ id \in ToSet(Standing(file, r).refs))
      /\ DOMAIN index.names = {Standing(file, id).edid : id \in ids} \ {None}
      /\ \A edid \in DOMAIN index.names :
           index.names[edid] = Max({id \in ids : Standing(file, id).edid = edid})

\* The record table, the editor names and the reverse references agree with
\* the file: r is listed once among the referencers of a form exactly when the
\* only record of r names it, and a name leads to the highest form that has it
\* (index.rs builds the three from different passes).
IndexIsExact == Answered("scan") => IndexAgrees(request.file, Out)
=============================================================================
