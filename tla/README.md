# FO76-Tools: specifications, model checking and proofs

FO76-Tools reads the data file of a game (an ESM, about 700 MB) and answers
questions about its records: on a command line (`esm`), in an Electron viewer
(`esm-viewer`), and in a pipeline that writes patch notes (`patch-notes`).  What is
slow to compute is kept in a cache on disk that all these programs share, and each
program keeps databases open while the files under them are replaced.  These
specifications are about that: many processes and threads, one directory, one lock,
files that change, and answers that come late.  They are also about what is asked: the
operations that scan, decode, search, compare and follow records, each checked against an
independent definition of its answer.

* [Inventory](#inventory): the parts of the system and how they interact
* [Modules](#modules): what models what, and how state and actions correspond to code
* [Runs](#runs): what is model-checked, with which bounds
* [Proofs](#proofs): what holds for every value of the constants, and why
* [Where code and comments disagree](#where-code-and-comments-disagree)
* [What is left out](#what-is-left-out) and [Plan](#plan)

## Inventory

| part | state it keeps | operations | talks to |
|---|---|---|---|
| build lease (`esm/src/progress.rs`) | lock file `<esm>.build.lock`, heartbeat `<esm>.build.json` | acquire, recheck, tick, writing, drop; read; clear_cache | every process that builds, waits, watches or clears, through the OS's advisory lock and the two files |
| section files (`rkyvcache.rs`) | five files per ESM in `esm_cache/`, each with header, stamp and payload | write_section, map, write_and_remap, map_or_build | builders write, everybody maps; `Section` keeps a mapping and a per-process `build_lock` |
| index (`index.rs`, `database.rs`) | mapped ESM, mapped sections | open (tree and forms), ensure_{edid,search,xref}_index | the two above |
| CLI cache commands (`bin/cli/cache.rs`) | the build delegate | detached `esm cache build --section`, status, clear | spawns a process and waits for it |
| host (`host.rs`) | canonical path -> FileSig and `Arc<Database>` under a mutex | open, run, close | threads of a Node process or of `esm batch`; the file system |
| napi binding (`bindings/napi`) | an `Arc<Host>` | open, run, close on a pool of threads | viewer main process |
| viewer main process (`main/handlers.ts`, `db-registry.ts`) | ids, opens in flight, deferred closes | IPC handlers open, close, list, run, diff | the renderer over IPC, the host through the binding |
| viewer renderer (`store.ts`, `OpenFilesPanel.tsx`) | open files, shown record and columns, history, pending navigation, sequence numbers | navigate, select, back, forward, open, close; Referenced By, raw dump | main process, by promises that settle in any order |
| string tables, curves (`strings.rs`, `curves.rs`) | their sections, stamped with their sources | load, read | archives and loose files, through section files |
| reader, tree, index tables (`reader.rs`, `tree.rs`, `index.rs`) | none but what a scan builds: groups, forms, types, names, references | walk_structure, record access, pages of the tree | sections, every operation |
| decoding (`decode/`) | a cursor over the subrecords of one record | record, bulk, gaps | every operation that reads fields |
| selectors and queries (`ops/sel.rs`, `formid.rs`, `wildcard.rs`, `filter.rs`) | none | record, record_bulk, search, list, filter, field paths | host, CLI, viewer |
| references, chases, walks (`refs/`, `chase.rs`, `walk/`) | queue and visited set of one call | referenced_by, ref_path, chase, walk | index, decoding |
| leveled lists, curves (`lvli.rs`, `walk/level_curves.rs`) | none | drop_table, the curves in a walk | decoding, string tables and curves |
| diff (`diff/`) | what is calibrated over all records of one call | diff | two databases |
| ba2 | none between calls | create, extract, read | files, strings and curves |
| patch-notes gateway and workflow (`pn/esmcli.py`, `pn/workflow.py`, `pn/make_patch_notes.py`) | a child `esm batch`, files of finished steps | request, retry; prepare, merge-assessment, publish | `esm batch` over pipes, an assessor who edits files |
| patch-notes bundles and lints | none | transformations of a diff | workflow |
| schema extractor, repo-policy | none at run time | offline tools | |

What makes these hard:

* **one lock, many users.** The lock that says "a build runs" is also what readers
  take to find that out and what a clear takes to keep builds away.  Processes are
  killed by their callers' timeouts at any point.  Correct means: one builder at a
  time, no build twice, nothing deleted under a builder, heartbeats that tell the
  truth, and everybody served in the end.
* **stamps instead of content.** A section is trusted because of the size and mtime
  that were read at some moment before the work that produced it.  Correct means: what
  carries a stamp was derived from the file with that stamp, and a database never
  mixes sections of two versions.
* **crashes in the middle of a write.** Correct means: whole or absent, also after
  power loss, and a mapped file is never modified.
* **a map read, unlocked and written again.** `Host::resolve` gives up its mutex while
  it opens a database for minutes.  Correct means: never from newer to older, a close is
  final, and what is returned is not stale.
* **results stamped before they are read.** String tables and curves come from other files, which are
  listed, stamped and read one after the other while they change.  Correct means: what the next open trusts is true.
* **work resumed from files.** A patch-notes verb is killed anywhere; the next decides from what lies in the
  directory.  Correct means: what it reuses is of the snapshot at hand, and no verdict is lost.
* **cursors, visited sets, bounds.** The operations are sequential, but fold one stream into several tables, bind
  subrecords from a moving cursor, walk cyclic graphs to a limit, align arrays and merge odds.  Correct means: everything
  is told, once, and nothing else is.
* **late answers.** The viewer's handlers and its store await with requests in flight.
  Correct means: an id always names an open database, the host is not left with
  databases nobody can close, the last choice of the user wins, the history names
  what is shown.

`PROJECT.json` lists each of these hazards at its line with the properties that would
catch it going wrong.

## Modules

```
SectionStore <---- refines ---- BuildCache ---- its step Write ----> SectionFile
                                    |    |                               |
                              BuildCache_proofs                  SectionFile_proofs
                                         |
                                   SourceSections (sections from other files)
                                         |
                                   SourceSections_proofs

     Host ............. "is the file open?" ............. Viewer .... ids .... Navigation
      |                                                     |                  |
  Host_proofs                                         Viewer_proofs    Navigation_proofs

     Workflow ---- extends ----> Gateway
        |
     Workflow_proofs

     Operations: the registry of operations, over one module per subsystem
        Searches -> Wildcard -> Orders  ops/records.rs, wildcard.rs, the search of database.rs
        Scans -> PluginFile -> Orders   index.rs; reader.rs, tree.rs, index.rs, listings of database.rs
        Connections -> References -> Orders     ops/refs.rs, refs/
             Searches, Scans, Connections -> Requests (a request and its response)
                    |
             Requests_proofs
        Binding -> Payload    decode/
        Selector              formid.rs, hardcoded.rs, ops/sel.rs, ops/records.rs
        Query                 filter.rs, filters and field paths of database.rs
        Walk -> Chase -> References     walk/mod.rs, chase.rs, refs/
             -> LevelCurves, DropTable -> Fractions     level_curves.rs, curves.rs, lvli.rs
        RecordDiff -> JsonDiff          diff/
        Archive               ba2/, esm/src/ba2.rs
```

The arrows are how the models relate; `BuildCache` instantiates `SectionStore`, `Workflow` runs its mechanical stage over
`Gateway`'s child, `Operations` instantiates the modules below it.  `MC*` modules add the values and symmetry TLC needs.

### `BuildCache`: processes around one cache

One ESM, and processes in four roles: clients (open a database, ask for lazy sections,
close), builders (the detached `esm cache build`), observers (`progress::read`),
clearers (`clear_cache`).  A generation number stands for the content of an ESM and
for its `CacheSig`, since a stamp is size and mtime; a section is a pair of the stamp it
carries and the set of generations its payload was derived from, so that a wrong stamp
is visible.

| variable | code |
|---|---|
| `esm`, `file` | the ESM on disk; the five section files |
| `lockFile`, `holder`, `hb` | `<esm>.build.lock`, the process that has the lock, `<esm>.build.json` |
| `pc` | where in `Index::build`, `map_or_build` or `BuildLease` a process is |
| `mm`, `view` | `Database.mmap`, the `Section`s it has mapped |
| `sig`, `job`, `todo` | the `CacheSig` of the call, its sections, those not handled yet |
| `child`, `goal` | the delegate's child, its `--section` |

A worker goes `open -> stat -> probe`, and when a section is missing, with a delegate,
`spawn -> wait -> redo` and then, or without one, `lock -> publish -> recheck -> build ->
write -> remap -> drop -> unlock`.  The atomic steps are the system calls other
processes can see: a stat, one map of a section, the lock, a heartbeat, a rename, an
unlink.  `build_tree_and_forms` (two sections) and `map_or_build` (one) follow the same
protocol and are one set of actions over a job.  `Crash` kills a client or a builder at any step: the lock
is released by the OS, the heartbeat stays, children live on.  `Fail`, `BuildFails`, `PublishFails`
and `ClearFails` are the error returns.

The ESM may be replaced at any moment (`SwapEsm`), also while a process has the old one mapped or is between its stat, its
build and its write.  `torn` is a history variable: `Stat` adds to it the generation whose stamp it takes over an
older mapping, and no action reads it.  With it the properties say what holds in every behaviour of the code
instead of excluding the replacement.

### `SectionStore`: what the cache promises

Sections without processes: absent, or with the stamp of an ESM that is or was on disk and the content of
that ESM, which stays as long as the stamp does; taken away only by a clear.  The exception are `torn` generations: a process
that still has an older ESM mapped took the new one's stamp (`Tear`), and under that stamp a section may hold older
content.  `BuildCache!StoreSpec` is the refinement.

### `SectionFile`: one file, written and mapped

`write_section_raw` call by call (temp file with a placeholder header, payload,
`sync_data`, header, `sync_all`, rename), `map_raw` with its checks, removals, kills and a
power loss that loses any part of what was not synced and may undo renames.  Any number of writers
at once, with no lock: the file protocol has to stand on its own.  The file system is
external: `Commit`, `PowerLoss` and `Remains` say what it may do.

### `Host`: databases of one process

`Host::resolve` in its steps between two acquisitions of the mutex: `FindKey`, `Look`,
`Compare`, `ReadSig`, `Load`, `Install`, and `Remove` for close.  A call names a file by its key or by another path;
the file is updated and deleted between any two steps.  `start` and `alone` record, for the properties,
the generation when a call began and whether another call overlapped it.

### `Viewer`: the main process

A turn of the event loop is one action.  An open is `OpenCall` (up to the await), the
steps of the host on a pool thread, and `OpenDone` or `OpenFailed` (registry and `finally`); a close is
one action.  Of the host it keeps what a close can race with: whether the file is open.
A file opened for a call whose `file_info` then fails is recorded in `orphans`.

### `Navigation`: the renderer

`store.ts` and the two handlers of `OpenFilesPanel`.  `loadSeq` is abstracted to the load
that holds its last value, `navPending` to the load it was made for, so numbers need no
bound.  `Answer` is what runs from the settled promise to the end of
`onShown` and `settle`, `Reject` the failure of a load.  `Closes` and `FileClosed` are the two ends of `handleClose`.
`FileClosed` prunes the history, moves the cursor and may start a reload.  The main process is
what IPC shows of it: requests are answered in order, `listOpen` may already lack a
file whose `fileClosed` has not run, or have one whose `selectFile` has not.

### `SourceSections`: sections that come from other files

`strings.rs` stamps its files one by one and then parses them; `curves.rs` lists its directories, stamps the ones it found and reads
the listed files.  Each stat, each listing and each read is a step; between any two a file is rewritten, added or removed,
a directory made or removed.  `meta` is what the file system holds, `section` the published sections, each with its
stamp and what was got.  The lease of `BuildCache` is one variable here and a publication one step.  `late` is a history: the
directories that were made when a call had listed the root and not stamped it yet.

### `Gateway` and `Workflow`: the patch notes

`Gateway` is `EsmGateway` and the `esm batch` child it owns: requests and answers in order over a pair of pipes, a child that
may die with any of them under way, a stage that skips a failed request and asks the next one.
`Workflow` is the verbs of `workflow.py` and the mechanical stage as sequences of steps over the files of one directory.  A file
is what it was made from: a mechanical artifact is the set of `<<snapshot, options>>` whose data went into it, so what was mixed of
two runs shows.  `write` of `jsonio.py` replaces a file whole; `diff.json` and the Markdown files are truncated
first and may be left torn.  `Kill` ends a verb between any two steps, and `Replace` puts another ESM in the place of the snapshot
between any two.  `swapped` is a history, whether that happened since the diff or since the prepare began, and a manifest notes it in `steady`.

### `Operations` and the modules under it

The registry of `ops/mod.rs`, and beside it the `create` command of `ba2`: a request names an operation and its arguments, running it gives its response or its error (`Requests`).  An
operation changes nothing, so there are as many behaviours as requests, and the work is in recursive operators and folds, one per
function of the code.  `Searches`, `Scans`, `Connections` and what they use are the part that is proved about: they have recursive
functions, `Sorted` and `Picked` (`Orders`) in the places of recursive operators and of the folds of the libraries, which the
provers cannot open.  A scan of a file whose walk fails is refused.  Data is as small as the operation can tell apart: a file is a sequence of cells, a
text a sequence of letters, a payload a sequence of numbered bytes, an archive a sequence of pieces with lengths, odds
exact fractions where the code has `f64`.  What each module takes as its database is described in its header.

Each property defines the answer another way than the code finds it: `OddsAreExact` enumerates the
outcomes of every draw where `lvli.rs` merges leaves, `BytesAreTold` follows numbered bytes where `decode` passes lengths,
`PackedIsRead` reads back through two readers what the writer laid out, `WalkShowsAll` is a least
distance in the graph of what leads to what where `walk/mod.rs` keeps a queue.

## Runs

| run | result | distinct states | what it shows |
|---|---|---|---|
| `cache_safety` | pass | 1 561 608 | lease, recheck, remap, views, clear and the refinement, with the ESM replaced under open databases, a kill and an error |
| `cache_liveness` | pass | 110 881 | calls end, a detached build completes and heartbeats are honest, with a delegate, an observer, and one kill or error |
| `cache_liveswap` | violated | | `StampTruth` when the ESM is replaced while mapped |
| `section_disk` | pass | 41 048 | a section file through crashes and power loss, and the order of payload and header |
| `sources` | pass | 4 692 983 | the string and curve sections under changes of their files and directories |
| `host_explicit` | pass | 1 097 032 | the host of the viewer with opens, runs and closes |
| `viewer_main` | pass | 51 998 | ids, deferred closes and the host |
| `viewer_history` | pass | 307 865 | the store under answers in any order |
| `viewer_blank` | violated | | `NoBlankView` when a reload is superseded by a navigation that fails |
| `workflow_resume` | pass | 5 132 802 | what prepare reuses, triages and verdicts after kills and replaced snapshots, and the answers of the batch child |
| `operations` | pass | 177 080 | fifteen properties of the answers to 88 540 requests |
| `ops_paths` | violated | | `ListedPathsMatch` when the name of a field has a dot |

Every property of a passing run has a mutant: a definition named like
`Lock_Shared` next to the one it changes, which makes that property fail.  It is a bug one could write there,
and shows that the property looks at that code.

### Bounds, and why they are enough

* `cache_safety`: two clients, no delegate (a delegated client is, for the lease, one
  more process), a clearer, one lazy section, two generations.  The protocol treats sections alike and
  a third client meets nothing but another holder of the lock.  Two generations are the
  least that tell old from new.  One crash and one error (`MaxCrashes`, `MaxFaults`) reach each error path
  with the other processes anywhere.  The proofs remove these bounds.
* `cache_liveness`: one generation, a delegating and a `Silent` client, one builder and an observer: room for a
  client killed while its builder works, for a builder killed while its client waits, for an error of either, and for a test of
  the lock anywhere between.  One kill or one error at a time (`MaxTroubles`): who has the lock and whose heartbeat it is does not
  depend on what the sections hold, and after either the others go on as after any release.
* `section_disk`: payloads of one and two blocks, so that a loss can take the end or the
  middle; two writers and three files, so that one is published, one is written and one
  is mapped; one power loss, after which everything starts over from what is on the device.
* `host_explicit`: two threads, one file with three generations and three opens
  (`MaxGen`, `MaxOpens`): a call can lose a race to another whose database is between
  what it found and what it opened.  Files do not interact in the host, so one is enough.
* `viewer_main`: three calls, two files, three ids: two names of one file and a call in
  flight for it, with another file whose close waits.
* `viewer_history`: two files, two records, two loads in flight, three entries
  (`MaxHist`): an entry before, at and behind the cursor, and a load that is superseded by
  another.  With a third load only more of the superseded would wait.

* `sources`: two processes, two string tables, the root and a subdirectory with a curve file each, `MaxChanges = 5`, that is, four
  changes (the clock starts at one).  Two changes hide a difference from a comparison, a third makes it matter, and the fourth is
  for the directory to come or go, at any moment.
* `workflow_resume`: two sets of options and a snapshot replaced once at any step (`MaxSwaps`), so that a run can be of other inputs than
  the one before; three verbs (`MaxVerbs`), one kill and one death of the child: a run, one cut short over it, and the one that
  must notice.  The user may stop after any verb, so the run does not check deadlock.
* `operations`, by what is asked:
  files of up to four pieces, empty groups, groups that overrun or end early and records whose data looks like a group;
  patterns and texts of up to four of two letters; records two levels deep; schemas with every kind of member and up to four
  subrecords in any order; tokens of up to three characters where a FormID has two, in two bases, against records, names and
  engine forms of every overlap; graphs of four records, cycles and self references among them, to three hops; arrays of up to
  three elements of every family of keys; records with a member for each stage of noise suppression, at two form versions; mods that include each other;
  lists of three entries with one list inside; thirteen records of every type a walk digests, to depth three; curves of up to
  four points at six levels; archives of two files with every codec, cut at every byte, and textures of every pixel format.
  The functions are uniform in what is left out: longer inputs repeat the steps of these.

The counters of crashes, errors, opens, replacements and power losses are bounded by guards of the actions
that raise them, `MaxHist` by a conjunct of `Answer`.

### Fairness

Only `cache_liveness` needs it.  A running process goes on (`WF` of its own next step, of a
delegation, of a command given to a builder), and an advisory lock that is released again and again is
granted to a waiter in the end (`SF` of `Lock`): the kernel queues the waiters.  Nobody has to open,
query or close, to be killed or to fail.  A process that never ends its counting pass is excluded by
`WF` of `Writing`: `Tick` may be taken any number of times, not forever.

## Proofs

TLC checks the instances above; TLAPS proves the following for every number of processes, sections,
threads, files, ids and calls and every bound.  Each theorem is `Spec => []Inv`, or `Spec => [][A]_vars`, by
an invariant `IInv` with `Init => IInv` and `IInv /\ [Next]_vars => IInv'`.

| module | theorem | argument |
|---|---|---|
| `BuildCache_proofs` | `TypeCorrect` | type by groups of variables; frame lemmas say which actions touch which group |
| | `LeaseIsExclusive` | `HolderInv`: who is in `LeasePcs`, or an observer in `held`, or a clearer that locked, is the `holder`; without the other roles in it `Lock` could find the lock free |
| | `ClearWaitsItsTurn` | `HolderInv`, given the lock file exists (`LockFileAtStart`) |
| | `HeartbeatIsHonest` | `HbInv`: a worker past `DropLease` has no heartbeat; dead processes stay dead |
| | `NoBuildIsRedundant` | `Discipline` (type, holder and `FlowInv`: what is in `todo` at each step); only the holder writes, so what the recheck missed stays missing |
| | `RemapNeverFails` | given `LockFileAtStart`: between write and remap nobody else writes or clears |
| | `StampsAreTrueOrTorn`, `ViewsAreCoherent` | `DatedInv`: the stamp of a job is no older than the mapping, and where they differ its generation is torn; nothing mapped is newer than its stamp.  Without the order of the two a section could be given content of a later ESM than its stamp |
| | `CacheIsStore` | each step maps to a step of `SectionStore` or to a stutter: a write to `Fill`, whose content `DatedInv` bounds, a stat over an older mapping to `Tear` |
| `SectionFile_proofs` | `TypeCorrect`, `NothingTorn`, `HeaderComesLast`, `MappingsAreStable` | `Inv`: what may be found at the path after a loss (`past`) is whole and safe, each writer's file is as far as its step says and nobody else's, a file in use is not created anew |
| `Host_proofs` | `TypeCorrect`, `StaleIsRecognised`, `RacesGoForward` | `StampInv`: recorded stamps, snapshots and databases in hand are ordered by generation; without the stamps in hand nothing is known of the one a slow call installs |
| | `LoneCallsAreFresh` | `AloneInv`: while no other call overlaps, what a call found and what is in the map agree |
| | `CloseWins` | `OpenerInv`: a run that goes past `Look` without the right to open has found a database |
| `Viewer_proofs` | `TypeCorrect` | `pendingOpens` is the number of calls in flight, by counting |
| | `IdsStayOpen`, `HostIsPruned` | `Inv`: the file of a call the host answered is resident as long as the call is in flight, since closes wait; a resident file no id names is in `deferred`, in the hands of a call, or an orphan |
| `Workflow_proofs` | `AnswersAlwaysMatch` | `GatewayInv`: at most one request is in the pipes, and only while `op()` waits for it; a dead child has nothing left to read |
| | `TriageAlwaysWhole` | `WholeInv`: the triage is removed before and written after the files beside it, and each of those files stays one that exists |
| | `VerdictsAlwaysKept` | `KeepInv` over `JobInv` (which verb is at which step): from the decision on, a verb that will hand out the output without a warning has the verdicts it found still in the triage; without the steps before the last one, the verdicts could be gone when it returns |
| | `ReuseAlwaysFresh` | `FreshInv`: a manifest on disk that is `steady` is true of every artifact it lists, there is none while a run writes them, what a run has written is of the snapshot it began with as long as that is there, and a prepare that decides has looked at the manifest; without the third part nothing is known of what the next manifest lists |
| `SourceSections_proofs` | `CurrentStringsAlwaysTrue` | `StringsInv` over `Shape`: metadata only grows and files are read after all of them were stamped, so what was read of a file whose stamp still fits is what it holds; it must also hold of reads that are not published yet |
| | `AddedIsAlwaysSeen` | `CurvesInv`: as long as the root's stamp fits, a directory that exists was listed or is `late`, and what was read agrees with the directories stamped; it must also hold of a call that has not published yet |
| `Navigation_proofs` | `CursorAlwaysNamesShown` | `HistoryInv`, the cursor is in the history and a step knows where its entry is, and `NewestInv`, the newest load has a place to land as long as its file is open; without it an answer would be shown beside another entry |
| | `LastChoiceAlwaysWins` | `ChoiceInv`: the last choice is being loaded by the newest load, or it is shown, or its file is going |
| | `NothingEverLeadsToClosed` | what `pruneHistory` keeps is of files still open, and what it keeps stays in place (`KeepsOthers`, by least counterexample) |
| `Requests_proofs` | `SearchAlwaysFindsAll` | the greedy matcher and the meaning of a pattern agree: `GreedyIs`, behind each star the text may end from the cursor on and nowhere before it, so taking the first occurrence of each part loses no match; then sorting and the limit (`PageIs`) |
| | `IndexAlwaysExact` | `WalkNests`: the walk from any position to any end is a nesting (`Placed`, `Matched`, `Bounded`): what it meets lies behind one another, a group ends once, and one that starts inside another ends inside it; so no record is met twice, and the three tables grow one record at a time (`FormsAre`, `NamesAre`, `XrefIs`) |
| | `TreeAlwaysBrowsedOnce` | `TreeAt`, what the arena holds after the first events of a nesting: the stack is the list of the groups still open, outermost first, so its top is the innermost (`TopIs`) and an end event ends just that one (`EndedIsTop`); each group and each record met is a child of the one that was innermost and of no other.  At the end those are the smallest extents around them (`InnermostIs`), and pages of any size join to all rows (`PagedIs`) |
| | `ReferencesAlwaysExact` | `Walked`, what a walk knows after its first n steps: the queue is in order of distance (`QueueOk`), what names a node that was taken off it has been seen, and what has been seen is kept where its distance says (`SeenOk`), and each row is at its distance with a chain that leads there and the tags of the carriers done (`RowsOk`).  Without the order of the queue a record could be met first by a longer way; with it, all that is nearer than what is still queued has been seen.  As no node is queued twice the walk ends before its steps do (`QueueIsShort`) |
| | `PathAlwaysShortest` | `Searched`: each side knows exactly the nodes within its depth, with a shortest chain to each (`SideOk`), and as long as nothing was found the sides share none (`Apart`).  If the ends are as far apart as both depths together, some node is in both however the way is split (`WaysSplit`): sides that share none show that the ends are further apart, and the first meeting joins to a shortest chain.  A search ends with none only when its hops are used up or a side has run dry |

The assumptions are those the modules name: roles are disjoint (`RolesAssumption`), lazy sections are among the
three there are (`SectionsAssumption`), every path has a place in the order of stats (`SourceAssumption`), bounds are naturals (`BoundsAssumption`, `HostAssumption`, `SizeAssumption`,
`LossesAssumption`), "none" is nothing else (`FilesAssumption`, `KeysAssumption`), calls are finitely many (`CallsAssumption`).
Two theorems, `ClearWaitsItsTurn` and `RemapNeverFails`, assume that the lock file was there at the start; the clear
described below shows why.  None assumes anything of when files are replaced: what a replacement can spoil is named by
the history variables, and the run `cache_liveswap` shows one case of it.

The theorems of `Requests_proofs` are about one operation each: the requests are those of that operation
(`SearchRequests`, `ScanRequests`, `IsRefRequest`, `IsPathRequest`), and any other operation may answer its own requests as it likes (`Elsewhere`).  A database has
finitely many records with a FormID each; a file is any sequence of headers, where a group counts its own header, as
every writer does, and need not fit into the one around it.  A reference graph has any number of records that name any forms,
those that nothing defines and themselves included; seeds are a FormID, a record with an editor name, or any carriers.  A path
is asked for from a FormID that a record or the game defines: one that nothing defines has no entry in the index of references,
so the search from it finds nothing, although the search from the other end may meet it, and then which of the two sides is
expanded decides the answer.  The hops and the budget are any numbers.

The type invariants, `ClearWaitsItsTurn`, `StampsAreTrueOrTorn` and `LoneCallsAreFresh` are
stated by no run: the proofs cover them for every instance.

Only model-checked: liveness (`ClientsServed`, `BuildOutlivesClient`: outside what the prover does), the violations, and the answers
of these operations:

* `ListedPathsMatch`, `BytesAreTold`, `FieldsInOrder`, `DiffTellsAll`, `EditsSurvive`: functions over values nested to any depth.  The
  models recurse over the values, and that needs induction over data: the library's theorems of induction take a predicate,
  which no prover here can instantiate, and recursive operators are not open to it at all.
* `OddsAreExact`: products and sums of fractions over any number of draws, in a recursion over lists that hold lists.
* `ShownIsFound`: the digits of a number in a base, and a power as the bound of a FormID, for which the prover has no facts.
* `PackedIsRead`, `ChaseFollowsAll`, `WalkShowsAll`: written with folds and recursive operators over many tables at once.  The walk over
  references that the last two make is the one `ReferencesAlwaysExact` is about.

What is proved of recursive functions is proved by least counterexample (`LeastOf`), and that there is such a function by
`Iteration`: one walk over a graph, one level of a search are such steps.

## Where code and comments disagree

Three runs check what a comment of the code promises and find a behaviour that breaks it.

* **`cache_liveswap`**.  The stamp of a lazy section is a stat of the path at the time of the build, its content comes
  from the ESM mapped before.  Replace the file under an open database, ask for a lazy section, and old content is
  published with the new file's stamp, which later opens trust.  `Section::get` relies on the opposite.
* **`viewer_blank`**.  After a file is closed, the entry under the cursor is reloaded; a navigation that supersedes
  the reload and then fails, or is cancelled with Back, leaves nothing shown next to a history that names something.
* **`ops_paths`**.  `list_type_field_paths` joins the names of members with dots and the filter splits a path at every dot, so
  the path of a field like "Assoc. Item" is offered and matches no record.

More that the models show and no run repeats:

* `progress::read` tests the lock by taking it.  After a killed build, a second reader can see the first one's test as a build
  and return the dead one's heartbeat; its doc says `Some` means a live build.  (`ReadProbe` of `BuildCache`.)
* `clear_cache` goes on without a lock when there is no lock file; the first build may create it right then, and its
  section is removed between write and remap.  (`BuildCache` with `LockFileAtStart = FALSE`: `RemapSucceeds` fails.)
* `curves.rs:283` lists the directories of the curve tree first and stamps them then.  One made in between is in neither the list nor
  the stamps, while the root's stamp already counts it: a curve added to it is not seen as a change but missed, against
  `curves.rs:279`.  (`SourceSections`: `AddedNeverMissed` fails, `AddedIsSeen` is what holds: every other curve is seen.)
* `new_manifest` (`make_patch_notes.py:538`) stats the snapshots after the artifacts were made.  One replaced in between is recorded as
  what they were made from, and `reuse_problem` finds the "finished mechanical output" (`workflow.py:139`) of a snapshot that
  no artifact is of.  (`Workflow`: `FinishedIsOfNow` fails, `ReuseIsFresh` is what holds.)
* A call of the host that loses the race to install returns the winner's database, which may be older than the file was when
  the call began.  (`Host`: `AloneIsFresh` and `NeverBackwards` are what holds.)
* `array_diff.rs:757` names "Edge Links" among the arrays whose reorder "stays a plain change"; a pure reorder of one
  gives no change at all, since its elements are paired by key.  (`MCOperations` with `EdgeLinks = TRUE`: `DiffTellsAll` fails.)
* Decoding drops bytes without a marker where a chosen variant of a union does not take all of a subrecord (`bind.rs:446`),
  where a scalar variant is cut short, and behind the entries of a counted array (`decode/walk.rs:324`), against the comment
  at `decode/walk.rs:288`.  `BytesAreTold` leaves these schemas out.
* With `--decimal`, a bare decimal FormID of more than eight digits, as it is itself displayed, is read as an editor name
  (`from_input_with`); `ShownIsFound` says so.
* The root of an item mod's chase is not in `visited` (`chase.rs:1153`): a mod that includes itself is listed twice.
* `ba2 create --files` without a base gives files of one name one entry name, and the last one wins; blobs of more than
  64 MiB are packed compressed and not unpacked; the reader inside `esm` refuses an archive without files and takes any version.
* The two passes of `ba2 create` meet in a temp file whose last flush is a `drop` (`writer.rs:261`, `457`): its error is not seen, and an
  archive with wrong offsets is reported as written.  `Archive` takes the temp file for whole.

## What is left out

* `HeartbeatHonest` takes it that the removal of the heartbeat in `Drop` succeeds.  A reader may remove the heartbeat
  of a builder that took the lock after the reader's test (`ReadUnlock`, `ReadSweep`): the next tick writes it again.
* Threads of one process that wait on a `Section`'s `build_lock`: `BuildCache` has one caller per process.
* The granularity of mtimes: distinct generations have distinct stamps.
* `rkyv` archives, the layout fingerprint and `CACHE_VERSION` are part of the stamp.
* That deferred closes of the viewer are ever carried out: opens may overlap forever.  An orphan (see `Viewer`) stays in
  the host until the same file is opened and closed again; no comment promises otherwise.
* In `Navigation`: Referenced By, the raw dump and the columns' content; ids are reused only once nothing in flight names them.
* `Archive`: files and chunks of 4 GiB and more, and entries whose names differ only in `.` components and are extracted to one path.
* `Operations`: byte layouts of headers and decompression, scripts (`vmad.rs`), model information, condition text (`ctda.rs`), the schema, the
  wording of evidence, of digests (`walk/render.rs`) and of errors, file information, curve queries and raw dumps.  `f64` and `f32`
  are exact fractions, so rounding is not modelled.
* `Workflow`: argument parsing, discovery of snapshots and messages.
* Not modelled at all: the progress display, source discovery, bundles and lints of the patch notes (functions in a script language, without state;
  `Workflow` treats each as the maker of its file), the schema extractor and the policy checks, which run offline.

## Plan

Done: the cache and its files, the host, the viewer, the sections from other files, the patch-notes workflow, the operations with the
modules under them, and the proofs above.  Next, in order:

1. **Proofs** of the operations that are only model-checked: `ChaseFollowsAll` is a breadth-first search like that of
   `ReferencesAlwaysExact` and would come first, once `Chase` has recursive functions in the places of folds.
2. **`Navigation`, second half**: `loadRefs`, `changeReferencedByDepth`, `loadRaw` and the paged record tree (`recordLoad.ts`).
3. **Composition** of `Host` with the per-process `build_lock` of `Section`, and of `Host` with `Viewer`: that `Viewer`'s
   view of the host is implemented by `Host`.
4. **Operations**: scripts, condition functions and the discovery of sources.
