----------------------------- MODULE Navigation -----------------------------
(***************************************************************************)
(* The viewer's renderer: which record it shows, of which open file, and   *)
(* the history behind Back and Forward (store.ts, with the open and close  *)
(* buttons of OpenFilesPanel that drive it).                               *)
(*                                                                         *)
(* Every choice of the user starts a load that the main process answers    *)
(* later: any number of loads are in flight, their answers arrive in any   *)
(* order, and files are opened and closed meanwhile.  Code between two     *)
(* awaits runs in one turn and is one action here.  loadSeq is abstracted  *)
(* to the load that holds its last value, if one does; navPending to the   *)
(* load it was made for.                                                   *)
(***************************************************************************)
EXTENDS Naturals, Sequences

CONSTANTS Files,   \* ids of databases
          Records, \* FormIDs
          Loads,   \* room for loads in flight
          None,
          MaxHist  \* bound: history entries

ASSUME NoneAssumption == None \notin Files \cup Records \cup Loads
ASSUME BoundAssumption == MaxHist \in Nat \ {0}

VARIABLES open,    \* openDbs
          closing, \* closed in the main process, fileClosed not yet run
          active,  \* activeDbId
          shown,   \* activeRecord: its FormID, its file is active
          cols,    \* the files that have a column in the record view
          nav,     \* [entries, index], an entry is [file, rec]
          load,    \* load -> what it is for
          newest,  \* the load in flight that loadSeq still names
          pending, \* the load navPending was made for
          choice,  \* history: what the user chose last, if it still stands
          cleared  \* history: nothing is shown, because a file was selected that has
             \* nothing to show or a reload failed

vars    == <<open, closing, active, shown, cols, nav, load, newest, pending,
             choice, cleared>>
files   == <<open, closing>>
display == <<active, shown, cols, cleared>>

\* kind: "new" (navigate), "select" (selectFile), "step" (Back, Forward),
\* "reload" (fileClosed); entry: where a step's entry is in the history, 0
\* once it is not there any more.
Kinds == {"new", "select", "step", "reload"}
Free  == [kind |-> "free", file |-> None, rec |-> None, entry |-> 0]

Entries == [file : Files, rec : Records]
NoNav   == [entries |-> <<>>, index |-> 0]

Init ==
    /\ open = {} /\ closing = {}
    /\ active = None /\ shown = None /\ cols = {}
    /\ nav = NoNav
    /\ load = [l \in Loads |-> Free]
    /\ newest = None /\ pending = None
    /\ choice = None /\ cleared = FALSE

-----------------------------------------------------------------------------
(* History *)

Has(i) == i \in DOMAIN nav.entries
AtCursor(f, r) == Has(nav.index) /\ nav.entries[nav.index] = [file |-> f, rec |-> r]

\* The loads as they are when each entry has gone to the place it moves to.
Moved(place) ==
    [l \in Loads |-> [load[l] EXCEPT !.entry = IF @ = 0 THEN 0 ELSE place[@]]]

\* Mutant: the entries after the cursor are kept.
NavPush_KeepsForward(f, r) ==
    IF AtCursor(f, r) THEN UNCHANGED nav
    ELSE nav' = [entries |-> Append(nav.entries, [file |-> f, rec |-> r]),
                 index |-> nav.index + 1]

\* navPush: after the entries up to the cursor, unless it is the entry there.
NavPush(f, r) ==
    IF AtCursor(f, r) THEN UNCHANGED nav
    ELSE nav' = [entries |-> Append(SubSeq(nav.entries, 1, nav.index),
                                    [file |-> f, rec |-> r]),
                 index |-> nav.index + 1]

\* navPending is null or a step; where Back and Forward start from.
Stepping == IF pending = None THEN FALSE ELSE load[pending].kind = "step"
From     == IF Stepping THEN load[pending].entry ELSE nav.index

-----------------------------------------------------------------------------
(* Starting a load *)

\* loadRecord up to its await: the load is the newest one now.
Start(l, kind, f, r, id) ==
    /\ load[l] = Free
    /\ load' = [load EXCEPT ![l] = [kind |-> kind, file |-> f, rec |-> r, entry |-> id]]
    /\ newest' = l

\* pendingLoad: as the navigation in flight.
StartPending(l, kind, f, r, id) ==
    /\ Start(l, kind, f, r, id)
    /\ pending' = l
    /\ choice' = [file |-> f, rec |-> r]

Navigate(l, f, r) ==
    /\ f \in open
    /\ StartPending(l, "new", f, r, 0)
    /\ UNCHANGED <<files, display, nav>>

\* Mutant: a load still pending is not superseded.
Select_KeepsLoad(l, f) ==
    IF shown = None
    THEN /\ active' = f
         /\ pending' = None /\ choice' = [file |-> f, rec |-> None]
         /\ cleared' = TRUE
         /\ UNCHANGED <<load, newest, shown, cols>>
    ELSE StartPending(l, "select", f, shown, 0) /\ UNCHANGED display

\* selectFile: with nothing shown it only supersedes what is pending, else
\* the record shown is loaded from the file.
Select(l, f) ==
    IF shown = None
    THEN /\ active' = f
         /\ newest' = None /\ pending' = None
         /\ choice' = [file |-> f, rec |-> None]
         /\ cleared' = TRUE
         /\ UNCHANGED <<load, shown, cols>>
    ELSE StartPending(l, "select", f, shown, 0) /\ UNCHANGED display

SelectFile(l, f) ==
    /\ f \in open
    /\ Select(l, f)
    /\ UNCHANGED <<files, nav>>

\* goBack while a new navigation is pending cancels it.
CancelNew ==
    /\ pending # None /\ ~Stepping
    /\ newest' = None /\ pending' = None /\ choice' = None
    /\ UNCHANGED <<files, display, nav, load>>

\* goBack and goForward: load the entry next to where they start from.
Step(l, to) ==
    /\ pending = None \/ Stepping
    /\ From >= 1 /\ Has(to) /\ (to = From + 1 \/ From = to + 1)
    /\ StartPending(l, "step", nav.entries[to].file, nav.entries[to].rec, to)
    /\ UNCHANGED <<files, display, nav>>

-----------------------------------------------------------------------------
(* The answer *)

\* The load ends, and with it the pending navigation it was.
End(l, loads) ==
    /\ load' = [loads EXCEPT ![l] = Free]
    /\ newest' = IF newest = l THEN None ELSE newest
    /\ pending' = IF pending = l THEN None ELSE pending

\* Does an answer still count?
Stands(l) == newest = l /\ load[l].file \in open

\* A column for each file that had the record when it was asked and is still
\* open (a file that joined the list meanwhile is allowed one as well); then
\* onShown, which drops the entries a new one replaces.
Show(l, got) ==
    LET place == [i \in DOMAIN nav.entries |-> IF nav' # nav /\ i > nav.index THEN 0 ELSE i]
    IN  /\ active' = load[l].file /\ shown' = load[l].rec /\ cols' = got
        /\ cleared' = FALSE
        /\ \/ load[l].kind \in {"new", "select"}
              /\ NavPush(load[l].file, load[l].rec)
              /\ End(l, Moved(place))
           \/ load[l].kind = "step"
              /\ nav' = [nav EXCEPT !.index = load[l].entry]
              /\ End(l, load)
           \/ load[l].kind = "reload"
              /\ UNCHANGED nav
              /\ End(l, load)

Answer(l) ==
    /\ load[l] # Free
    /\ IF Stands(l)
       THEN /\ \E got \in SUBSET open : load[l].file \in got /\ Show(l, got)
            /\ Len(nav'.entries) <= MaxHist
       ELSE End(l, load) /\ UNCHANGED <<display, nav>>
    /\ UNCHANGED <<files, choice>>

\* The record cannot be had.  A failed selection or reload clears the view.
Reject(l) ==
    /\ load[l] # Free
    /\ IF Stands(l) /\ load[l].kind \in {"select", "reload"}
       THEN /\ active' = load[l].file /\ shown' = None /\ cols' = {}
            /\ cleared' = TRUE
       ELSE UNCHANGED display
    /\ choice' = IF newest = l THEN None ELSE choice
    /\ End(l, load)
    /\ UNCHANGED <<files, nav>>

-----------------------------------------------------------------------------
(* Opening and closing files *)

\* Ids are new: the model gives an id away again only when nothing names it.
Fresh == {f \in Files \ (open \cup closing) : \A m \in Loads : load[m].file # f}

\* listOpen: what the main process closed may be gone from the list, what it
\* opened may be on it before handleOpenPath selects it.
Listed == {(open \ gone) \cup come : gone \in SUBSET closing, come \in SUBSET Fresh}

\* handleOpenPath: the list of open files, then selectFile.
Opened(l, f) ==
    /\ \E list \in Listed : f \in list /\ open' = list
    /\ Select(l, f)
    /\ UNCHANGED <<closing, nav>>

\* handleClose: the main process closes the file ...
Closes(f) ==
    /\ f \in open \ closing
    /\ closing' = closing \cup {f}
    /\ UNCHANGED <<open, display, nav, load, newest, pending, choice>>

\* Mutant: the history keeps the entries of the file.
Pruned_KeepsAll(f, i) == SubSeq(nav.entries, 1, i)

\* What is left of the history up to its i-th entry without f.
Pruned(f, i) ==
    LET upTo[n \in 0 .. Len(nav.entries)] ==
            IF n = 0 THEN <<>>
            ELSE IF nav.entries[n].file = f THEN upTo[n - 1]
            ELSE Append(upTo[n - 1], nav.entries[n])
    IN  upTo[i]

\* The cursor, when so many of the entries up to it are kept.
CursorAfter(kept, before) ==
    IF kept = <<>> THEN 0 ELSE IF before = 0 THEN 1 ELSE before

\* ... then fileClosed drops the file and its history, and loads the entry
\* under the cursor when that moved or the record shown is gone.
FileClosed(l, f) ==
    LET kept     == Pruned(f, Len(nav.entries))
        index    == CursorAfter(kept, Len(Pruned(f, nav.index)))
        reload   == kept # <<>> /\ (nav.entries[nav.index].file = f \/ active = f)
        stuck    == Stepping /\ load[pending].file = f
        place    == [i \in DOMAIN nav.entries |->
                       IF nav.entries[i].file = f THEN 0 ELSE Len(Pruned(f, i))]
    IN  /\ f \in closing
        /\ \E list \in Listed : f \notin list /\ open' = list
        /\ closing' = closing \ {f}
        /\ nav' = [entries |-> kept, index |-> index]
        /\ cols' = IF active = f THEN {} ELSE cols \ {f}
        /\ IF active # f THEN UNCHANGED <<active, shown, cleared>>
           ELSE /\ shown' = None
                /\ cleared' = FALSE
                /\ IF reload THEN active' = kept[index].file
                   ELSE IF open' = {} THEN active' = None ELSE active' \in open'
        /\ pending' = IF reload \/ stuck THEN None ELSE pending
        /\ IF reload
           THEN /\ load[l] = Free
                /\ newest' = l
                /\ load' = [Moved(place) EXCEPT ![l] =
                              [kind |-> "reload", file |-> kept[index].file,
                               rec |-> kept[index].rec, entry |-> 0]]
                /\ choice' = None
           ELSE /\ load' = Moved(place)
                /\ UNCHANGED newest
                /\ choice' = IF choice # None /\ choice.file = f THEN None ELSE choice

LoadStep(l) ==
    \/ Answer(l) \/ Reject(l)
    \/ \E f \in Files, r \in Records : Navigate(l, f, r)
    \/ \E f \in Files : SelectFile(l, f) \/ Opened(l, f) \/ FileClosed(l, f)
    \/ \E i \in DOMAIN nav.entries : Step(l, i)

Next == (\E l \in Loads : LoadStep(l)) \/ CancelNew \/ (\E f \in Files : Closes(f))

Spec == Init /\ [][Next]_vars

-----------------------------------------------------------------------------
InFlight == {l \in Loads : load[l] # Free}
Known    == open \cup closing

\* "The history cursor always names what is shown."
CursorNamesShown ==
    shown # None => /\ Has(nav.index)
                    /\ nav.entries[nav.index].file = active
                    /\ nav.entries[nav.index].rec = shown

\* What the user chose last, a record or a file, is what is shown once the
\* loads are in, unless it failed or its file was closed: no late answer to an
\* earlier choice takes its place, and none is lost.
LastChoiceWins ==
    choice # None /\ InFlight = {} =>
        (choice.file \in open => active = choice.file /\ shown = choice.rec)

\* Nothing that is shown, no column and no entry of the history names a file
\* that is gone, whatever loads of it were in flight when it closed.
NothingLeadsToClosed ==
    /\ active # None => active \in Known
    /\ cols \subseteq Known
    /\ \A i \in DOMAIN nav.entries : nav.entries[i].file \in Known

\* fileClosed loads the entry under the cursor "rather than leaving a blank
\* view that Back and Forward step around": with a history and no load or
\* close in flight something is shown, unless the user selected a file that has nothing
\* to show or that reload failed.
NoBlankView ==
    nav.entries # <<>> /\ InFlight = {} /\ closing = {} => shown # None \/ cleared
=============================================================================
