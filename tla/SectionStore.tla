---------------------------- MODULE SectionStore ----------------------------
(***************************************************************************)
(* What the esm_cache/ directory promises to the programs that share it,   *)
(* with processes, locks and heartbeats left out.  A section is absent or  *)
(* carries the stamp of an ESM generation that is or was on disk and a     *)
(* content derived from that generation; the content stays as long as the  *)
(* stamp does, and only `esm cache clear` takes a section away.            *)
(*                                                                         *)
(* The promise has one exception, a torn generation: one that a program    *)
(* took for the identity of an older ESM it had mapped.  Under its stamp a *)
(* section may hold, and change to, content of earlier generations.        *)
(* BuildCache implements this store.                                       *)
(***************************************************************************)
EXTENDS Naturals

CONSTANTS Sections, \* the section files of one ESM
          MaxGen    \* bound: how many generations of the ESM there are

VARIABLES esm,      \* generation of the ESM on disk
          torn,     \* generations taken for the identity of an older ESM
          stored    \* section -> [sig, from]: its stamp (0: absent) and the
                    \* generations its content is of

Empty == [sig |-> 0, from |-> {}]

Init == esm = 1 /\ torn = {} /\ stored = [s \in Sections |-> Empty]

\* A program published section s under the stamp g, current or outdated.
Fill(s, g) ==
    /\ stored[s].sig = g => g \in torn
    /\ \E content \in SUBSET (1 .. g) :
         /\ content # {}
         /\ g \notin torn => content = {g}
         /\ stored' = [stored EXCEPT ![s] = [sig |-> g, from |-> content]]
    /\ UNCHANGED <<esm, torn>>

\* `esm cache clear` removed section s.
Evict(s) ==
    /\ stored' = [stored EXCEPT ![s] = Empty]
    /\ UNCHANGED <<esm, torn>>

\* A new version of the ESM was put in place of the old one.
Replace ==
    /\ esm < MaxGen
    /\ esm' = esm + 1
    /\ UNCHANGED <<torn, stored>>

\* A program that has an older version mapped took the ESM's stamp.
Tear ==
    /\ torn' = torn \cup {esm}
    /\ UNCHANGED <<esm, stored>>

Next == \/ Replace \/ Tear
        \/ \E s \in Sections : Evict(s) \/ \E g \in 1 .. esm : Fill(s, g)

Spec == Init /\ [][Next]_<<esm, torn, stored>>
=============================================================================
