------------------------------- MODULE Searches -------------------------------
(***************************************************************************)
(* The operation "search" (ops/records.rs) over the search of Wildcard.    *)
(***************************************************************************)
EXTENDS Requests, Wildcard

\* A type that is not a signature of four characters.
BadType == "bad"

SearchRecords ==
  /\ request.op = "search"
  /\ IF request.pattern = <<>> \/ BadType \in request.types THEN Refuse("search")
     ELSE Run("search", Search(request.rows, request.pattern, request.types, request.field, request.limit))

\* What a pattern means: a star stands for any run of letters.  Where its first
\* n characters may end in a text:
Ends(pattern, text, n) ==
  LET after(ends, c) ==
        IF c = Star THEN {j \in 0..Len(text) : \E i \in ends : i <= j}
        ELSE {j \in 1..Len(text) : j - 1 \in ends /\ text[j] = c}
      ends[i \in 0..Len(pattern)] == IF i = 0 THEN {0} ELSE after(ends[i - 1], pattern[i])
  IN  ends[n]

StandsFor(pattern, text) == Len(text) \in Ends(pattern, text, Len(pattern))

\* A pattern without a star may occur anywhere.
Means(pattern, text) ==
  text # NoText /\ StandsFor(IF Stars(pattern) # {} THEN pattern ELSE <<Star>> \o pattern \o <<Star>>, text)

\* A search answers with the records of the wanted types whose text the
\* pattern stands for, each once, lowest FormID first, and leaves out only
\* what the limit cuts off the end (the cursor of wildcard.rs,
\* Database::search).
SearchFindsAll ==
  Answered("search") =>
    LET q == request
        wanted == {row \in q.rows :
                     /\ q.types = {} \/ row.sig \in q.types
                     /\ \/ q.field # "name" /\ Means(q.pattern, row.edid)
                        \/ q.field # "edid" /\ (Means(q.pattern, row.name) \/ Means(q.pattern, row.desc))}
        cut == q.limit > 0 /\ q.limit < Cardinality(wanted)
    IN  /\ ToSet(Out) \subseteq wanted
        /\ Len(Out) = (IF cut THEN q.limit ELSE Cardinality(wanted))
        /\ \A i, j \in DOMAIN Out : i < j => Out[i].id < Out[j].id
        /\ \A row \in wanted \ ToSet(Out) : \A found \in ToSet(Out) : found.id < row.id
=============================================================================
