------------------------------- MODULE Selector -------------------------------
(***************************************************************************)
(* How a request names a record (formid.rs, ops/sel.rs): a FormID in one   *)
(* of two bases, an EditorID, or a token that may be either; the forms     *)
(* that the engine defines without a record (hardcoded.rs); and the lookup *)
(* of one record or of several (ops/records.rs).                           *)
(*                                                                         *)
(* A token is [prefix, body]: whether it starts with 0x, and its           *)
(* characters, numbers of which those below w.hex are hexadecimal digits   *)
(* and those below w.dec decimal ones.  w.width is the digits of a FormID  *)
(* (8, of base 16, in the code): a FormID is less than w.hex ^ w.width.    *)
(* db is [records, names, engine]: the FormIDs of the file, what its names *)
(* lead to, and the name, or NoName, of each form of the engine.           *)
(***************************************************************************)
EXTENDS Integers, SequencesExt, FiniteSetsExt

NoName == [prefix |-> FALSE, body |-> <<>>]
Failed(why) == [error |-> why]
IsFailed(x) == "error" \in DOMAIN x

-----------------------------------------------------------------------------
(* Reading and showing FormIDs *)

OfDigits(body, base) == body # <<>> /\ \A c \in ToSet(body) : c < base
ReadDigits(body, base) == FoldLeft(LAMBDA n, digit : base * n + digit, 0, body)

\* A number of a base, if it is one and fits.
Number(w, body, base) ==
  IF OfDigits(body, base) /\ ReadDigits(body, base) < w.hex ^ w.width
  THEN [id |-> ReadDigits(body, base)] ELSE Failed("not a FormID")

\* parse_formid: a bare run of hexadecimal digits is hexadecimal, though it
\* may look decimal, unless it is too long for one.
ParseFormId(w, token) ==
  IF token.prefix \/ (OfDigits(token.body, w.hex) /\ Len(token.body) <= w.width)
  THEN Number(w, token.body, w.hex) ELSE Number(w, token.body, w.dec)

LooksLikeFormId(w, token) == OfDigits(token.body, w.hex) /\ Len(token.body) <= w.width

BareDecimalFormId(w, token) ==
  IF token.prefix THEN Failed("not decimal") ELSE Number(w, token.body, w.dec)

RECURSIVE DigitsOf(_, _)
DigitsOf(n, base) == IF n < base THEN <<n>> ELSE Append(DigitsOf(n \div base, base), n % base)

\* Hexadecimal is shown in full width with its prefix, decimal bare.
Display(w, id) ==
  LET digits == DigitsOf(id, w.hex)
  IN  [prefix |-> TRUE, body |-> [i \in 1..(w.width - Len(digits)) |-> 0] \o digits]
DisplayBase(w, id, base) ==
  IF base = "hex" THEN Display(w, id) ELSE [prefix |-> FALSE, body |-> DigitsOf(id, w.dec)]

-----------------------------------------------------------------------------
(* Selectors *)

ByForm(id) == [by |-> "formid", id |-> id]
ByToken(by, token) == [by |-> by, token |-> token]

\* from_input_with: a token alone.  One that may be a FormID or a name is left
\* for the database to tell, unless decimal was asked for.
FromInput(w, token, base) ==
  LET decimal == BareDecimalFormId(w, token)
  IN  CASE ~LooksLikeFormId(w, token) -> ByToken("edid", token)
        [] LooksLikeFormId(w, token) /\ token.prefix -> ByForm(ParseFormId(w, token).id)
        [] LooksLikeFormId(w, token) /\ ~token.prefix /\ base = "dec" /\ ~IsFailed(decimal) -> ByForm(decimal.id)
        [] OTHER -> ByToken("auto", token)

\* from_parts_with: what is given as a FormID must be one, in the base asked
\* for or else as it reads.
FromParts(w, how, token, base) ==
  LET decimal == BareDecimalFormId(w, token)
      parsed == ParseFormId(w, token)
      given == IF base = "dec" /\ ~IsFailed(decimal) THEN decimal ELSE parsed
  IN  CASE how = "formid" -> IF IsFailed(given) THEN given ELSE ByForm(given.id)
        [] how = "edid" -> ByToken("edid", token)
        [] how = "target" -> FromInput(w, token, base)
        [] OTHER -> ByToken(how, token)

DisplaySel(w, sel) == IF sel.by = "formid" THEN Display(w, sel.id) ELSE sel.token

-----------------------------------------------------------------------------
(* Resolving them *)

\* hardcoded.rs: of two forms of one name the lowest.
LookupHardcoded(db, token) ==
  LET named == {id \in DOMAIN db.engine : db.engine[id] = token /\ token # NoName}
  IN  IF named = {} THEN Failed("not found") ELSE [id |-> Min(named)]

GetByEdid(db, token) ==
  IF token \in DOMAIN db.names THEN [id |-> db.names[token]] ELSE Failed("not found")

ByName(db, token) ==
  IF IsFailed(GetByEdid(db, token)) THEN LookupHardcoded(db, token) ELSE GetByEdid(db, token)

(* Mutant: a token that may be either is looked up as a name first. *)
ResolveSel_NameFirst(w, db, sel) ==
  LET parsed == ParseFormId(w, sel.token)
  IN  CASE sel.by = "formid" -> [id |-> sel.id]
        [] sel.by = "edid" -> ByName(db, sel.token)
        [] sel.by = "auto" -> IF IsFailed(ByName(db, sel.token)) THEN parsed ELSE ByName(db, sel.token)
        [] OTHER -> Failed("not a record")

\* A FormID is taken as it is; a token that may be either is a FormID if there
\* is a record with it, and otherwise a name.
ResolveSel(w, db, sel) ==
  LET parsed == ParseFormId(w, sel.token)
      there == ~IsFailed(parsed) /\ parsed.id \in db.records
  IN  CASE sel.by = "formid" -> [id |-> sel.id]
        [] sel.by = "edid" -> ByName(db, sel.token)
        [] sel.by = "auto" -> IF there THEN parsed ELSE ByName(db, sel.token)
        [] OTHER -> Failed("not a record")

\* explain_hardcoded_miss: a form without a record, but known to the engine.
ExplainMiss(db, id) == Failed(IF id \in DOMAIN db.engine THEN "hardcoded" ELSE "not found")

\* record_resolved: the record that a selector names.
RecordResolved(w, db, sel) ==
  LET resolved == ResolveSel(w, db, sel)
  IN  CASE IsFailed(resolved) -> resolved
        [] ~IsFailed(resolved) /\ resolved.id \notin db.records -> ExplainMiss(db, resolved.id)
        [] OTHER -> resolved

\* record_bulk: an entry for each selector, whatever becomes of the others.
BulkRecordEntry(w, db, sel) == RecordResolved(w, db, sel) @@ [sel |-> DisplaySel(w, sel)]
RecordBulk(w, db, sels) == [i \in DOMAIN sels |-> BulkRecordEntry(w, db, sels[i])]
=============================================================================
