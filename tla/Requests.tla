------------------------------- MODULE Requests -------------------------------
(***************************************************************************)
(* The registry of operations (ops/mod.rs): a request names one operation  *)
(* and its arguments, and running it answers with that operation's output, *)
(* or refuses.  An operation reads a database and changes nothing, so the  *)
(* state is the request and its response.                                  *)
(***************************************************************************)
EXTENDS Naturals, SequencesExt

VARIABLES request,   \* [op, ...]: one operation and its arguments
          response   \* pending, refused, or [status |-> "ok", data]
vars == <<request, response>>

Pending == [status |-> "pending"]

Asked(q) == request = q /\ response = Pending

Run(op, out) ==
  /\ response = Pending /\ request.op = op
  /\ response' = [status |-> "ok", data |-> out]
  /\ UNCHANGED request

Refuse(op) ==
  /\ response = Pending /\ request.op = op
  /\ response' = [status |-> "err"]
  /\ UNCHANGED request

Answered(op) == response.status = "ok" /\ request.op = op
Out == response.data
=============================================================================
