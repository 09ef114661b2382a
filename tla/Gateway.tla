------------------------------ MODULE Gateway ------------------------------
(***************************************************************************)
(* EsmGateway (src/patch-notes/pn/esmcli.py) and the `esm batch` child it  *)
(* owns (src/esm/src/bin/cli/batch.rs): one request line out, one answer   *)
(* line back, over a pair of pipes.  The child may die at any moment, with *)
(* a request unread, half answered or answered; a stage skips the request  *)
(* that failed and asks the next one.  What a request means is left out: a *)
(* request is its number and an answer the number of the request it is     *)
(* for, or torn.                                                           *)
(***************************************************************************)
EXTENDS Naturals, Sequences

CONSTANTS
    Requests,   \* how many requests a stage makes
    MaxDeaths   \* bound on the deaths of children

VARIABLES
    child,   \* "none": never started or forgotten; "live"; "dead"
    inbox,   \* request lines in the child's stdin
    outbox,  \* answer lines in the child's stdout
    want,    \* the request op() waits for an answer to, 0 when it does not
    asked,   \* requests made so far
    answers, \* what op() returned: pairs of a request and its answer
    deaths

gateway == <<child, inbox, outbox, want, asked, answers, deaths>>

Torn == 0

GatewayInit ==
    /\ child = "none" /\ inbox = <<>> /\ outbox = <<>>
    /\ want = 0 /\ asked = 0 /\ answers = {} /\ deaths = 0

(* op(), first half.  _pipes starts a child, with pipes of its own, unless *)
(* the one it has is alive; the request is written and flushed.            *)
Ask ==
    /\ want = 0 /\ asked < Requests
    /\ asked' = asked + 1
    /\ want' = asked + 1
    /\ child' = "live"
    /\ IF child = "live"
       THEN inbox' = Append(inbox, asked + 1) /\ UNCHANGED outbox
       ELSE inbox' = <<asked + 1>> /\ outbox' = <<>>
    /\ UNCHANGED <<answers, deaths>>

(* A child that exited after poll() looked: the write fails, op() raises   *)
(* and the next op() finds it dead.                                        *)
AskFails ==
    /\ want = 0 /\ asked < Requests /\ child = "dead"
    /\ asked' = asked + 1
    /\ UNCHANGED <<child, inbox, outbox, want, answers, deaths>>

(* op() raised EsmError after each of these: readline saw the end of the   *)
(* child's output (the child is waited for and forgotten), or half a line. *)
Hear_GivesUp ==
    /\ want # 0
    /\ want' = 0
    /\ IF outbox # <<>>
       THEN /\ outbox' = Tail(outbox)
            /\ answers' = answers \cup {<<want, Head(outbox)>>}
       ELSE UNCHANGED <<outbox, answers>>
    /\ UNCHANGED <<child, inbox, asked, deaths>>

(* op(), second half: readline blocks until there is a line or the end.    *)
Hear ==
    /\ want # 0
    /\ \/ /\ outbox # <<>>
          /\ outbox' = Tail(outbox)
          /\ answers' = IF Head(outbox) = Torn THEN answers
                        ELSE answers \cup {<<want, Head(outbox)>>}
          /\ UNCHANGED child
       \/ /\ outbox = <<>> /\ child = "dead"
          /\ child' = "none"
          /\ UNCHANGED <<outbox, answers>>
    /\ want' = 0
    /\ UNCHANGED <<inbox, asked, deaths>>

(* cmd_batch: exactly one line for every request line, in order, flushed.  *)
(* An error envelope is an answer too.                                     *)
Batch ==
    /\ child = "live" /\ inbox # <<>>
    /\ inbox' = Tail(inbox)
    /\ outbox' = Append(outbox, Head(inbox))
    /\ UNCHANGED <<child, want, asked, answers, deaths>>

(* The child is killed, possibly in the middle of writing an answer. *)
ChildDies ==
    /\ child = "live" /\ deaths < MaxDeaths
    /\ deaths' = deaths + 1
    /\ child' = "dead"
    /\ inbox' = <<>>
    /\ \/ outbox' = outbox
       \/ inbox # <<>> /\ outbox' = Append(outbox, Torn)
    /\ UNCHANGED <<want, asked, answers>>

(* close(): stdin is closed, the child exits and is waited for. *)
GatewayClose ==
    /\ child' = "none" /\ inbox' = <<>> /\ outbox' = <<>>
    /\ want' = 0 /\ asked' = 0 /\ answers' = {}
    /\ UNCHANGED deaths

GatewayStep == Ask \/ AskFails \/ Hear \/ Batch \/ ChildDies

(* "in order": whatever op() returns is the answer to its own request, not *)
(* a late answer to a request whose failure a stage skipped.               *)
AnswersMatch == \A a \in answers : a[1] = a[2]
=============================================================================
