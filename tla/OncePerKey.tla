----------------------------- MODULE OncePerKey -----------------------------
(***************************************************************************)
(* What docs/merchant-api.md promises of the Idempotency-Key header: for   *)
(* one merchant and one key the side-effecting write happens once, every   *)
(* request with that key and the same body is answered with its result,    *)
(* and one with another body is refused.  Nothing is half done in between. *)
(***************************************************************************)
CONSTANTS
  Attempt,  \* requests sent, resent ones included
  Call,     \* what a request asks for: [merchant, key, op, target, body]
  None

Slot(call) == <<call.merchant, call.key>>
Slots == {Slot(call) : call \in Call}

VARIABLES
  outcome,  \* per slot: what ran for it, [by, body], or None
  answer    \* per request: [status, effect], or None

Init ==
  /\ outcome = [s \in Slots |-> None]
  /\ answer = [a \in Attempt |-> None]

Answer(a, status, effect) ==
  /\ answer[a] = None
  /\ answer' = [answer EXCEPT ![a] = [status |-> status, effect |-> effect]]

Execute(a, call) ==
  /\ outcome[Slot(call)] = None
  /\ outcome' = [outcome EXCEPT ![Slot(call)] = [by |-> a, body |-> call.body]]
  /\ Answer(a, "created", a)

Replay(a, call) ==
  /\ outcome[Slot(call)] # None /\ outcome[Slot(call)].body = call.body
  /\ Answer(a, "replayed", outcome[Slot(call)].by)
  /\ UNCHANGED outcome

Refuse(a, call) ==
  /\ outcome[Slot(call)] # None /\ outcome[Slot(call)].body # call.body
  /\ Answer(a, "reused", None)
  /\ UNCHANGED outcome

\* Not valid, not authenticated, or failed: as if it had not been sent.
Reject(a) == Answer(a, "rejected", None) /\ UNCHANGED outcome

Next ==
  \E a \in Attempt :
    \/ Reject(a)
    \/ \E call \in Call :
         Execute(a, call) \/ Replay(a, call) \/ Refuse(a, call)

Spec == Init /\ [][Next]_<<outcome, answer>>
=============================================================================
