----------------------------- MODULE ModelCall -----------------------------
(***************************************************************************)
(* What a call of a language model promises to the layer that makes it     *)
(* (LlmClient::complete, crates/neko-core/src/traits.rs): it ends, with an *)
(* answer or an error; it sends the provider at most MaxRequests requests; *)
(* it ends as "transport", the error of a provider that cannot be reached, *)
(* only when it has sent them all.  ModelClient implements it.             *)
(***************************************************************************)
EXTENDS Naturals

CONSTANTS
  Calls,        \* the calls made in a run
  MaxRequests   \* requests a call may send

VARIABLES
  result,       \* where a call stands
  requests      \* requests a call has sent

Ends == {"answered", "transport", "rejected"}

Init ==
  /\ result = [c \in Calls |-> "none"]
  /\ requests = [c \in Calls |-> 0]

Begin(c) ==
  /\ result[c] = "none"
  /\ result' = [result EXCEPT ![c] = "pending"]
  /\ requests' = [requests EXCEPT ![c] = 1]

(* The same question is sent again. *)
Again(c) ==
  /\ result[c] = "pending" /\ requests[c] < MaxRequests
  /\ requests' = [requests EXCEPT ![c] = @ + 1]
  /\ UNCHANGED result

End(c, how) ==
  /\ result[c] = "pending"
  /\ how = "transport" => requests[c] = MaxRequests
  /\ result' = [result EXCEPT ![c] = how]
  /\ UNCHANGED requests

Next == \E c \in Calls : Begin(c) \/ Again(c) \/ \E how \in Ends : End(c, how)

Spec ==
  /\ Init /\ [][Next]_<<result, requests>>
  /\ \A c \in Calls : WF_<<result, requests>>(Again(c) \/ \E how \in Ends : End(c, how))
=============================================================================
