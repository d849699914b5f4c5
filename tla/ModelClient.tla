---------------------------- MODULE ModelClient ----------------------------
(***************************************************************************)
(* The client of an OpenAI-compatible provider (crates/neko-llm/src/       *)
(* openai.rs): complete() sends a request and, after a transient failure,  *)
(* waits and sends it again, at most MaxRetries times.  Calls of different *)
(* tasks share nothing, and run side by side.                              *)
(*                                                                         *)
(* A call is a record: where it stands, and attempt, the retries it has    *)
(* made.  What is in a prompt or an answer is left to the layers.          *)
(***************************************************************************)
EXTENDS Integers

CONSTANTS
  Calls,        \* the calls made in a run
  MaxRetries    \* max_retries

\* 1u32 << (attempt - 1) is the power of two it is meant to be up to here.
ASSUME RetryAssumption == MaxRetries \in 0 .. 32

VARIABLE call   \* the calls, by their ids

CallStates == {"none", "request", "backoff", "answered", "transport", "rejected"}

ClientTypeOK == call \in [Calls -> [st : CallStates, attempt : 0 .. MaxRetries]]

ClientInit == call = [c \in Calls |-> [st |-> "none", attempt |-> 0]]

InFlight(c) == call[c].st \in {"request", "backoff"}

(* complete(): the first request. *)
Request(c) ==
  /\ call[c].st = "none"
  /\ call' = [call EXCEPT ![c].st = "request"]

(* try_complete_once(): a success whose body decodes and has a choice. *)
ProviderAnswers(c) ==
  /\ call[c].st = "request"
  /\ call' = [call EXCEPT ![c].st = "answered"]

(* A 4xx other than 429, a body that is cut short or does not decode, or   *)
(* no choices: an error at once.                                           *)
ProviderRejects(c) ==
  /\ call[c].st = "request"
  /\ call' = [call EXCEPT ![c].st = "rejected"]

(* Mutant: gives up one retry too early. *)
RetriesOverEarly(c) == call[c].attempt + 1 >= MaxRetries

RetriesOver(c) == call[c].attempt >= MaxRetries

(* The request is not sent or times out, or the provider says 429 or 5xx:  *)
(* the error when the retries are used up, another wait otherwise.         *)
TransientFailure(c) ==
  /\ call[c].st = "request"
  /\ \/ /\ RetriesOver(c)
        /\ call' = [call EXCEPT ![c].st = "transport"]
     \/ /\ ~RetriesOver(c)
        /\ call' = [call EXCEPT ![c] = [st |-> "backoff", attempt |-> @.attempt + 1]]

(* retry_base_delay * 2^(attempt - 1) has passed. *)
BackoffOver(c) ==
  /\ call[c].st = "backoff"
  /\ call' = [call EXCEPT ![c].st = "request"]

ClientStep(c) == ProviderAnswers(c) \/ ProviderRejects(c) \/ TransientFailure(c) \/ BackoffOver(c)

-----------------------------------------------------------------------------
(* The refinement: a retry is counted when its wait is over. *)

Result(c) == IF InFlight(c) THEN "pending" ELSE call[c].st

Requests(c) ==
  CASE call[c].st = "none"    -> 0
    [] call[c].st = "backoff" -> call[c].attempt
    [] OTHER                  -> call[c].attempt + 1

Promise == INSTANCE ModelCall WITH
  MaxRequests <- MaxRetries + 1,
  result      <- [c \in Calls |-> Result(c)],
  requests    <- [c \in Calls |-> Requests(c)]

(* The client keeps the promise of ModelCall: a call ends, after at most   *)
(* max_retries + 1 requests, and blames the transport only after all of    *)
(* them failed (complete, openai.rs).                                      *)
ImplementsModelCall == Promise!Spec
=============================================================================
