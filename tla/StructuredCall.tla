---------------------------- MODULE StructuredCall ----------------------------
(***************************************************************************)
(* One LLMClient.call: the retries of call_structured against a provider   *)
(* (a "sequence" of attempts, under a ceiling on its tokens), the outer    *)
(* retries of the primary after a transient failure, and the one sequence  *)
(* against the fallback provider.                                          *)
(*                                                                         *)
(* Abstracted: prompts, retry notes, the mechanical repair of an over-long *)
(* field (its result is a valid one), the length of the backoff, metrics.  *)
(* Every caller passes a max_tokens; the uncapped call is not modelled.    *)
(***************************************************************************)
EXTENDS Integers

CONSTANTS
  MaxTokens,           \* the max_tokens of the caller: its reservation
  MIN_MAX_TOKENS,      \* the floor of structured_output.py
  PromptTokens,        \* tokens an attempt may report beyond its output cap
  MaxRetries,          \* attempts of a sequence
  FallbackMaxRetries,  \* sequences the primary gets after its first
  HasFallback          \* a fallback provider is configured

ASSUME CallAssumption ==
  /\ MaxTokens \in Nat /\ PromptTokens \in Nat
  /\ MIN_MAX_TOKENS \in Nat \ {0}
  /\ MaxRetries \in Nat \ {0}
  /\ FallbackMaxRetries \in Nat
  /\ HasFallback \in BOOLEAN

VARIABLES
  phase,      \* an attempt is due, the backoff before one, or how call() ended
  provider,   \* who is asked
  retried,    \* sequences the primary got after its first
  attempt,    \* attempts made in this sequence
  spent,      \* call_structured's total_tokens_used
  lastError,  \* call_structured's last_error
  billed,     \* tokens the providers reported, over all sequences
  reported    \* the tokens the caller of call() is told about

attemptVars == <<phase, provider, retried, attempt, spent, lastError, billed, reported>>
-----------------------------------------------------------------------------
Ended == {"returned", "invalid", "raised"}

CallTypeOK ==
  /\ phase \in {"attempt", "backoff"} \cup Ended
  /\ provider \in {"primary", "fallback"}
  /\ retried \in 0..FallbackMaxRetries
  /\ attempt \in 0..MaxRetries
  /\ spent \in Nat
  /\ lastError \in {"none", "validation", "transient", "permanent"}
  /\ billed \in Nat
  /\ reported \in Nat

CallInit ==
  /\ phase = "attempt"
  /\ provider = "primary"
  /\ retried = 0
  /\ attempt = 0
  /\ spent = 0
  /\ lastError = "none"
  /\ billed = 0
  /\ reported = 0
-----------------------------------------------------------------------------
RETRY_BUDGET_MULTIPLIER == 2

effective_max_tokens ==
  IF MaxTokens < MIN_MAX_TOKENS THEN MIN_MAX_TOKENS ELSE MaxTokens

retry_budget == RETRY_BUDGET_MULTIPLIER * effective_max_tokens

\* What is left of the ceiling covers an attempt of the smallest size.
RoomLeft == retry_budget - spent >= MIN_MAX_TOKENS

\* Mutant of AttemptCap: each attempt may use the whole allocation.
AttemptCapFull == effective_max_tokens

\* attempt_max_tokens.
AttemptCap ==
  IF retry_budget - spent < effective_max_tokens
  THEN retry_budget - spent ELSE effective_max_tokens

\* The loop of call_structured makes another attempt.
MayAttempt == phase = "attempt" /\ attempt < MaxRetries /\ RoomLeft

\* The provider answered and reported u tokens.
Billed(u) ==
  /\ MayAttempt
  /\ u <= AttemptCap + PromptTokens
  /\ attempt' = attempt + 1
  /\ billed' = billed + u

\* A valid answer, at once or after the truncation of over-long fields.
Valid(u) ==
  /\ Billed(u)
  /\ spent' = spent + u
  /\ phase' = "returned"
  /\ reported' = spent'
  /\ UNCHANGED <<provider, retried, lastError>>

\* Mutant of CountInvalid: a rejected answer's tokens are forgotten.
CountInvalidNot(u) == IF lastError = "none" THEN u ELSE spent

\* total_tokens_used after an answer that fails validation.
CountInvalid(u) == spent + u

Invalid(u) ==
  /\ Billed(u)
  /\ spent' = CountInvalid(u)
  /\ lastError' = "validation"
  /\ UNCHANGED <<phase, provider, retried, reported>>

\* One of TRANSPORT_ERRORS: nothing was generated.  429 and 503 are
\* transient, every other one is not.
TransportError(kind) ==
  /\ MayAttempt
  /\ attempt' = attempt + 1
  /\ lastError' = kind
  /\ UNCHANGED <<phase, provider, retried, spent, billed, reported>>

\* Any other exception, such as a tool call whose arguments are no JSON: it
\* passes through both layers, and tells nothing of tokens.
OtherError(u) ==
  /\ Billed(u)
  /\ phase' = "raised"
  /\ UNCHANGED <<provider, retried, spent, lastError, reported>>
-----------------------------------------------------------------------------
\* call_structured gave up: MaxRetries attempts, or no room for another.
GivesUp == phase = "attempt" /\ ~MayAttempt

\* is_transient_error(last_error.last_error)
IsTransient == lastError = "transient"

NewSequence ==
  /\ attempt' = 0
  /\ spent' = 0
  /\ lastError' = "none"

\* Mutant of OneMore: the loop does not count.
Uncounted == retried

\* The counter of call()'s loop.
OneMore == retried + 1

\* The primary is asked afresh after a backoff.
Backoff ==
  /\ GivesUp
  /\ IsTransient
  /\ provider = "primary"
  /\ retried < FallbackMaxRetries
  /\ retried' = OneMore
  /\ NewSequence
  /\ phase' = "backoff"
  /\ UNCHANGED <<provider, billed, reported>>

Wake ==
  /\ phase = "backoff"
  /\ phase' = "attempt"
  /\ UNCHANGED <<provider, retried, attempt, spent, lastError, billed, reported>>

\* The primary's sequences are used up.
FallBack ==
  /\ GivesUp
  /\ IsTransient
  /\ provider = "primary"
  /\ retried = FallbackMaxRetries
  /\ HasFallback
  /\ provider' = "fallback"
  /\ NewSequence
  /\ UNCHANGED <<phase, retried, billed, reported>>

\* LLMValidationError: the failure is not transient, or nobody is left.
Fail ==
  /\ GivesUp
  /\ \/ ~IsTransient
     \/ provider = "fallback"
     \/ retried = FallbackMaxRetries /\ ~HasFallback
  /\ phase' = "invalid"
  /\ reported' = spent
  /\ UNCHANGED <<provider, retried, attempt, spent, lastError, billed>>

CallNext ==
  \/ \E u \in 0..effective_max_tokens + PromptTokens :
       Valid(u) \/ Invalid(u) \/ OtherError(u)
  \/ \E kind \in {"transient", "permanent"} : TransportError(kind)
  \/ Backoff \/ Wake \/ FallBack \/ Fail

CallSpec == CallInit /\ [][CallNext]_attemptVars

\* A provider call has a timeout, and the backoff is a sleep.
CallFairSpec == CallSpec /\ WF_attemptVars(CallNext)
-----------------------------------------------------------------------------
\* However many attempts a sequence makes, its tokens stay within twice the
\* allocation and one prompt: the prompts of the other attempts count against
\* the ceiling (RETRY_BUDGET_MULTIPLIER "caps total spend across all attempts
\* combined", structured_output.py).
SequenceBounded == spent <= retry_budget + PromptTokens

\* A caller that settles its reservation by what it was told misses tokens
\* only if the primary was retried or an unforeseen exception was raised:
\* within one sequence, no failed attempt's tokens are lost (BudgetGate.call
\* reconciles against LLMValidationError.total_tokens_used).
LossNeedsSequences ==
  phase \in {"returned", "invalid"} /\ reported # billed =>
    retried > 0 \/ provider = "fallback"

\* A debate waits for no call for ever: whatever fails, retries and fallback
\* come to an end.
CallEnds == <>(phase \in Ended)
=============================================================================
