---------------------------- MODULE HttpEmbedder ----------------------------
(***************************************************************************)
(* The remote embedders: src/search/http_embedder.rs with its RateLimiter, *)
(* and src/search/ollama.rs.  A caller, the embedding pass of a build or   *)
(* one query, hands `encode_batch` a list of texts; it cuts the list into  *)
(* batches, sends each through the rate limiter with retries, and when a   *)
(* batch fails sends its inputs one by one, writing a zero vector for      *)
(* those that fail alone too.  Ollama has no rate limiter, retries less    *)
(* often and not at 429, has one permit at least, answers in order and     *)
(* without an index, and goes on to single inputs after an answer of the   *)
(* wrong length.                                                           *)
(*                                                                         *)
(* Abstractions: a vector is the text it encodes, already truncated and    *)
(* normalised; back-off sleeps take no step; time is counted in intervals  *)
(* of the rate limiter, Qpm of which make a minute; an embedder has one    *)
(* caller, as in every use of it in src/.                                  *)
(***************************************************************************)
EXTENDS Naturals, Sequences, FiniteSets

CONSTANTS
  Providers,      \* the values of `embedding.provider` considered
  Text, Zero,     \* inputs, and the zero vector
  Rotten,         \* inputs the service refuses with a status not retried
  BatchSize,      \* `embedding.batch_size`
  MaxConcurrent,  \* `embedding.max_concurrent`
  Qpm,            \* `embedding.qpm_cap`
  MaxTexts,       \* bound: inputs of a call
  MaxCalls,       \* bound: calls of encode_batch
  MaxFaults,      \* bound: failures of a kind that is retried
  MaxDenied,      \* bound: failures of a kind that is not, of good inputs
  MaxGarbled,     \* bound: answers of a wrong shape
  MaxTicks        \* bound: intervals of the rate limiter

ASSUME ConstantsAssumption ==
  /\ Providers \subseteq {"http", "ollama"}
  /\ Zero \notin Text /\ Rotten \subseteq Text
  /\ BatchSize \in Nat \ {0}
  /\ {MaxConcurrent, Qpm, MaxTexts, MaxCalls, MaxFaults, MaxDenied, MaxGarbled, MaxTicks} \subseteq Nat

VARIABLES
  provider, \* `embedding.provider`, which kind of embedder this is
  pc,       \* the await the caller is at
  texts,    \* the inputs of the call
  out,      \* the vectors collected so far
  upto,     \* the last input of the batch at hand
  single,   \* is the batch sent input by input?
  attempt,  \* retries of the request at hand
  alone,    \* history: failures of requests for one input alone, in the call
  permits,  \* permits in the rate limiter
  gated,    \* permits taken out of it
  ticks,    \* intervals since it was created
  sent,     \* requests sent since then
  spent     \* how much of each bound is used up

callVars == <<texts, out, upto, single>>
rateVars == <<permits, gated, ticks>>
vars     == <<provider, pc, callVars, attempt, alone, rateVars, sent, spent>>

MaxRetries == IF provider = "http" THEN 4 ELSE 3

\* RateLimiter::new starts full, with at least one permit.
Cap == IF Qpm = 0 THEN 1 ELSE Qpm

\* Ollama's semaphore has at least one permit.
Concurrency == IF provider = "ollama" /\ MaxConcurrent = 0 THEN 1 ELSE MaxConcurrent

NoFailures == [retried |-> 0, final |-> 0]

Init ==
  /\ provider \in Providers
  /\ pc = "idle"
  /\ texts = <<>> /\ out = <<>> /\ upto = 0 /\ single = FALSE
  /\ attempt = 0 /\ alone = NoFailures
  /\ permits = Cap /\ gated = 0 /\ ticks = 0
  /\ sent = 0
  /\ spent = [calls |-> 0, faults |-> 0, denied |-> 0, garbled |-> 0]

Spend(what) == spent' = [spent EXCEPT ![what] = @ + 1]

-----------------------------------------------------------------------------
(* encode_batch *)

Encode(ts) ==
  /\ pc = "idle"
  /\ spent.calls < MaxCalls
  /\ pc' = "next"
  /\ texts' = ts /\ out' = <<>> /\ upto' = 0 /\ single' = FALSE
  /\ alone' = NoFailures
  /\ Spend("calls")
  /\ UNCHANGED <<provider, attempt, rateVars, sent>>

\* for chunk in prepared.chunks(self.batch_size)
NextBatch ==
  /\ pc = "next"
  /\ Len(out) = upto /\ upto < Len(texts)
  /\ upto' = IF upto + BatchSize < Len(texts) THEN upto + BatchSize ELSE Len(texts)
  /\ single' = FALSE
  /\ pc' = "gate"
  /\ UNCHANGED <<texts, out, attempt, alone, rateVars, sent, spent>>

\* for input in chunk, after the batch has failed
NextInput ==
  /\ pc = "next"
  /\ Len(out) < upto
  /\ pc' = "gate"
  /\ UNCHANGED <<callVars, attempt, alone, rateVars, sent, spent>>

Return ==
  /\ pc = "next"
  /\ Len(out) = Len(texts)
  /\ pc' = "returned"
  /\ UNCHANGED <<callVars, attempt, alone, rateVars, sent, spent>>

\* The caller takes the result, the vectors or the error.
Done ==
  /\ pc \in {"returned", "failed"}
  /\ pc' = "idle"
  /\ texts' = <<>> /\ out' = <<>> /\ upto' = 0 /\ single' = FALSE
  /\ UNCHANGED <<attempt, alone, rateVars, sent, spent>>

\* The inputs of the request at hand.
Batch == SubSeq(texts, Len(out) + 1, IF single THEN Len(out) + 1 ELSE upto)

-----------------------------------------------------------------------------
(* one_batch *)

\* Mutant: the one-by-one fallback goes around the rate limiter.
Gate_FreeFallback ==
  /\ pc = "gate"
  /\ IF provider = "http" /\ ~single
     THEN permits > 0 /\ permits' = permits - 1 /\ gated' = gated + 1
     ELSE UNCHANGED <<permits, gated>>
  /\ pc' = "permit"
  /\ attempt' = 0
  /\ UNCHANGED <<callVars, alone, ticks, sent, spent>>

\* Mutant: a permit is taken without waiting for one.
Gate_NoWait ==
  /\ pc = "gate"
  /\ IF provider = "http"
     THEN permits' = permits - 1 /\ gated' = gated + 1
     ELSE UNCHANGED <<permits, gated>>
  /\ pc' = "permit"
  /\ attempt' = 0
  /\ UNCHANGED <<callVars, alone, ticks, sent, spent>>

\* self.qpm_gate.acquire().await, once per call and not per request
Gate ==
  /\ pc = "gate"
  /\ IF provider = "http"
     THEN permits > 0 /\ permits' = permits - 1 /\ gated' = gated + 1
     ELSE UNCHANGED <<permits, gated>>
  /\ pc' = "permit"
  /\ attempt' = 0
  /\ UNCHANGED <<callVars, alone, ticks, sent, spent>>

\* self.sem.acquire().await
Permit ==
  /\ pc = "permit"
  /\ Concurrency > 0
  /\ pc' = "send"
  /\ UNCHANGED <<callVars, attempt, alone, rateVars, sent, spent>>

Send ==
  /\ pc = "send"
  /\ sent' = sent + 1
  /\ pc' = "reply"
  /\ UNCHANGED <<callVars, attempt, alone, rateVars, spent>>

\* one_batch returned an error.
OneFailed ==
  /\ out' = IF single THEN Append(out, Zero) ELSE out
  /\ single' = TRUE
  /\ pc' = "next"
  /\ UNCHANGED <<texts, upto>>

\* one_batch returned vectors, of which there should be one per input.
OneReturned(vs) ==
  IF Len(vs) = Len(Batch)
  THEN /\ out' = out \o vs
       /\ pc' = "next"
       /\ UNCHANGED <<texts, upto, single>>
  ELSE IF provider = "http" /\ ~single
       THEN pc' = "failed" /\ UNCHANGED callVars
       ELSE OneFailed

\* An honest service answers with every vector once: in the order of the
\* inputs, without an `index` (0 by default), or in any order with it.
Answers(b) ==
  {[k \in DOMAIN b |-> [index |-> 0, of |-> b[k]]]} \cup
  {[k \in DOMAIN b |-> [index |-> p[k] - 1, of |-> b[p[k]]]] :
     p \in {q \in [DOMAIN b -> DOMAIN b] : provider = "http" /\ {q[i] : i \in DOMAIN b} = DOMAIN b}}

\* Mutant: the items are taken in the order of the answer.
IntoVectors_Unsorted(items) == [n \in DOMAIN items |-> items[n].of]

\* items.sort_by_key(|i| i.index), which is stable
Before(items, j, k) ==
  items[j].index < items[k].index \/ (items[j].index = items[k].index /\ j <= k)

IntoVectors(items) ==
  [n \in DOMAIN items |->
     items[CHOOSE k \in DOMAIN items :
             Cardinality({j \in DOMAIN items : Before(items, j, k)}) = n].of]

\* Status 2xx, and a body with a vector of the right width per input.
Answered ==
  /\ pc = "reply"
  /\ \A i \in DOMAIN Batch : Batch[i] \notin Rotten
  /\ \E items \in Answers(Batch) : OneReturned(IntoVectors(items))
  /\ UNCHANGED <<attempt, alone, rateVars, sent, spent>>

Fails(how) == alone' = IF single THEN [alone EXCEPT ![how] = @ + 1] ELSE alone

\* A status that is not retried, for what the input is.
Refused ==
  /\ pc = "reply"
  /\ \E i \in DOMAIN Batch : Batch[i] \in Rotten
  /\ OneFailed
  /\ UNCHANGED <<attempt, alone, rateVars, sent, spent>>

\* Status 2xx, but a vector is missing, or has another width, or the body
\* does not parse.
Garbled ==
  /\ pc = "reply"
  /\ spent.garbled < MaxGarbled
  /\ Spend("garbled") /\ Fails("final")
  /\ OneReturned(SubSeq(Batch, 2, Len(Batch))) \/ OneFailed
  /\ UNCHANGED <<attempt, rateVars, sent>>

\* How a request may end whatever its inputs are: without an answer, such as
\* at a timeout, or with a status.
Outcomes == {"network", "5xx", "408", "429", "4xx"}

IsRetryable(outcome) ==
  outcome \in {"network", "5xx", "408"} \/ (outcome = "429" /\ provider = "http")

\* Mutant: the loop is `0..MAX_RETRIES`.
Fault_OffByOne(outcome) ==
  /\ pc = "reply" /\ IsRetryable(outcome)
  /\ spent.faults < MaxFaults
  /\ Spend("faults") /\ Fails("retried")
  /\ IF attempt + 1 < MaxRetries
     THEN attempt' = attempt + 1 /\ pc' = "send" /\ UNCHANGED callVars
     ELSE attempt' = attempt /\ OneFailed
  /\ UNCHANGED <<rateVars, sent>>

\* Sleep and send again, or give up.
Fault(outcome) ==
  /\ pc = "reply" /\ IsRetryable(outcome)
  /\ spent.faults < MaxFaults
  /\ Spend("faults") /\ Fails("retried")
  /\ IF attempt < MaxRetries
     THEN attempt' = attempt + 1 /\ pc' = "send" /\ UNCHANGED callVars
     ELSE attempt' = attempt /\ OneFailed
  /\ UNCHANGED <<rateVars, sent>>

\* A status that is not retried, whatever the input is.
Denied(outcome) ==
  /\ pc = "reply" /\ ~IsRetryable(outcome)
  /\ spent.denied < MaxDenied
  /\ Spend("denied") /\ Fails("final")
  /\ OneFailed
  /\ UNCHANGED <<attempt, rateVars, sent>>

\* Mutant: the spawned task does not loop.
Tick_Once ==
  /\ provider = "http"
  /\ ticks < MaxTicks /\ ticks = 0
  /\ ticks' = ticks + 1
  /\ permits' = permits + 1
  /\ UNCHANGED <<provider, pc, callVars, attempt, alone, gated, sent, spent>>

\* The task spawned by RateLimiter::new: sleep(interval), add_permits(1).
Tick ==
  /\ provider = "http"
  /\ ticks < MaxTicks
  /\ ticks' = ticks + 1
  /\ permits' = permits + 1
  /\ UNCHANGED <<provider, pc, callVars, attempt, alone, gated, sent, spent>>

Inputs == UNION {[1..n -> Text] : n \in 0..MaxTexts}

Run ==
  /\ \/ NextBatch \/ NextInput \/ Return \/ Done
     \/ Gate \/ Permit \/ Send
     \/ Answered \/ Refused \/ Garbled
     \/ \E outcome \in Outcomes : Fault(outcome) \/ Denied(outcome)
  /\ UNCHANGED provider

Next ==
  \/ \E ts \in Inputs : Encode(ts)
  \/ Run
  \/ Tick

Spec == Init /\ [][Next]_vars

\* The runtime polls the caller and the limiter's task, and a request ends
\* after `request_timeout_ms` at the latest.
FairSpec == Spec /\ WF_vars(Run) /\ WF_vars(Tick)

-----------------------------------------------------------------------------
(* Properties. *)

\* The types of the call, of the limiter and of the counters.
TypeOK ==
  /\ provider \in Providers
  /\ pc \in {"idle", "next", "gate", "permit", "send", "reply", "returned", "failed"}
  /\ texts \in Seq(Text) /\ out \in Seq(Text \cup {Zero})
  /\ upto \in 0..Len(texts) /\ Len(out) \in 0..Len(texts)
  /\ single \in BOOLEAN
  /\ attempt \in 0..MaxRetries
  /\ alone \in [retried : Nat, final : Nat]
  /\ permits \in Nat /\ gated \in Nat /\ ticks \in 0..MaxTicks /\ sent \in Nat
  /\ spent \in [calls : 0..MaxCalls, faults : 0..MaxFaults, denied : 0..MaxDenied,
                garbled : 0..MaxGarbled]

\* The caller zips the result with its chunk ids: through batches, fallback,
\* answers in any order and answers of a wrong shape, the n-th vector is that
\* of the n-th input or zero, and a result is complete.
Aligned ==
  /\ \A n \in DOMAIN out : out[n] \in {texts[n], Zero}
  /\ pc = "returned" => Len(out) = Len(texts)

\* "good inputs in this batch still get vectors": whatever happens to a batch
\* costs no vector.  An input that the service does not refuse goes without
\* only when the request for it alone failed: once with a status that is not
\* retried or a bad answer, or MAX_RETRIES + 1 times otherwise; and no failure
\* counts for two inputs.
Lost == {n \in DOMAIN out : out[n] = Zero /\ texts[n] \notin Rotten}

GoodInputsGetVectors ==
  Cardinality(Lost) * (MaxRetries + 1) <= alone.retried + (MaxRetries + 1) * alone.final

\* A permit pays for MAX_RETRIES + 1 requests, and permits are those the
\* limiter started with and one per interval: retries, fallbacks and errors
\* never get a request past it otherwise.
RateBounded == provider = "http" => sent <= (MaxRetries + 1) * (Cap + ticks)

\* Every call of encode_batch returns, whatever the service answers.
CallsReturn == pc # "idle" ~> pc = "idle"

=============================================================================
