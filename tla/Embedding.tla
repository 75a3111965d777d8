------------------------------ MODULE Embedding ------------------------------
(***************************************************************************)
(* How one indexing job asks the provider for embeddings                   *)
(* (embed_changed_chunks_with_pacer of crates/okf/src/voyage.rs): batch by *)
(* batch, at a pace that keeps requests and tokens of a minute within the  *)
(* configured limits, and with one retry when the provider wants less.     *)
(* Before that a plan (TokenPlan) tells people what it is going to cost.   *)
(***************************************************************************)
EXTENDS Integers, Sequences

CONSTANTS
  Configs,    \* of a client: batch size, and tokens and requests per minute
  Changed,    \* the chunks that need an embedding: how many there are, and the
              \* running total of their estimated tokens
  Minute,     \* in ticks of the clock
  MaxTime     \* when the model ends

\* VoyageConfig: nothing that is configured is less than one.
Config == [batch : Nat \ {0}, tpm : Nat \ {0}, rpm : Nat \ {0}]

ASSUME EmbeddingConstants ==
  /\ Configs \subseteq Config
  /\ \A c \in Changed :
       /\ c.count \in Nat /\ c.upto \in [0..c.count -> Nat] /\ c.upto[0] = 0
       /\ \A i, j \in 0..c.count : i <= j => c.upto[i] <= c.upto[j]
  /\ Minute \in Nat \ {0} /\ MaxTime \in Nat

VARIABLES
  config,  \* one of Configs
  chunks,  \* one of Changed
  done,    \* how many of them have their embedding
  at,      \* what comes next, or how it ended
  window,  \* RateLimitWindow: what was counted since the last pause
  now,     \* the clock
  \* history
  pauses,  \* pauses that the window asked for
  spent,   \* what was answered
  sent     \* the requests, each with the tokens of those before it

embedVars == <<config, chunks, done, at, window, now, pauses, spent, sent>>

NoCost == [requests |-> 0, tokens |-> 0]
Plus(cost, n) == [requests |-> cost.requests + 1, tokens |-> cost.tokens + n]
Least(m, n) == IF m < n THEN m ELSE n

EmbedInit ==
  /\ config \in Configs /\ chunks \in Changed
  /\ done = 0
  /\ at = "batch"
  /\ window = NoCost
  /\ now = 0
  /\ pauses = 0 /\ spent = NoCost /\ sent = <<>>

\* The next batch, from done to here, and its tokens.
BatchEnd == Least(done + config.batch, chunks.count)
BatchTokens == chunks.upto[BatchEnd] - chunks.upto[done]

\* A mutant: a last batch that is not full is not counted.
PlanFull ==
  [requests |-> chunks.count \div config.batch, tokens |-> chunks.upto[chunks.count]]

\* TokenPlan::from_chunks and within_limits.
Plan ==
  [requests |-> (chunks.count + config.batch - 1) \div config.batch,
   tokens |-> chunks.upto[chunks.count]]

WithinLimits == Plan.tokens <= config.tpm /\ Plan.requests <= config.rpm

\* A mutant: the window is looked at after the limit was passed.
WouldExceedLate ==
  \/ window.requests > config.rpm
  \/ window.tokens > config.tpm

WouldExceed ==
  \/ window.requests + 1 > config.rpm
  \/ window.tokens + BatchTokens > config.tpm

\* A minute passes and the window starts again.
Wait == now' = now + Minute /\ window' = NoCost

\* The next batch: too large for any minute, to be paused for, or to be sent.
NextBatch ==
  /\ at = "batch" /\ done < chunks.count
  /\ IF BatchTokens > config.tpm THEN at' = "too large" /\ UNCHANGED <<window, pauses, now>>
     ELSE IF WouldExceed THEN at' = "send" /\ Wait /\ pauses' = pauses + 1
     ELSE at' = "send" /\ UNCHANGED <<window, pauses, now>>
  /\ UNCHANGED <<config, chunks, done, spent, sent>>

Asked == IF sent = <<>> THEN 0 ELSE sent[Len(sent)].before + sent[Len(sent)].tokens
Request == sent' = Append(sent, [time |-> now, before |-> Asked, tokens |-> BatchTokens])

Answered ==
  /\ at \in {"send", "resend"}
  /\ Request
  /\ window' = Plus(window, BatchTokens) /\ spent' = Plus(spent, BatchTokens)
  /\ done' = BatchEnd /\ at' = "batch"
  /\ UNCHANGED <<config, chunks, pauses, now>>

\* 429 once: the minute is waited for and the batch is sent again.
TooMany ==
  /\ at = "send"
  /\ Request
  /\ Wait /\ at' = "resend"
  /\ UNCHANGED <<config, chunks, done, pauses, spent>>

\* Any other failure, or vectors that do not fit, end the job.
Rejected ==
  /\ at \in {"send", "resend"}
  /\ Request
  /\ at' = "failed"
  /\ UNCHANGED <<config, chunks, done, window, now, pauses, spent>>

Finish ==
  /\ at = "batch" /\ done = chunks.count
  /\ at' = "success"
  /\ UNCHANGED <<config, chunks, done, window, now, pauses, spent, sent>>

Ticks ==
  /\ now < MaxTime /\ now' = now + 1
  /\ UNCHANGED <<config, chunks, done, at, window, pauses, spent, sent>>

EmbedNext == NextBatch \/ Answered \/ TooMany \/ Rejected \/ Finish \/ Ticks

EmbedSpec == EmbedInit /\ [][EmbedNext]_embedVars
-----------------------------------------------------------------------------
(* No minute, wherever it begins, holds more requests or more tokens than  *)
(* the client was configured for, rejected requests and retries included:  *)
(* the pace of embed_changed_chunks_with_pacer.                            *)
PaceKept ==
  \A i, j \in 1..Len(sent) :
    j <= i /\ sent[i].time < sent[j].time + Minute =>
      /\ i - j + 1 <= config.rpm
      /\ sent[i].before + sent[i].tokens - sent[j].before <= config.tpm

(* What people were told before (TokenPlan) is what it costs: a job that   *)
(* succeeds needed the planned requests and tokens, and one whose plan is  *)
(* within the limits never pauses for them and never has too large a batch.*)
PlanIsTrue ==
  /\ at = "success" => Plan = spent
  /\ WithinLimits => pauses = 0 /\ at # "too large"
=============================================================================
