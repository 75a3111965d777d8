--------------------------- MODULE EmbeddingProofs ---------------------------
(***************************************************************************)
(* The provider's limits are kept and the plan is what a job costs: for    *)
(* every configuration of the client, every number and size of chunks, and *)
(* every answer and delay of the provider.                                 *)
(***************************************************************************)
EXTENDS Embedding, TLAPS

Costs == [requests : Nat, tokens : Nat]
Asking == [time : Nat, before : Nat, tokens : Nat]

TypeOK ==
  /\ config \in Configs /\ chunks \in Changed
  /\ done \in 0..chunks.count
  /\ at \in {"batch", "send", "resend", "success", "failed", "too large"}
  /\ window \in Costs /\ spent \in Costs
  /\ now \in Nat /\ pauses \in Nat
  /\ sent \in Seq(Asking)

\* What is about to be sent has room in the window, and the clock is not
\* behind any request.
Room ==
  at \in {"send", "resend"} =>
    /\ done < chunks.count
    /\ window.requests + 1 <= config.rpm /\ window.tokens + BatchTokens <= config.tpm

\* A request is a minute old or counted by the window, with all that follow it.
Counted ==
  \A j \in 1..Len(sent) :
    /\ sent[j].time <= now
    /\ at # "failed" /\ now < sent[j].time + Minute =>
         /\ Len(sent) - j + 1 <= window.requests
         /\ Asked - sent[j].before <= window.tokens

\* All batches before the last one were full.
Full ==
  /\ done = chunks.count \/ done = spent.requests * config.batch
  /\ spent.requests = 0 \/ (spent.requests - 1) * config.batch < chunks.count
  /\ done <= spent.requests * config.batch
  /\ spent.tokens = chunks.upto[done]

\* The window counts only what was answered; what is planned has room.
Planned ==
  /\ window.requests <= spent.requests /\ window.tokens <= spent.tokens
  /\ at = "success" => done = chunks.count
  /\ WithinLimits => pauses = 0 /\ at # "too large"

EmbedInv == TypeOK /\ Room /\ Counted /\ PaceKept /\ Full /\ Planned
-----------------------------------------------------------------------------
(* What the constants are, and what a batch is of them.                    *)

LEMMA Configured ==
  ASSUME TypeOK
  PROVE  /\ config.batch \in Nat \ {0} /\ config.tpm \in Nat \ {0} /\ config.rpm \in Nat \ {0}
         /\ chunks.count \in Nat /\ chunks.upto[0] = 0
         /\ \A i \in 0..chunks.count : chunks.upto[i] \in Nat
         /\ \A i, j \in 0..chunks.count : i <= j => chunks.upto[i] <= chunks.upto[j]
<1>1. config \in Config
  BY EmbeddingConstants DEF TypeOK
<1>2. chunks \in Changed
  BY DEF TypeOK
<1>3. /\ chunks.count \in Nat /\ chunks.upto \in [0..chunks.count -> Nat] /\ chunks.upto[0] = 0
      /\ \A i, j \in 0..chunks.count : i <= j => chunks.upto[i] <= chunks.upto[j]
  BY <1>2, EmbeddingConstants
<1>4. QED
  BY <1>1, <1>3 DEF Config

LEMMA BatchIs ==
  ASSUME TypeOK
  PROVE  /\ BatchEnd \in 0..chunks.count /\ done <= BatchEnd
         /\ BatchEnd = chunks.count \/ BatchEnd = done + config.batch
         /\ BatchEnd <= done + config.batch
         /\ done < chunks.count => done < BatchEnd
         /\ BatchTokens \in Nat
         /\ chunks.upto[BatchEnd] = chunks.upto[done] + BatchTokens
         /\ chunks.upto[done] \in Nat /\ chunks.upto[BatchEnd] <= chunks.upto[chunks.count]
<1>1. done \in 0..chunks.count /\ chunks.count \in Nat /\ config.batch \in Nat \ {0}
  BY Configured DEF TypeOK
<1>2. /\ BatchEnd \in 0..chunks.count /\ done <= BatchEnd
      /\ BatchEnd = chunks.count \/ BatchEnd = done + config.batch
      /\ BatchEnd <= done + config.batch
      /\ done < chunks.count => done < BatchEnd
  BY <1>1 DEF BatchEnd, Least
<1>3. /\ chunks.upto[done] \in Nat /\ chunks.upto[BatchEnd] \in Nat
      /\ chunks.upto[done] <= chunks.upto[BatchEnd]
      /\ chunks.upto[BatchEnd] <= chunks.upto[chunks.count]
  BY <1>1, <1>2, Configured
<1>4. BatchTokens \in Nat /\ chunks.upto[BatchEnd] = chunks.upto[done] + BatchTokens
  BY <1>3 DEF BatchTokens
<1>5. QED
  BY <1>2, <1>3, <1>4

\* How many batches of b there are to n chunks, the last one not full perhaps.
LEMMA NextBatchMultiple == \A r, b \in Nat : (r + 1) * b = r * b + b
  BY SMT

LEMMA BatchesNeeded ==
  ASSUME NEW n \in Nat, NEW b \in Nat \ {0}, NEW r \in Nat,
         n <= r * b, r = 0 \/ (r - 1) * b < n
  PROVE  (n + b - 1) \div b = r
<1> DEFINE q == (n + b - 1) \div b
<1>1. q \in Nat /\ q * b <= n + b - 1 /\ n + b - 1 < (q + 1) * b
  BY SMT
<1>2. QED
  BY <1>1, SMT

LEMMA MoreBatchesNeeded ==
  ASSUME NEW n \in Nat, NEW b \in Nat \ {0}, NEW r \in Nat, r * b < n
  PROVE  r + 1 <= (n + b - 1) \div b
<1> DEFINE q == (n + b - 1) \div b
<1>1. q \in Nat /\ n + b - 1 < (q + 1) * b
  BY SMT
<1>2. QED
  BY <1>1, SMT
-----------------------------------------------------------------------------
(* A request, whatever is answered: it is within every minute it is in.    *)

LEMMA SentIs ==
  ASSUME TypeOK
  PROVE  /\ Asked \in Nat /\ Len(sent) \in Nat
         /\ \A j \in 1..Len(sent) :
              sent[j].time \in Nat /\ sent[j].before \in Nat /\ sent[j].tokens \in Nat
<1> DEFINE A == Asking
<1>1. sent \in Seq(A)
  BY DEF TypeOK
<1> HIDE DEF A
<1>2. Len(sent) \in Nat
  BY <1>1
<1>3. \A j \in 1..Len(sent) : sent[j] \in A
  BY <1>1
<1>4. \A j \in 1..Len(sent) :
        sent[j].time \in Nat /\ sent[j].before \in Nat /\ sent[j].tokens \in Nat
  BY <1>3 DEF A, Asking
<1>5. sent # <<>> => Len(sent) \in 1..Len(sent)
  BY <1>1
<1>6. Asked \in Nat
  BY <1>4, <1>5 DEF Asked
<1>7. QED
  BY <1>2, <1>4, <1>6

LEMMA Requested ==
  ASSUME TypeOK, Room, Counted, PaceKept, at \in {"send", "resend"}, Request, config' = config
  PROVE  /\ sent' \in Seq(Asking) /\ Len(sent') = Len(sent) + 1
         /\ \A j \in 1..Len(sent) : sent'[j] = sent[j]
         /\ sent'[Len(sent) + 1].time = now /\ sent'[Len(sent) + 1].before = Asked
         /\ Asked' = Asked + BatchTokens
         /\ PaceKept'
<1> DEFINE new == [time |-> now, before |-> Asked, tokens |-> BatchTokens]
           k == Len(sent)
<1>1. /\ Asked \in Nat /\ BatchTokens \in Nat /\ now \in Nat /\ k \in Nat
      /\ sent \in Seq(Asking)
  BY SentIs, BatchIs DEF TypeOK
<1>2. new \in Asking /\ new.time = now /\ new.before = Asked /\ new.tokens = BatchTokens
  BY <1>1 DEF Asking
<1>3. sent' = Append(sent, new)
  BY DEF Request
<1> HIDE DEF new
<1>4. /\ sent' \in Seq(Asking) /\ Len(sent') = k + 1
      /\ \A j \in 1..k : sent'[j] = sent[j]
      /\ sent'[k + 1] = new
  BY <1>1, <1>2, <1>3
<1>5. Asked' = Asked + BatchTokens
  <2>1. sent' # <<>> /\ sent'[Len(sent')] = new
    BY <1>1, <1>4
  <2>2. QED
    BY <1>2, <2>1 DEF Asked
<1>6. /\ config.rpm \in Nat \ {0} /\ config.tpm \in Nat \ {0}
      /\ window.requests \in Nat /\ window.tokens \in Nat
      /\ window.requests + 1 <= config.rpm /\ window.tokens + BatchTokens <= config.tpm
  BY Configured DEF TypeOK, Costs, Room
<1>7. ASSUME NEW i \in 1..(k + 1), NEW j \in 1..(k + 1), j <= i,
             sent'[i].time < sent'[j].time + Minute
      PROVE  /\ i - j + 1 <= config.rpm
             /\ sent'[i].before + sent'[i].tokens - sent'[j].before <= config.tpm
  <2>1. CASE i \in 1..k
    <3>1. j \in 1..k
      BY <1>1, <1>7, <2>1
    <3>2. QED
      BY <1>4, <1>7, <2>1, <3>1 DEF PaceKept
  <2>2. CASE i = k + 1 /\ j \in 1..k
    <3>1. now < sent[j].time + Minute
      BY <1>2, <1>4, <1>7, <2>2
    <3>2. k - j + 1 <= window.requests /\ Asked - sent[j].before <= window.tokens
      BY <2>2, <3>1 DEF Counted
    <3>3. sent[j].before \in Nat
      BY <2>2, SentIs
    <3>4. i - j + 1 <= config.rpm
      BY <1>1, <1>6, <2>2, <3>2
    <3>5. sent'[i].before + sent'[i].tokens - sent'[j].before = Asked + BatchTokens - sent[j].before
      BY <1>2, <1>4, <2>2
    <3>6. Asked + BatchTokens - sent[j].before <= config.tpm
      <4>1. \A a, b, t, w, m \in Int : a - b <= w /\ w + t <= m => a + t - b <= m
        OBVIOUS
      <4>2. /\ Asked \in Int /\ sent[j].before \in Int /\ BatchTokens \in Int
            /\ window.tokens \in Int /\ config.tpm \in Int
        BY <1>1, <1>6, <3>3
      <4>3. QED
        BY <1>6, <3>2, <4>1, <4>2
    <3>7. QED
      BY <3>4, <3>5, <3>6
  <2>3. CASE i = k + 1 /\ j = k + 1
    <3>1. sent'[i].before + sent'[i].tokens - sent'[j].before = Asked + BatchTokens - Asked
      BY <1>2, <1>4, <2>3
    <3>2. QED
      BY <1>1, <1>6, <2>3, <3>1
  <2>4. QED
    BY <1>1, <2>1, <2>2, <2>3
<1>8. PaceKept'
  BY <1>4, <1>7 DEF PaceKept
<1>9. QED
  BY <1>2, <1>4, <1>5, <1>8

\* After a pause nothing that was sent is younger than a minute.
LEMMA Waited ==
  ASSUME TypeOK, Counted, Wait
  PROVE  /\ now' \in Nat /\ window' \in Costs /\ window'.requests = 0 /\ window'.tokens = 0
         /\ now <= now'
         /\ \A j \in 1..Len(sent) : sent[j].time + Minute <= now'
<1>1. now \in Nat /\ Minute \in Nat \ {0} /\ now' = now + Minute
  BY EmbeddingConstants DEF TypeOK, Wait
<1>2. \A j \in 1..Len(sent) : sent[j].time \in Nat /\ sent[j].time <= now
  BY SentIs DEF Counted
<1>3. window' = NoCost
  BY DEF Wait
<1>4. window' \in Costs /\ window'.requests = 0 /\ window'.tokens = 0
  BY <1>3 DEF NoCost, Costs
<1>5. QED
  BY <1>1, <1>2, <1>4
-----------------------------------------------------------------------------
(* One lemma for each step.                                                *)

LEMMA EmbedStart == EmbedInit => EmbedInv
<1> SUFFICES ASSUME EmbedInit
             PROVE  EmbedInv
  OBVIOUS
<1>1. chunks.count \in Nat /\ chunks.upto[0] = 0
  BY EmbeddingConstants DEF EmbedInit
<1>2. window \in Costs /\ spent \in Costs /\ spent.requests = 0 /\ spent.tokens = 0 /\ window = spent
  BY DEF EmbedInit, NoCost, Costs
<1>3. TypeOK
  BY <1>1, <1>2 DEF EmbedInit, TypeOK
<1>4. config.batch \in Nat
  BY <1>3, Configured
<1>5. Full /\ Planned /\ Room
  BY <1>1, <1>2, <1>4 DEF EmbedInit, Full, Planned, Room
<1>6. Counted /\ PaceKept
  BY DEF EmbedInit, Counted, PaceKept
<1>7. QED
  BY <1>3, <1>5, <1>6 DEF EmbedInv

\* A job whose plan is within the limits has room for its next batch.
LEMMA RoomAsPlanned ==
  ASSUME TypeOK, Full, Planned, WithinLimits, done < chunks.count
  PROVE  ~WouldExceed /\ BatchTokens <= config.tpm
<1> DEFINE r == spent.requests
<1>1. /\ config.batch \in Nat \ {0} /\ config.tpm \in Nat /\ config.rpm \in Nat
      /\ chunks.count \in Nat /\ r \in Nat /\ spent.tokens \in Nat
      /\ window.requests \in Nat /\ window.tokens \in Nat
  BY Configured DEF TypeOK, Costs
<1>2. r * config.batch < chunks.count
  <2>1. done # chunks.count
    <3>1. done \in 0..chunks.count
      BY DEF TypeOK
    <3>2. QED
      BY <1>1, <3>1
  <2>2. QED
    BY <2>1 DEF Full
<1>3. r + 1 <= (chunks.count + config.batch - 1) \div config.batch
  <2> HIDE DEF r
  <2>1. QED
    BY <1>1, <1>2, MoreBatchesNeeded
<1>4. r + 1 <= config.rpm
  <2>1. (chunks.count + config.batch - 1) \div config.batch <= config.rpm
    BY DEF WithinLimits, Plan
  <2>2. (chunks.count + config.batch - 1) \div config.batch \in Int
    BY <1>1
  <2>3. QED
    BY <1>1, <1>3, <2>1, <2>2
<1>5. spent.tokens + BatchTokens <= config.tpm /\ BatchTokens \in Nat
  <2>1. /\ spent.tokens + BatchTokens = chunks.upto[BatchEnd] /\ BatchTokens \in Nat
        /\ chunks.upto[BatchEnd] <= chunks.upto[chunks.count]
    BY BatchIs DEF Full
  <2>2. chunks.upto[chunks.count] <= config.tpm
    BY DEF WithinLimits, Plan
  <2>3. chunks.upto[chunks.count] \in Nat
    BY <1>1, Configured
  <2>4. QED
    BY <1>1, <2>1, <2>2, <2>3
<1>6. window.requests <= r /\ window.tokens <= spent.tokens
  BY DEF Planned
<1>7. window.requests + 1 <= config.rpm /\ window.tokens + BatchTokens <= config.tpm
  BY <1>1, <1>4, <1>5, <1>6
<1>8. BatchTokens <= config.tpm
  BY <1>1, <1>5
<1>9. QED
  BY <1>1, <1>5, <1>7, <1>8 DEF WouldExceed

LEMMA PlusIs ==
  ASSUME NEW c \in Costs, NEW n \in Nat
  PROVE  /\ Plus(c, n) \in Costs
         /\ Plus(c, n).requests = c.requests + 1 /\ Plus(c, n).tokens = c.tokens + n
<1>1. c.requests \in Nat /\ c.tokens \in Nat
  BY DEF Costs
<1>2. c.requests + 1 \in Nat /\ c.tokens + n \in Nat
  BY <1>1
<1>3. QED
  BY <1>2 DEF Plus, Costs

LEMMA NextBatchKeeps ==
  ASSUME EmbedInv, NextBatch
  PROVE  EmbedInv'
<1>1. TypeOK /\ Room /\ Counted /\ PaceKept /\ Full /\ Planned
  BY DEF EmbedInv
<1>2. /\ at = "batch" /\ done < chunks.count
      /\ config' = config /\ chunks' = chunks /\ done' = done /\ spent' = spent /\ sent' = sent
  BY DEF NextBatch
<1>3. PaceKept' /\ Full'
  BY <1>1, <1>2 DEF PaceKept, Full
<1>4. WithinLimits' = WithinLimits /\ BatchTokens' = BatchTokens /\ Asked' = Asked
  BY <1>2 DEF WithinLimits, Plan, BatchTokens, BatchEnd, Asked
<1>5. WithinLimits => ~WouldExceed /\ BatchTokens <= config.tpm
  BY <1>1, <1>2, RoomAsPlanned
<1>6. /\ BatchTokens \in Nat /\ config.tpm \in Nat \ {0} /\ config.rpm \in Nat \ {0}
      /\ window.requests \in Nat /\ window.tokens \in Nat
      /\ spent.requests \in Nat /\ spent.tokens \in Nat
  BY <1>1, BatchIs, Configured DEF TypeOK, Costs
<1>7. CASE BatchTokens > config.tpm
  <2>1. at' = "too large" /\ window' = window /\ pauses' = pauses /\ now' = now
    BY <1>7 DEF NextBatch
  <2>2. TypeOK' /\ Room' /\ Counted'
    BY <1>1, <1>2, <1>4, <2>1 DEF TypeOK, Room, Counted
  <2>3. ~WithinLimits
    BY <1>5, <1>6, <1>7
  <2>4. Planned'
    BY <1>1, <1>2, <1>4, <2>1, <2>3 DEF Planned
  <2>5. QED
    BY <1>3, <2>2, <2>4 DEF EmbedInv
<1>8. CASE ~(BatchTokens > config.tpm) /\ WouldExceed
  <2>1. at' = "send" /\ Wait /\ pauses' = pauses + 1
    BY <1>8 DEF NextBatch
  <2>2. /\ now' \in Nat /\ window' \in Costs /\ window'.requests = 0 /\ window'.tokens = 0
        /\ now <= now' /\ \A j \in 1..Len(sent) : sent[j].time + Minute <= now'
    BY <1>1, <2>1, Waited
  <2>3. pauses' \in Nat
    <3>1. pauses \in Nat
      BY <1>1 DEF TypeOK
    <3>2. QED
      BY <2>1, <3>1
  <2>4. TypeOK'
    BY <1>1, <1>2, <2>1, <2>2, <2>3 DEF TypeOK
  <2>5. Room'
    <3>1. 0 + 1 <= config.rpm /\ 0 + BatchTokens <= config.tpm
      BY <1>6, <1>8
    <3>2. QED
      BY <1>2, <1>4, <2>2, <3>1 DEF Room
  <2>6. Counted'
    <3>1. \A j \in 1..Len(sent) : sent[j].time <= now' /\ ~(now' < sent[j].time + Minute)
      BY <1>1, <2>2, SentIs, EmbeddingConstants
    <3>2. QED
      BY <1>2, <3>1 DEF Counted
  <2>7. Planned'
    <3>1. ~WithinLimits
      BY <1>5, <1>8
    <3>2. 0 <= spent.requests /\ 0 <= spent.tokens
      BY <1>6
    <3>3. QED
      BY <1>2, <1>4, <2>1, <2>2, <3>1, <3>2 DEF Planned
  <2>8. QED
    BY <1>3, <2>4, <2>5, <2>6, <2>7 DEF EmbedInv
<1>9. CASE ~(BatchTokens > config.tpm) /\ ~WouldExceed
  <2>1. at' = "send" /\ window' = window /\ pauses' = pauses /\ now' = now
    BY <1>9 DEF NextBatch
  <2>2. TypeOK' /\ Counted'
    BY <1>1, <1>2, <1>4, <2>1 DEF TypeOK, Counted
  <2>3. Room'
    <3>1. window.requests + 1 <= config.rpm /\ window.tokens + BatchTokens <= config.tpm
      BY <1>6, <1>9 DEF WouldExceed
    <3>2. QED
      BY <1>2, <1>4, <2>1, <3>1 DEF Room
  <2>4. Planned'
    BY <1>1, <1>2, <1>4, <2>1 DEF Planned
  <2>5. QED
    BY <1>3, <2>2, <2>3, <2>4 DEF EmbedInv
<1>10. QED
  BY <1>7, <1>8, <1>9

LEMMA AnsweredKeeps ==
  ASSUME EmbedInv, Answered
  PROVE  EmbedInv'
<1> DEFINE T == BatchTokens
           r == spent.requests
           k == Len(sent)
<1>1. TypeOK /\ Room /\ Counted /\ PaceKept /\ Full /\ Planned
  BY DEF EmbedInv
<1>2. /\ at \in {"send", "resend"} /\ Request
      /\ window' = Plus(window, T) /\ spent' = Plus(spent, T)
      /\ done' = BatchEnd /\ at' = "batch"
      /\ config' = config /\ chunks' = chunks /\ pauses' = pauses /\ now' = now
  BY DEF Answered
<1>3. /\ sent' \in Seq(Asking) /\ Len(sent') = k + 1
      /\ \A j \in 1..k : sent'[j] = sent[j]
      /\ sent'[k + 1].time = now /\ sent'[k + 1].before = Asked
      /\ Asked' = Asked + T
      /\ PaceKept'
  BY <1>1, <1>2, Requested
<1>4. /\ T \in Nat /\ window.requests \in Nat /\ window.tokens \in Nat
      /\ r \in Nat /\ spent.tokens \in Nat /\ k \in Nat /\ now \in Nat /\ Asked \in Nat
  BY <1>1, BatchIs, SentIs DEF TypeOK, Costs
<1>5. /\ window' \in Costs /\ window'.requests = window.requests + 1 /\ window'.tokens = window.tokens + T
      /\ spent' \in Costs /\ spent'.requests = r + 1 /\ spent'.tokens = spent.tokens + T
  <2>1. window \in Costs /\ spent \in Costs
    BY <1>1 DEF TypeOK
  <2>2. QED
    BY <1>2, <1>4, <2>1, PlusIs
<1>6. BatchEnd \in 0..chunks.count
  BY <1>1, BatchIs
<1>7. TypeOK'
  BY <1>1, <1>2, <1>3, <1>5, <1>6 DEF TypeOK
<1>8. Room'
  BY <1>2 DEF Room
<1>9. Counted'
  <2> SUFFICES ASSUME NEW j \in 1..(k + 1)
               PROVE  /\ sent'[j].time <= now
                      /\ now < sent'[j].time + Minute =>
                           /\ (k + 1) - j + 1 <= window.requests + 1
                           /\ (Asked + T) - sent'[j].before <= window.tokens + T
    BY <1>2, <1>3, <1>5 DEF Counted
  <2>1. CASE j \in 1..k
    <3>1. sent[j].before \in Nat /\ sent'[j] = sent[j] /\ j \in Nat
      BY <1>1, <1>3, <2>1, SentIs
    <3>2. /\ sent[j].time <= now
          /\ now < sent[j].time + Minute =>
               k - j + 1 <= window.requests /\ Asked - sent[j].before <= window.tokens
      BY <1>1, <1>2, <2>1 DEF Counted
    <3>3. \A a, b, w, t \in Int : a - b <= w => (a + t) - b <= w + t
      OBVIOUS
    <3>4. k - j + 1 <= window.requests => (k + 1) - j + 1 <= window.requests + 1
      BY <1>4, <3>1
    <3>5. Asked - sent[j].before <= window.tokens => (Asked + T) - sent[j].before <= window.tokens + T
      BY <1>4, <3>1, <3>3
    <3>6. QED
      BY <3>1, <3>2, <3>4, <3>5
  <2>2. CASE j = k + 1
    <3>1. sent'[j].time = now /\ sent'[j].before = Asked
      BY <1>3, <2>2
    <3>2. (Asked + T) - Asked <= window.tokens + T
      BY <1>4
    <3>3. (k + 1) - j + 1 <= window.requests + 1
      BY <1>4, <2>2
    <3>4. QED
      BY <1>4, <3>1, <3>2, <3>3
  <2>3. QED
    BY <1>4, <2>1, <2>2
<1>10. Full'
  <2> DEFINE b == config.batch
             n == chunks.count
             d == done
             e == BatchEnd
  <2>1. b \in Nat \ {0} /\ n \in Nat /\ d \in 0..n /\ d < n
    BY <1>1, <1>2, Configured DEF TypeOK, Room
  <2>2. d = r * b
    <3>1. d # n
      BY <2>1
    <3>2. QED
      BY <1>1, <3>1 DEF Full
  <2>3. e \in 0..n /\ (e = n \/ e = d + b) /\ e <= d + b
    BY <1>1, BatchIs
  <2>4. (r + 1) * b = r * b + b
    <3> HIDE DEF b, r
    <3>1. QED
      BY <1>4, <2>1, NextBatchMultiple
  <2>5. (r + 1) - 1 = r
    BY <1>4
  <2>6. chunks.upto[e] = spent.tokens + T
    BY <1>1, BatchIs DEF Full
  <2>7. spent'.tokens = chunks.upto[e]
    BY <1>5, <2>6
  <2>8. (e = n \/ e = (r + 1) * b) /\ e <= (r + 1) * b
    BY <2>2, <2>3, <2>4
  <2>9. ((r + 1) - 1) * b < n
    BY <2>1, <2>2, <2>5
  <2> HIDE DEF b, n, d, e, r
  <2>10. QED
    BY <1>2, <1>5, <2>7, <2>8, <2>9 DEF Full, b, n, e
<1>11. Planned'
  <2>1. WithinLimits' = WithinLimits
    BY <1>2 DEF WithinLimits, Plan
  <2>2. window.requests + 1 <= r + 1 /\ window.tokens + T <= spent.tokens + T
    <3>1. window.requests <= r /\ window.tokens <= spent.tokens
      BY <1>1 DEF Planned
    <3> HIDE DEF T, r
    <3>2. QED
      BY <1>4, <3>1
  <2>3. QED
    BY <1>1, <1>2, <1>5, <2>1, <2>2 DEF Planned
<1>12. QED
  BY <1>3, <1>7, <1>8, <1>9, <1>10, <1>11 DEF EmbedInv

LEMMA TooManyKeeps ==
  ASSUME EmbedInv, TooMany
  PROVE  EmbedInv'
<1>1. TypeOK /\ Room /\ Counted /\ PaceKept /\ Full /\ Planned
  BY DEF EmbedInv
<1>2. /\ at = "send" /\ Request /\ Wait /\ at' = "resend"
      /\ config' = config /\ chunks' = chunks /\ done' = done /\ pauses' = pauses /\ spent' = spent
  BY DEF TooMany
<1>3. /\ sent' \in Seq(Asking) /\ Len(sent') = Len(sent) + 1
      /\ \A j \in 1..Len(sent) : sent'[j] = sent[j]
      /\ sent'[Len(sent) + 1].time = now
      /\ PaceKept'
  BY <1>1, <1>2, Requested
<1>4. /\ now' \in Nat /\ window' \in Costs /\ window'.requests = 0 /\ window'.tokens = 0
      /\ now <= now' /\ \A j \in 1..Len(sent) : sent[j].time + Minute <= now'
  BY <1>1, <1>2, Waited
<1>5. TypeOK'
  BY <1>1, <1>2, <1>3, <1>4 DEF TypeOK
<1>6. /\ now \in Nat /\ Minute \in Nat \ {0} /\ now' = now + Minute /\ Len(sent) \in Nat
      /\ BatchTokens \in Nat /\ config.rpm \in Nat \ {0} /\ config.tpm \in Nat
      /\ window.tokens \in Nat /\ spent.requests \in Nat /\ spent.tokens \in Nat
  BY <1>1, <1>2, SentIs, BatchIs, Configured, EmbeddingConstants DEF TypeOK, Wait, Costs
<1>7. Room'
  <2>1. BatchTokens' = BatchTokens /\ window.tokens + BatchTokens <= config.tpm /\ done < chunks.count
    BY <1>1, <1>2 DEF BatchTokens, BatchEnd, Room
  <2>2. 0 + 1 <= config.rpm /\ 0 + BatchTokens <= config.tpm
    BY <1>6, <2>1
  <2>3. QED
    BY <1>2, <1>4, <2>1, <2>2 DEF Room
<1>8. Counted'
  <2>1. ASSUME NEW j \in 1..(Len(sent) + 1)
        PROVE  sent'[j].time <= now' /\ ~(now' < sent'[j].time + Minute)
    <3>1. CASE j \in 1..Len(sent)
      BY <1>1, <1>3, <1>4, <1>6, <3>1, SentIs
    <3>2. CASE j = Len(sent) + 1
      BY <1>3, <1>6, <3>2
    <3>3. QED
      BY <1>6, <3>1, <3>2
  <2>2. QED
    BY <1>3, <2>1 DEF Counted
<1>9. Full' /\ Planned'
  <2>1. WithinLimits' = WithinLimits /\ 0 <= spent.requests /\ 0 <= spent.tokens
    BY <1>2, <1>6 DEF WithinLimits, Plan
  <2>2. QED
    BY <1>1, <1>2, <1>4, <2>1 DEF Full, Planned
<1>10. QED
  BY <1>3, <1>5, <1>7, <1>8, <1>9 DEF EmbedInv

LEMMA RejectedKeeps ==
  ASSUME EmbedInv, Rejected
  PROVE  EmbedInv'
<1>1. TypeOK /\ Room /\ Counted /\ PaceKept /\ Full /\ Planned
  BY DEF EmbedInv
<1>2. /\ at \in {"send", "resend"} /\ Request /\ at' = "failed"
      /\ config' = config /\ chunks' = chunks /\ done' = done /\ window' = window
      /\ now' = now /\ pauses' = pauses /\ spent' = spent
  BY DEF Rejected
<1>3. /\ sent' \in Seq(Asking) /\ Len(sent') = Len(sent) + 1
      /\ \A j \in 1..Len(sent) : sent'[j] = sent[j]
      /\ sent'[Len(sent) + 1].time = now
      /\ PaceKept'
  BY <1>1, <1>2, Requested
<1>4. now \in Nat /\ Len(sent) \in Nat
  BY <1>1, SentIs DEF TypeOK
<1>5. TypeOK' /\ Room'
  BY <1>1, <1>2, <1>3 DEF TypeOK, Room
<1>6. Counted'
  <2>1. \A j \in 1..(Len(sent) + 1) : j \in 1..Len(sent) \/ j = Len(sent) + 1
    BY <1>4
  <2>2. \A j \in 1..(Len(sent) + 1) : sent'[j].time <= now
    BY <1>1, <1>3, <1>4, <2>1 DEF Counted
  <2>3. QED
    BY <1>2, <1>3, <2>2 DEF Counted
<1>7. Full' /\ Planned'
  <2>1. WithinLimits' = WithinLimits
    BY <1>2 DEF WithinLimits, Plan
  <2>2. QED
    BY <1>1, <1>2, <2>1 DEF Full, Planned
<1>8. QED
  BY <1>3, <1>5, <1>6, <1>7 DEF EmbedInv

\* Time passes, or the last chunk has its embedding.
LEMMA StillKeeps ==
  ASSUME EmbedInv, Finish \/ Ticks
  PROVE  EmbedInv'
<1>1. TypeOK /\ Room /\ Counted /\ PaceKept /\ Full /\ Planned
  BY DEF EmbedInv
<1>2. /\ at' = at \/ (at' = "success" /\ done = chunks.count)
      /\ now' = now \/ now' = now + 1
      /\ config' = config /\ chunks' = chunks /\ done' = done /\ window' = window
      /\ pauses' = pauses /\ spent' = spent /\ sent' = sent
  BY DEF Finish, Ticks
<1>3. now \in Nat /\ Minute \in Nat
  BY <1>1, EmbeddingConstants DEF TypeOK
<1>4. now' \in Nat /\ now <= now'
  BY <1>2, <1>3
<1>5. /\ WithinLimits' = WithinLimits /\ BatchTokens' = BatchTokens /\ Asked' = Asked
  BY <1>2 DEF WithinLimits, Plan, BatchTokens, BatchEnd, Asked
<1>6. TypeOK' /\ Room'
  BY <1>1, <1>2, <1>4, <1>5 DEF TypeOK, Room
<1>7. Counted'
  <2>1. at' # "failed" => at # "failed"
    BY <1>2 DEF Finish, Ticks
  <2>2. \A j \in 1..Len(sent) :
          /\ sent[j].time <= now'
          /\ now' < sent[j].time + Minute => now < sent[j].time + Minute
    BY <1>1, <1>3, <1>4, SentIs DEF Counted
  <2>3. QED
    BY <1>1, <1>2, <1>5, <2>1, <2>2 DEF Counted
<1>8. PaceKept' /\ Full' /\ Planned'
  BY <1>1, <1>2, <1>5 DEF PaceKept, Full, Planned
<1>9. QED
  BY <1>6, <1>7, <1>8 DEF EmbedInv

LEMMA EmbedStep == EmbedInv /\ [EmbedNext]_embedVars => EmbedInv'
<1> SUFFICES ASSUME EmbedInv, [EmbedNext]_embedVars
             PROVE  EmbedInv'
  OBVIOUS
<1>1. CASE UNCHANGED embedVars
  BY <1>1 DEF embedVars, EmbedInv, TypeOK, Room, Counted, PaceKept, Full, Planned, WithinLimits,
     Plan, BatchTokens, BatchEnd, Asked
<1>2. CASE EmbedNext
  BY <1>2, NextBatchKeeps, AnsweredKeeps, TooManyKeeps, RejectedKeeps, StillKeeps DEF EmbedNext
<1>3. QED
  BY <1>1, <1>2

(* The window of embed_changed_chunks_with_pacer counts every request that  *)
(* is not a minute old, and all batches before the last one were full.      *)
THEOREM EmbedInvariance == EmbedSpec => []EmbedInv
  BY EmbedStart, EmbedStep, PTL DEF EmbedSpec

(* No minute holds more requests or tokens than configured, whatever the    *)
(* provider answers and however long it takes.                              *)
THEOREM PaceKeptHolds == EmbedSpec => []PaceKept
<1>1. EmbedInv => PaceKept
  BY DEF EmbedInv
<1>2. QED
  BY <1>1, EmbedInvariance, PTL

(* A job that succeeds costs the requests and tokens of its TokenPlan, and  *)
(* one whose plan is within the limits never pauses for them.               *)
THEOREM PlanIsTrueHolds == EmbedSpec => []PlanIsTrue
<1>1. EmbedInv => PlanIsTrue
  <2> SUFFICES ASSUME EmbedInv
               PROVE  PlanIsTrue
    OBVIOUS
  <2>1. TypeOK /\ Full /\ Planned
    BY DEF EmbedInv
  <2>2. ASSUME at = "success"
        PROVE  Plan = spent
    <3> DEFINE n == chunks.count
               b == config.batch
               r == spent.requests
    <3>1. n \in Nat /\ b \in Nat \ {0} /\ r \in Nat /\ spent \in Costs
      BY <2>1, Configured DEF TypeOK, Costs
    <3>2. done = n
      BY <2>1, <2>2 DEF Planned
    <3>3. n <= r * b /\ (r = 0 \/ (r - 1) * b < n) /\ spent.tokens = chunks.upto[n]
      BY <2>1, <3>2 DEF Full
    <3>4. (n + b - 1) \div b = r
      <4> HIDE DEF n, b, r
      <4>1. QED
        BY <3>1, <3>3, BatchesNeeded
    <3>5. spent = [requests |-> r, tokens |-> spent.tokens]
      BY <3>1 DEF Costs
    <3>6. QED
      BY <3>3, <3>4, <3>5 DEF Plan
  <2>3. QED
    BY <2>1, <2>2 DEF PlanIsTrue, Planned
<1>2. QED
  BY <1>1, EmbedInvariance, PTL
=============================================================================
