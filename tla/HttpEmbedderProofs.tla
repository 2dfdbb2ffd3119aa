------------------------- MODULE HttpEmbedderProofs -------------------------
(* The rate limiter bounds what an embedder sends, and the vectors it        *)
(* returns belong to its inputs, for every configuration.                    *)
EXTENDS HttpEmbedder, FiniteSetTheorems, SequenceTheorems, TLAPS

\* What remains of the permit of the request at hand: requests it may send.
Left == CASE pc = "permit" -> MaxRetries + 1
          [] pc = "send"   -> MaxRetries + 1 - attempt
          [] pc = "reply"  -> MaxRetries - attempt
          [] OTHER         -> 0

\* Permits are conserved, and each pays for what it has sent and what is left.
RateInv ==
  /\ permits \in Nat /\ gated \in Nat /\ ticks \in Nat /\ sent \in Nat
  /\ attempt \in 0..MaxRetries
  /\ pc = "permit" => attempt = 0
  /\ provider = "http" =>
       /\ permits + gated = Cap + ticks
       /\ sent + Left <= 5 * gated

LEMMA Constants ==
  /\ Cap \in Nat /\ MaxRetries \in Nat /\ MaxRetries > 0
  /\ provider = "http" => MaxRetries = 4
BY ConstantsAssumption DEF ConstantsAssumption, Cap, MaxRetries

LEMMA RateInit == Init => RateInv
BY Constants DEF Init, RateInv, Left

\* Steps that leave the limiter, the counters and the await's budget alone.
LEMMA EndsRequest ==
  ASSUME RateInv, pc' \notin {"permit", "send", "reply"},
         UNCHANGED <<provider, attempt, rateVars, sent>>
  PROVE  RateInv'
BY Constants DEF RateInv, Left, rateVars, MaxRetries

LEMMA RateStep == RateInv /\ [Next]_vars => RateInv'
<1> SUFFICES ASSUME RateInv, [Next]_vars PROVE RateInv'
  OBVIOUS
<1>0. provider' = provider /\ MaxRetries' = MaxRetries
  BY DEF Next, Run, Encode, Tick, vars, MaxRetries
<1>1. ASSUME NEW ts \in Inputs, Encode(ts) PROVE RateInv'
  BY <1>0, <1>1, EndsRequest DEF Encode
<1>2. CASE NextBatch
  BY <1>0, <1>2, EndsRequest DEF NextBatch
<1>3. CASE NextInput
  BY <1>0, <1>3, EndsRequest DEF NextInput
<1>4. CASE Return
  BY <1>0, <1>4, EndsRequest DEF Return
<1>5. CASE Done
  BY <1>0, <1>5, EndsRequest DEF Done
<1>6. CASE Gate
  BY <1>0, <1>6, Constants DEF Gate, RateInv, Left
<1>7. CASE Permit
  BY <1>0, <1>7, Constants DEF Permit, RateInv, Left, rateVars
<1>8. CASE Send
  BY <1>0, <1>8, Constants DEF Send, RateInv, Left, rateVars
<1>9. CASE Answered
  <2>1. ASSUME NEW vs, OneReturned(vs) PROVE pc' \in {"next", "failed"}
    BY <2>1 DEF OneReturned, OneFailed
  <2> QED
    BY <1>0, <1>9, <2>1, EndsRequest DEF Answered
<1>10. CASE Refused
  BY <1>0, <1>10, EndsRequest DEF Refused, OneFailed
<1>11. CASE Garbled
  <2>1. pc' \in {"next", "failed"}
    BY <1>11 DEF Garbled, OneReturned, OneFailed
  <2> QED
    BY <1>0, <1>11, <2>1, EndsRequest DEF Garbled
<1>12. ASSUME NEW outcome \in Outcomes, Fault(outcome) PROVE RateInv'
  <2>1. CASE attempt < MaxRetries
    <3>1. /\ pc = "reply" /\ pc' = "send" /\ attempt' = attempt + 1
          /\ UNCHANGED <<rateVars, sent>>
      BY <1>0, <1>12, <2>1 DEF Fault
    <3> QED
      BY <1>0, <3>1, <2>1, Constants DEF RateInv, Left, rateVars
  <2>2. CASE ~(attempt < MaxRetries)
    <3>1. pc' = "next" /\ UNCHANGED <<attempt, rateVars, sent>>
      BY <1>0, <1>12, <2>2 DEF Fault, OneFailed
    <3> QED
      BY <1>0, <3>1, EndsRequest
  <2> QED
    BY <2>1, <2>2
<1>13. ASSUME NEW outcome \in Outcomes, Denied(outcome) PROVE RateInv'
  BY <1>0, <1>13, EndsRequest DEF Denied, OneFailed
<1>14. CASE Tick
  BY <1>0, <1>14, Constants DEF Tick, RateInv, Left
<1>15. CASE UNCHANGED vars
  BY <1>0, <1>15 DEF vars, callVars, rateVars, RateInv, Left
<1> QED
  BY <1>1, <1>2, <1>3, <1>4, <1>5, <1>6, <1>7, <1>8, <1>9, <1>10, <1>11, <1>12, <1>13, <1>14,
     <1>15
  DEF Next, Run

LEMMA RateInvBounds == RateInv => RateBounded
<1> SUFFICES ASSUME RateInv, provider = "http" PROVE sent <= (MaxRetries + 1) * (Cap + ticks)
  BY DEF RateBounded
<1>1. Left \in Nat
  BY Constants DEF Left, RateInv
<1>2. sent <= 5 * gated /\ gated <= Cap + ticks
  BY <1>1, Constants DEF RateInv
<1>3. MaxRetries + 1 = 5
  BY Constants
<1> QED
  BY <1>2, <1>3, Constants DEF RateInv

\* Whatever the configuration and the service's answers, the requests sent by
\* an HTTP embedder are at most MAX_RETRIES + 1 per permit of its limiter.
THEOREM RateLimited == Spec => []RateBounded
<1>1. Spec => []RateInv
  BY RateInit, RateStep, PTL DEF Spec
<1> QED
  BY <1>1, RateInvBounds, PTL

-----------------------------------------------------------------------------
(* An honest answer, sorted, is the vectors of its inputs.                  *)

\* p is a permutation of 1..m; S has the places up to that of k; and items
\* are those of b in the places p gives.
Permutes(p, m)    == p \in [1..m -> 1..m] /\ \A n \in 1..m : \E i \in 1..m : p[i] = n
UpTo(S, p, k, m)  == \A j : j \in S <=> j \in 1..m /\ p[j] <= p[k]
Ranked(items, b, p, m) ==
  /\ DOMAIN items = 1..m
  /\ \A j, k \in 1..m : Before(items, j, k) <=> p[j] <= p[k]
  /\ \A k \in 1..m : items[k].of = b[p[k]]

LEMMA OneToOne ==
  ASSUME NEW m \in Nat, NEW p, Permutes(p, m)
  PROVE  \A i, j \in 1..m : p[i] = p[j] => i = j
<1>1. IsFiniteSet(1..m) /\ p \in Surjection(1..m, 1..m)
  BY FS_Interval, 1 \in Int, m \in Int DEF Permutes, Surjection
<1>2. p \in Injection(1..m, 1..m)
  BY <1>1, FS_Surjection
<1> QED BY <1>2 DEF Injection, IsInjective

LEMMA UpToCount ==
  ASSUME NEW m \in Nat, NEW p, Permutes(p, m), NEW k \in 1..m, NEW S, UpTo(S, p, k, m)
  PROVE  Cardinality(S) = p[k]
<1> DEFINE f == [j \in S |-> p[j]]
<1>1. p[k] \in 1..m
  BY DEF Permutes
<1>2. IsFiniteSet(S)
  BY FS_Interval, FS_Subset, S \in SUBSET (1..m), 1 \in Int, m \in Int DEF UpTo
<1>3. f \in [S -> 1..p[k]]
  BY <1>1 DEF Permutes, UpTo
<1>4. \A i, j \in S : f[i] = f[j] => i = j
  BY OneToOne DEF UpTo
<1>5. \A n \in 1..p[k] : \E j \in S : f[j] = n
  <2> TAKE n \in 1..p[k]
  <2>1. n \in 1..m
    BY <1>1
  <2>2. PICK j \in 1..m : p[j] = n
    BY <2>1 DEF Permutes
  <2>3. j \in S /\ f[j] = n
    BY <2>2, <1>1 DEF UpTo
  <2> QED BY <2>3
<1>6. f \in Bijection(S, 1..p[k])
  BY <1>3, <1>4, <1>5 DEF Bijection, Injection, Surjection, IsInjective
<1>7. Cardinality(1..p[k]) = Cardinality(S)
  BY <1>2, <1>6, FS_Bijection DEF ExistsBijection
<1>8. Cardinality(1..p[k]) = p[k]
  BY <1>1, FS_Interval, 1 \in Int
<1> QED BY <1>7, <1>8

\* Sorting undoes the permutation.
LEMMA SortedByRank ==
  ASSUME NEW m \in Nat, NEW p, Permutes(p, m), NEW b, b = [n \in 1..m |-> b[n]],
         NEW items, Ranked(items, b, p, m)
  PROVE  IntoVectors(items) = b
<1> DEFINE Rank(k) == Cardinality({j \in DOMAIN items : Before(items, j, k)})
<1>1. ASSUME NEW k \in 1..m PROVE Rank(k) = p[k]
  <2> DEFINE S == {j \in DOMAIN items : Before(items, j, k)}
  <2>1. UpTo(S, p, k, m)
    BY DEF Ranked, UpTo
  <2> HIDE DEF S
  <2>2. Cardinality(S) = p[k]
    BY <2>1, UpToCount
  <2> QED BY <2>2 DEF S
<1>2. ASSUME NEW n \in 1..m
      PROVE  items[CHOOSE k \in DOMAIN items : Rank(k) = n].of = b[n]
  <2>1. \E k \in DOMAIN items : Rank(k) = n
    <3>1. PICK i \in 1..m : p[i] = n
      BY DEF Permutes
    <3>2. Rank(i) = n
      BY <1>1, <3>1
    <3> HIDE DEF Rank
    <3> QED BY <3>2 DEF Ranked
  <2> DEFINE c == CHOOSE k \in DOMAIN items : Rank(k) = n
  <2>2. c \in 1..m /\ Rank(c) = n
    BY <2>1 DEF Ranked
  <2> HIDE DEF c, Rank
  <2>3. p[c] = n
    BY <1>1, <2>2
  <2> QED BY <2>2, <2>3 DEF c, Ranked
<1> HIDE DEF Rank
<1>3. IntoVectors(items) = [n \in 1..m |-> b[n]]
  BY <1>2 DEF IntoVectors, Rank, Ranked
<1> QED BY <1>3

LEMMA AnswersSorted ==
  ASSUME NEW m \in Nat, NEW b, b = [n \in 1..m |-> b[n]], NEW items \in Answers(b)
  PROVE  IntoVectors(items) = b
<1>0. DOMAIN b = 1..m
  OBVIOUS
<1>1. CASE items = [k \in DOMAIN b |-> [index |-> 0, of |-> b[k]]]
  <2> DEFINE p == [k \in 1..m |-> k]
  <2>1. Permutes(p, m)
    BY DEF Permutes
  <2>2. Ranked(items, b, p, m)
    BY <1>0, <1>1 DEF Before, Ranked
  <2> HIDE DEF p
  <2> QED BY <2>1, <2>2, SortedByRank
<1>2. ASSUME NEW p \in [DOMAIN b -> DOMAIN b], {p[i] : i \in DOMAIN b} = DOMAIN b,
             items = [k \in DOMAIN b |-> [index |-> p[k] - 1, of |-> b[p[k]]]]
      PROVE  IntoVectors(items) = b
  <2>1. Permutes(p, m)
    BY <1>0, <1>2 DEF Permutes
  <2>2. \A i, j \in 1..m : p[i] = p[j] => i = j
    BY <2>1, OneToOne
  <2>3. ASSUME NEW j \in 1..m, NEW k \in 1..m PROVE Before(items, j, k) <=> p[j] <= p[k]
    <3>1. items[j].index = p[j] - 1 /\ items[k].index = p[k] - 1
      BY <1>0, <1>2
    <3>2. p[j] \in Int /\ p[k] \in Int /\ (p[j] = p[k] => j = k)
      BY SMTT(40), <2>1, <2>2 DEF Permutes
    <3> QED BY <3>1, <3>2 DEF Before
  <2>4. Ranked(items, b, p, m)
    BY <1>0, <1>2, <2>3 DEF Ranked
  <2> QED BY <2>1, <2>4, SortedByRank
<1> QED BY <1>1, <1>2 DEF Answers

-----------------------------------------------------------------------------
(* The call: its vectors are those of its inputs.                           *)

SpentType == [calls : 0..MaxCalls, faults : 0..MaxFaults, denied : 0..MaxDenied,
              garbled : 0..MaxGarbled]

\* Failures of the request for one input that is being tried, which no zero
\* vector was paid with yet; and what the others pay for.
Tries == IF single /\ pc \in {"send", "reply"} THEN attempt ELSE 0
Spare == alone.retried + (MaxRetries + 1) * alone.final - Tries

\* A good input that got no vector has cost a failure for good, or one more
\* than the retries, beyond those of the request at hand.
CostInv == Cardinality(Lost) * (MaxRetries + 1) <= Spare

\* A request is sent only for a batch with inputs left.
CallInv ==
  /\ TypeOK /\ Aligned /\ CostInv
  /\ Len(out) <= upto
  /\ pc \in {"gate", "permit", "send", "reply"} => Len(out) < upto
  /\ pc = "permit" => attempt = 0

\* Counting what is spent stays within the bounds.
LEMMA SpendsWithin ==
  ASSUME CallInv,
         \/ Spend("calls")   /\ spent.calls < MaxCalls
         \/ Spend("faults")  /\ spent.faults < MaxFaults
         \/ Spend("denied")  /\ spent.denied < MaxDenied
         \/ Spend("garbled") /\ spent.garbled < MaxGarbled
  PROVE  spent' \in SpentType
<1>1. spent \in SpentType
  BY DEF CallInv, TypeOK, SpentType
<1>2. /\ MaxCalls \in Nat /\ MaxFaults \in Nat /\ MaxDenied \in Nat /\ MaxGarbled \in Nat
      /\ spent.calls \in 0..MaxCalls /\ spent.faults \in 0..MaxFaults
      /\ spent.denied \in 0..MaxDenied /\ spent.garbled \in 0..MaxGarbled
  BY <1>1, ConstantsAssumption DEF SpentType
<1>3. CASE Spend("calls") /\ spent.calls < MaxCalls
  <2>1. spent.calls + 1 \in 0..MaxCalls
    BY <1>2, <1>3
  <2> QED BY <1>1, <1>3, <2>1 DEF Spend, SpentType
<1>4. CASE Spend("faults") /\ spent.faults < MaxFaults
  <2>1. spent.faults + 1 \in 0..MaxFaults
    BY <1>2, <1>4
  <2> QED BY <1>1, <1>4, <2>1 DEF Spend, SpentType
<1>5. CASE Spend("denied") /\ spent.denied < MaxDenied
  <2>1. spent.denied + 1 \in 0..MaxDenied
    BY <1>2, <1>5
  <2> QED BY <1>1, <1>5, <2>1 DEF Spend, SpentType
<1>6. CASE Spend("garbled") /\ spent.garbled < MaxGarbled
  <2>1. spent.garbled + 1 \in 0..MaxGarbled
    BY <1>2, <1>6
  <2> QED BY <1>1, <1>6, <2>1 DEF Spend, SpentType
<1> QED BY <1>3, <1>4, <1>5, <1>6

\* A failure adds to what the history pays: one, or all that a vector costs.
LEMMA FailsPays ==
  ASSUME CallInv, pc = "reply", NEW how \in {"retried", "final"}, Fails(how)
  PROVE  /\ alone' \in [retried : Nat, final : Nat]
         /\ ~single => alone' = alone
         /\ single /\ how = "retried" =>
              alone'.retried = alone.retried + 1 /\ alone'.final = alone.final
         /\ single /\ how = "final" =>
              alone'.retried = alone.retried /\ alone'.final = alone.final + 1
BY DEF Fails, CallInv, TypeOK

\* The good inputs without a vector are finitely many.
LEMMA LostCounts ==
  ASSUME CallInv
  PROVE  /\ IsFiniteSet(Lost) /\ Cardinality(Lost) \in Nat
         /\ alone.retried \in Nat /\ alone.final \in Nat
         /\ MaxRetries \in {3, 4} /\ attempt \in 0..MaxRetries
         /\ Tries \in Nat /\ Spare \in Int
<1>1. DOMAIN out = 1..Len(out) /\ Len(out) \in Nat
  BY LenProperties DEF CallInv, TypeOK
<1>2. IsFiniteSet(Lost) /\ Cardinality(Lost) \in Nat
  BY <1>1, FS_Interval, FS_Subset, FS_CardinalityType, Lost \in SUBSET (1..Len(out)),
     1 \in Int, Len(out) \in Int DEF Lost
<1>3. alone.retried \in Nat /\ alone.final \in Nat /\ attempt \in 0..MaxRetries
  BY DEF CallInv, TypeOK
<1>4. MaxRetries \in {3, 4}
  BY DEF MaxRetries
<1>5. Tries \in Nat
  BY <1>3, <1>4 DEF Tries
<1>6. Spare \in Int
  BY <1>3, <1>4, <1>5 DEF Spare
<1> QED BY <1>2, <1>3, <1>4, <1>5, <1>6

LEMMA CallInit == Init => CallInv
<1> SUFFICES ASSUME Init PROVE CallInv
  OBVIOUS
<1>1. /\ texts \in Seq(Text) /\ Len(texts) = 0
      /\ out \in Seq(Text \cup {Zero}) /\ Len(out) = 0 /\ DOMAIN out = {}
  BY EmptySeq DEF Init
<1>2. spent \in SpentType /\ alone \in [retried : Nat, final : Nat]
  BY ConstantsAssumption DEF Init, SpentType, NoFailures
<1>3. ticks \in 0..MaxTicks /\ permits \in Nat
  BY Constants, ConstantsAssumption DEF Init
<1>4. upto \in 0..Len(texts) /\ Len(out) \in 0..Len(texts) /\ attempt \in 0..MaxRetries
  BY <1>1, Constants DEF Init
<1>5. pc = "idle" /\ provider \in Providers /\ single \in BOOLEAN /\ gated \in Nat /\ sent \in Nat
  BY DEF Init
<1>6. TypeOK
  BY <1>1, <1>2, <1>3, <1>4, <1>5 DEF TypeOK, SpentType
<1>7. CostInv
  <2>1. Cardinality(Lost) = 0
    BY <1>1, FS_EmptySet DEF Lost
  <2>2. Spare = 0
    BY <1>5, Constants DEF Init, NoFailures, Spare, Tries
  <2> QED BY <2>1, <2>2, Constants DEF CostInv
<1> QED BY <1>1, <1>6, <1>7 DEF Init, CallInv, Aligned

\* A step that leaves the call as it is, and takes nothing from what pays.
LEMMA Keeps ==
  ASSUME CallInv, UNCHANGED <<provider, callVars>>, spent' \in SpentType,
         pc' \in {"idle", "next", "gate", "permit", "send", "reply", "returned", "failed"},
         pc' = "returned" => Len(out) = Len(texts),
         pc' \in {"gate", "permit", "send", "reply"} => Len(out) < upto,
         pc' = "permit" => attempt' = 0,
         attempt' \in 0..MaxRetries, alone' \in [retried : Nat, final : Nat], Spare <= Spare',
         permits' \in Nat, gated' \in Nat, ticks' \in 0..MaxTicks, sent' \in Nat
  PROVE  CallInv'
<1>1. MaxRetries' = MaxRetries /\ UNCHANGED <<provider, texts, out, upto, single>>
  BY DEF callVars, MaxRetries
<1>2. TypeOK'
  BY <1>1 DEF CallInv, TypeOK, SpentType
<1>3. Aligned'
  BY <1>1 DEF CallInv, Aligned
<1>4. CostInv'
  <2>1. Lost' = Lost
    BY <1>1 DEF Lost
  <2>2. Spare' \in Int
    BY <1>1 DEF Spare, Tries, MaxRetries
  <2>3. Cardinality(Lost) * (MaxRetries + 1) <= Spare
    BY DEF CallInv, CostInv
  <2>4. Cardinality(Lost) * (MaxRetries + 1) \in Int
    BY LostCounts
  <2> QED BY <1>1, <2>1, <2>2, <2>3, <2>4, LostCounts DEF CostInv
<1> QED BY <1>1, <1>2, <1>3, <1>4 DEF CallInv

\* A step that begins a call, or ends it.
LEMMA Clears ==
  ASSUME CallInv, spent' \in SpentType, provider' = provider, attempt' = attempt,
         alone' \in [retried : Nat, final : Nat], UNCHANGED <<rateVars, sent>>,
         pc' \in {"next", "idle"}, texts' \in Seq(Text), out' = <<>>, upto' = 0, single' = FALSE
  PROVE  CallInv'
<1>1. MaxRetries' = MaxRetries
  BY DEF MaxRetries
<1>2. out' \in Seq(Text \cup {Zero}) /\ Len(out') = 0 /\ Len(texts') \in Nat /\ DOMAIN out' = {}
  BY EmptySeq, LenProperties
<1>3. TypeOK'
  <2>1. upto' \in 0..Len(texts') /\ Len(out') \in 0..Len(texts')
    BY <1>2
  <2>2. provider' \in Providers /\ attempt' \in 0..MaxRetries'
    BY <1>1 DEF CallInv, TypeOK
  <2>3. permits' \in Nat /\ gated' \in Nat /\ ticks' \in 0..MaxTicks /\ sent' \in Nat
    BY DEF CallInv, TypeOK, rateVars
  <2> QED BY <1>2, <2>1, <2>2, <2>3 DEF TypeOK, SpentType
<1>4. Aligned'
  BY <1>2 DEF Aligned
<1>5. CostInv'
  <2>1. Lost' = {}
    BY <1>2 DEF Lost
  <2>2. Tries' = 0
    BY DEF Tries
  <2>3. alone'.retried \in Nat /\ alone'.final \in Nat
    OBVIOUS
  <2>4. MaxRetries' \in {3, 4}
    BY DEF MaxRetries
  <2>5. Spare' \in Nat
    BY <2>2, <2>3, <2>4 DEF Spare
  <2>6. Cardinality(Lost)' = 0
    BY <2>1, FS_EmptySet
  <2>7. (Cardinality(Lost) * (MaxRetries + 1))' = 0
    <3>1. CASE MaxRetries' = 3
      BY <2>6, <3>1
    <3>2. CASE MaxRetries' = 4
      BY <2>6, <3>2
    <3> QED BY <2>4, <3>1, <3>2
  <2> QED BY <2>5, <2>7 DEF CostInv
<1>6. Len(out') <= upto'
  BY <1>2
<1> QED BY <1>3, <1>4, <1>5, <1>6 DEF CallInv

\* Appending: what the good inputs cost afterwards.
LEMMA CostAfter ==
  ASSUME CallInv, MaxRetries' = MaxRetries, Spare' \in Int, IsFiniteSet(Lost'),
         \/ Lost' \subseteq Lost /\ Spare <= Spare'
         \/ /\ \E n : Lost' \subseteq Lost \cup {n}
            /\ Spare + MaxRetries + 1 <= Spare'
  PROVE  CostInv'
<1>1. Cardinality(Lost) * (MaxRetries + 1) <= Spare
  BY DEF CallInv, CostInv
<1>2. Cardinality(Lost') \in Nat
  BY FS_CardinalityType
<1>3. CASE Lost' \subseteq Lost /\ Spare <= Spare'
  <2>1. Cardinality(Lost') <= Cardinality(Lost)
    BY <1>3, LostCounts, FS_Subset
  <2>2. CASE MaxRetries = 3
    BY <1>1, <1>2, <1>3, <2>1, <2>2, LostCounts DEF CostInv
  <2>3. CASE MaxRetries = 4
    BY <1>1, <1>2, <1>3, <2>1, <2>3, LostCounts DEF CostInv
  <2> QED BY <2>2, <2>3, LostCounts
<1>4. ASSUME NEW n, Lost' \subseteq Lost \cup {n}, Spare + MaxRetries + 1 <= Spare'
      PROVE  CostInv'
  <2>1. IsFiniteSet(Lost \cup {n}) /\ Cardinality(Lost \cup {n}) <= Cardinality(Lost) + 1
    <3>1. IsFiniteSet(Lost) /\ Cardinality(Lost) \in Nat
      BY LostCounts
    <3>2. /\ IsFiniteSet(Lost \cup {n})
          /\ Cardinality(Lost \cup {n}) = IF n \in Lost THEN Cardinality(Lost) ELSE Cardinality(Lost) + 1
      BY <3>1, FS_AddElement
    <3> QED BY <3>1, <3>2
  <2>2. Cardinality(Lost') <= Cardinality(Lost \cup {n}) /\ Cardinality(Lost \cup {n}) \in Nat
    BY <1>4, <2>1, FS_Subset, FS_CardinalityType
  <2>3. Cardinality(Lost') <= Cardinality(Lost) + 1
    BY <1>2, <2>1, <2>2, LostCounts
  <2>4. CASE MaxRetries = 3
    BY <1>1, <1>2, <1>4, <2>3, <2>4, LostCounts DEF CostInv
  <2>5. CASE MaxRetries = 4
    BY <1>1, <1>2, <1>4, <2>3, <2>5, LostCounts DEF CostInv
  <2> QED BY <2>4, <2>5, LostCounts
<1> QED BY <1>3, <1>4

\* A step that appends vectors of the inputs that are next: no zero for a good
\* input, or one that is paid for.
LEMMA Extends ==
  ASSUME CallInv, spent' \in SpentType,
         NEW vs \in Seq(Text \cup {Zero}), Len(out) + Len(vs) <= upto,
         \A i \in 1..Len(vs) : vs[i] \in {texts[Len(out) + i], Zero},
         alone' \in [retried : Nat, final : Nat],
         \/ /\ \A i \in 1..Len(vs) : vs[i] = Zero => texts[Len(out) + i] \in Rotten
            /\ Spare <= Spare'
         \/ Len(vs) <= 1 /\ Spare + MaxRetries + 1 <= Spare',
         out' = out \o vs, single' \in BOOLEAN, pc' = "next",
         UNCHANGED <<provider, texts, upto, attempt, rateVars, sent>>
  PROVE  CallInv'
<1>1. MaxRetries' = MaxRetries /\ out \in Seq(Text \cup {Zero}) /\ Len(texts) \in Nat
  BY LenProperties DEF MaxRetries, CallInv, TypeOK
<1>2. /\ out' \in Seq(Text \cup {Zero}) /\ Len(out') = Len(out) + Len(vs)
      /\ DOMAIN out' = 1..(Len(out) + Len(vs))
      /\ Len(out) \in Nat /\ Len(vs) \in Nat /\ DOMAIN out = 1..Len(out)
      /\ \A i \in 1..(Len(out) + Len(vs)) :
            out'[i] = IF i <= Len(out) THEN out[i] ELSE vs[i - Len(out)]
  BY <1>1, ConcatProperties, LenProperties
<1>3. TypeOK'
  BY <1>1, <1>2 DEF CallInv, TypeOK, SpentType, rateVars
<1>4. ASSUME NEW n \in DOMAIN out' PROVE out'[n] \in {texts[n], Zero}
  <2>1. CASE n <= Len(out)
    BY <1>2, <2>1 DEF CallInv, Aligned
  <2>2. CASE n > Len(out)
    <3>1. n - Len(out) \in 1..Len(vs) /\ Len(out) + (n - Len(out)) = n
      BY <1>2, <2>2
    <3> QED BY <1>2, <2>2, <3>1
  <2> QED BY <1>2, <2>1, <2>2
<1>5. Aligned'
  BY <1>1, <1>4 DEF Aligned
<1>6. IsFiniteSet(Lost')
  <2>1. Len(out') \in Nat /\ Lost' \in SUBSET (1..Len(out'))
    BY <1>2 DEF Lost
  <2> QED BY <2>1, FS_Interval, FS_Subset, 1 \in Int, Len(out') \in Int
<1>7. Spare' \in Int
  <2>1. alone'.retried \in Nat /\ alone'.final \in Nat /\ Tries' = 0
    BY DEF Tries
  <2> QED BY <1>1, <2>1, LostCounts DEF Spare
<1>8. ASSUME NEW n \in Lost', n \notin Lost
      PROVE  n \in DOMAIN out' /\ n > Len(out) /\ texts[n] \notin Rotten /\ out'[n] = Zero
  <2>1. n \in DOMAIN out' /\ out'[n] = Zero /\ texts[n] \notin Rotten
    BY <1>8 DEF Lost
  <2>2. CASE n <= Len(out)
    BY <1>2, <1>8, <2>1, <2>2 DEF Lost
  <2> QED BY <1>2, <2>1, <2>2
<1>9. ASSUME \A i \in 1..Len(vs) : vs[i] = Zero => texts[Len(out) + i] \in Rotten,
             Spare <= Spare'
      PROVE  CostInv'
  <2>1. ASSUME NEW n \in Lost', n \notin Lost PROVE FALSE
    <3>1. n \in DOMAIN out' /\ n > Len(out) /\ texts[n] \notin Rotten /\ out'[n] = Zero
      BY <1>8, <2>1
    <3>2. n - Len(out) \in 1..Len(vs) /\ Len(out) + (n - Len(out)) = n
      BY <1>2, <3>1
    <3> QED BY <1>2, <1>9, <3>1, <3>2
  <2> QED BY <1>1, <1>6, <1>7, <1>9, <2>1, CostAfter
<1>10. ASSUME Len(vs) <= 1, Spare + MaxRetries + 1 <= Spare'
       PROVE  CostInv'
  <2>1. ASSUME NEW n \in Lost', n \notin Lost PROVE n = Len(out) + 1
    <3>1. n \in 1..(Len(out) + Len(vs)) /\ n > Len(out)
      BY <1>2, <1>8, <2>1
    <3> QED BY <1>2, <1>10, <3>1
  <2>2. Lost' \subseteq Lost \cup {Len(out) + 1}
    BY <2>1
  <2> QED BY <1>1, <1>6, <1>7, <1>10, <2>2, CostAfter
<1>11. CostInv'
  BY <1>9, <1>10
<1>12. Len(out') <= upto'
  BY <1>2
<1> QED BY <1>3, <1>5, <1>11, <1>12 DEF CallInv

LEMMA BatchIsNext ==
  ASSUME CallInv, pc = "reply"
  PROVE  /\ Batch \in Seq(Text) /\ Len(Batch) \in Nat \ {0} /\ DOMAIN Batch = 1..Len(Batch)
         /\ Batch = [n \in 1..Len(Batch) |-> Batch[n]]
         /\ \A i \in 1..Len(Batch) : Batch[i] = texts[Len(out) + i]
         /\ Len(out) + Len(Batch) <= upto
         /\ single => Len(Batch) = 1
<1> DEFINE last == IF single THEN Len(out) + 1 ELSE upto
<1>1. /\ Len(out) \in Nat /\ Len(texts) \in Nat /\ upto \in 0..Len(texts) /\ Len(out) < upto
      /\ texts \in Seq(Text)
  BY LenProperties DEF CallInv, TypeOK
<1>2. last \in Int /\ Len(out) < last /\ last <= upto
  BY <1>1
<1>3. \A i \in (Len(out) + 1)..last : texts[i] \in Text
  BY <1>1, <1>2, ElementOfSeq
<1>4. Batch = SubSeq(texts, Len(out) + 1, last)
  BY DEF Batch
<1> HIDE DEF last
<1>5. /\ Batch \in Seq(Text) /\ Len(Batch) = last - Len(out)
      /\ \A i \in 1..(last - Len(out)) : Batch[i] = texts[Len(out) + i]
  BY <1>1, <1>2, <1>3, <1>4, SubSeqProperties
<1>6. DOMAIN Batch = 1..Len(Batch) /\ Batch = [n \in 1..Len(Batch) |-> Batch[n]]
  BY <1>5, LenProperties
<1> QED BY <1>1, <1>2, <1>5, <1>6 DEF last

\* A request that failed: when it was for a single input, the input is one the
\* service refuses, or the failures of that request pay for it.
LEMMA OneFails ==
  ASSUME CallInv, pc = "reply", spent' \in SpentType, OneFailed,
         alone' \in [retried : Nat, final : Nat],
         UNCHANGED <<provider, attempt, rateVars, sent>>,
         \/ Spare <= Spare' /\ (single => texts[Len(out) + 1] \in Rotten)
         \/ Spare + MaxRetries + 1 <= Spare'
  PROVE  CallInv'
<1>1. /\ Len(out) \in Nat /\ Len(out) + 1 <= upto /\ out \in Seq(Text \cup {Zero})
      /\ UNCHANGED <<texts, upto>> /\ single' \in BOOLEAN /\ pc' = "next"
  BY LenProperties DEF CallInv, TypeOK, OneFailed
<1>2. CASE single
  <2> DEFINE vs == <<Zero>>
  <2>1. vs \in Seq(Text \cup {Zero}) /\ Len(vs) = 1 /\ vs[1] = Zero
    OBVIOUS
  <2>2. out' = out \o vs
    BY <1>1, <1>2 DEF OneFailed
  <2> HIDE DEF vs
  <2>3. \A i \in 1..Len(vs) : vs[i] = Zero /\ Len(out) + i = Len(out) + 1
    BY <2>1
  <2>4. \/ /\ \A i \in 1..Len(vs) : vs[i] = Zero => texts[Len(out) + i] \in Rotten
           /\ Spare <= Spare'
        \/ Len(vs) <= 1 /\ Spare + MaxRetries + 1 <= Spare'
    BY <1>2, <2>1, <2>3
  <2> QED BY <1>1, <2>1, <2>2, <2>3, <2>4, Extends
<1>3. CASE ~single
  <2> DEFINE vs == <<>>
  <2>1. vs \in Seq(Text \cup {Zero}) /\ Len(vs) = 0
    BY EmptySeq
  <2>2. out' = out \o vs
    BY <1>1, <1>3, ConcatEmptySeq DEF OneFailed
  <2> HIDE DEF vs
  <2>3. Len(out) + Len(vs) <= upto
    BY <1>1, <2>1, Len(out) + 1 <= upto, upto \in Int DEF CallInv, TypeOK
  <2>4. \A i \in 1..Len(vs) : FALSE
    BY <2>1
  <2>5. /\ \A i \in 1..Len(vs) : vs[i] \in {texts[Len(out) + i], Zero}
        /\ \A i \in 1..Len(vs) : vs[i] = Zero => texts[Len(out) + i] \in Rotten
    BY <2>4
  <2>6. Len(vs) <= 1
    BY <2>1
  <2> QED BY <1>1, <2>1, <2>2, <2>3, <2>5, <2>6, Extends
<1> QED BY <1>2, <1>3

\* What pays for vectors is not less after a step that leaves the history
\* and ends the request at hand, if there is one.
LEMMA NoCost ==
  ASSUME CallInv, UNCHANGED <<provider, alone>>, ~(pc' \in {"send", "reply"} /\ single')
  PROVE  /\ alone' \in [retried : Nat, final : Nat]
         /\ Spare <= Spare'
<1>1. MaxRetries' = MaxRetries /\ alone' = alone /\ alone \in [retried : Nat, final : Nat]
  BY DEF MaxRetries, CallInv, TypeOK
<1>2. Tries' = 0
  BY DEF Tries
<1> QED BY <1>1, <1>2, LostCounts DEF Spare

\* A failure for good of one input pays for its vector.
LEMMA FinalPays ==
  ASSUME CallInv, pc = "reply", Fails("final"), provider' = provider,
         ~(pc' \in {"send", "reply"} /\ single')
  PROVE  /\ alone' \in [retried : Nat, final : Nat]
         /\ Spare <= Spare'
         /\ single => Spare + MaxRetries + 1 <= Spare'
<1>1. MaxRetries' = MaxRetries /\ Tries' = 0
  BY DEF MaxRetries, Tries
<1>2. CASE single
  <2>1. alone'.retried = alone.retried /\ alone'.final = alone.final + 1
    BY <1>2, FailsPays
  <2>2. Spare + MaxRetries + 1 <= Spare'
    <3>1. Spare' = alone.retried + (MaxRetries + 1) * (alone.final + 1)
      BY <1>1, <2>1, LostCounts DEF Spare
    <3>2. CASE MaxRetries = 3
      BY <3>1, <3>2, LostCounts DEF Spare
    <3>3. CASE MaxRetries = 4
      BY <3>1, <3>3, LostCounts DEF Spare
    <3> QED BY <3>2, <3>3, LostCounts
  <2>3. Spare' \in Int
    BY <1>1, <2>1, LostCounts DEF Spare
  <2>4. Spare <= Spare'
    BY <2>2, <2>3, LostCounts
  <2> QED BY <2>2, <2>4, FailsPays
<1>3. CASE ~single
  BY <1>3, FailsPays, NoCost
<1> QED BY <1>2, <1>3

LEMMA AnsweredKeeps == ASSUME CallInv, Answered, provider' = provider PROVE CallInv'
<1>1. PICK items \in Answers(Batch) : OneReturned(IntoVectors(items))
  BY DEF Answered
<1>2. pc = "reply" /\ UNCHANGED <<attempt, alone, rateVars, sent, spent>>
  BY DEF Answered
<1>3. IntoVectors(items) = Batch
  BY <1>2, BatchIsNext, AnswersSorted
<1>4. out' = out \o Batch /\ pc' = "next" /\ UNCHANGED <<texts, upto, single>>
  BY <1>1, <1>3 DEF OneReturned
<1>5. Batch \in Seq(Text \cup {Zero}) /\ \A i \in 1..Len(Batch) : Batch[i] # Zero
  BY <1>2, BatchIsNext, SeqMonotonic, ElementOfSeq, ConstantsAssumption
<1>6. spent' \in SpentType /\ single' \in BOOLEAN
  BY <1>2, <1>4 DEF SpentType, CallInv, TypeOK
<1>7. /\ Len(out) + Len(Batch) <= upto
      /\ \A i \in 1..Len(Batch) : Batch[i] \in {texts[Len(out) + i], Zero}
  BY <1>2, BatchIsNext
<1>8. \A i \in 1..Len(Batch) : Batch[i] = Zero => texts[Len(out) + i] \in Rotten
  BY <1>5
<1>9. alone' \in [retried : Nat, final : Nat] /\ Spare <= Spare'
  BY <1>2, <1>4, NoCost
<1> QED
  <2> DEFINE vs == Batch
  <2>1. /\ vs \in Seq(Text \cup {Zero}) /\ Len(out) + Len(vs) <= upto
        /\ \A i \in 1..Len(vs) : vs[i] \in {texts[Len(out) + i], Zero}
        /\ \A i \in 1..Len(vs) : vs[i] = Zero => texts[Len(out) + i] \in Rotten
        /\ out' = out \o vs
    BY <1>4, <1>5, <1>7, <1>8
  <2> HIDE DEF vs
  <2> QED BY <1>2, <1>4, <1>6, <1>9, <2>1, Extends

\* A failure for good: of one input it is paid for, of a batch it costs nothing.
LEMMA FinalKeeps ==
  ASSUME CallInv, pc = "reply", OneFailed, Fails("final"), spent' \in SpentType,
         UNCHANGED <<provider, attempt, rateVars, sent>>
  PROVE  CallInv'
<1>1. pc' = "next"
  BY DEF OneFailed
<1> QED BY <1>1, FinalPays, OneFails

LEMMA GarbledKeeps == ASSUME CallInv, Garbled, provider' = provider PROVE CallInv'
<1>1. /\ pc = "reply" /\ UNCHANGED <<attempt, rateVars, sent>>
      /\ Spend("garbled") /\ spent.garbled < MaxGarbled /\ Fails("final")
  BY DEF Garbled
<1>2. spent' \in SpentType
  BY <1>1, SpendsWithin
<1>3. CASE OneFailed
  BY <1>1, <1>2, <1>3, FinalKeeps
<1>4. CASE OneReturned(SubSeq(Batch, 2, Len(Batch)))
  <2>1. Len(SubSeq(Batch, 2, Len(Batch))) # Len(Batch)
    <3>1. Len(Batch) \in Nat \ {0} /\ \A i \in 2..Len(Batch) : Batch[i] \in Text
      BY <1>1, BatchIsNext, ElementOfSeq
    <3>2. Len(SubSeq(Batch, 2, Len(Batch))) = IF 2 <= Len(Batch) THEN Len(Batch) - 2 + 1 ELSE 0
      BY <3>1, SubSeqProperties, 2 \in Int, Len(Batch) \in Int
    <3> QED BY <3>1, <3>2
  <2>2. CASE pc' = "failed" /\ UNCHANGED callVars
    <3>1. alone' \in [retried : Nat, final : Nat] /\ Spare <= Spare'
      BY <1>1, <2>2, FinalPays
    <3> QED BY <1>1, <1>2, <2>2, <3>1, Keeps DEF CallInv, TypeOK, rateVars
  <2>3. CASE OneFailed
    BY <1>3, <2>3
  <2> QED BY <1>4, <2>1, <2>2, <2>3 DEF OneReturned
<1> QED BY <1>3, <1>4 DEF Garbled

LEMMA DeniedKeeps ==
  ASSUME CallInv, NEW outcome \in Outcomes, Denied(outcome), provider' = provider
  PROVE  CallInv'
<1>1. /\ pc = "reply" /\ UNCHANGED <<attempt, rateVars, sent>>
      /\ Spend("denied") /\ spent.denied < MaxDenied /\ Fails("final") /\ OneFailed
  BY DEF Denied
<1> QED BY <1>1, SpendsWithin, FinalKeeps

LEMMA FaultKeeps ==
  ASSUME CallInv, NEW outcome \in Outcomes, Fault(outcome), provider' = provider
  PROVE  CallInv'
<1>1. /\ pc = "reply" /\ UNCHANGED <<rateVars, sent>>
      /\ Spend("faults") /\ spent.faults < MaxFaults /\ Fails("retried")
  BY DEF Fault
<1>2. spent' \in SpentType /\ MaxRetries' = MaxRetries
  BY <1>1, SpendsWithin DEF MaxRetries
<1>3. alone' \in [retried : Nat, final : Nat]
  BY <1>1, FailsPays
<1>4. CASE attempt < MaxRetries
  <2>1. attempt' = attempt + 1 /\ pc' = "send" /\ UNCHANGED callVars /\ single' = single
    BY <1>4 DEF Fault, callVars
  <2>2. Spare <= Spare'
    <3>1. CASE single
      <4>1. alone'.retried = alone.retried + 1 /\ alone'.final = alone.final
        BY <1>1, <3>1, FailsPays
      <4>2. Tries = attempt /\ Tries' = attempt + 1
        BY <1>1, <2>1, <3>1 DEF Tries
      <4>3. Spare' = Spare
        BY <1>2, <4>1, <4>2, LostCounts DEF Spare
      <4> QED BY <4>3, LostCounts
    <3>2. CASE ~single
      BY <1>1, <2>1, <3>2, FailsPays, NoCost
    <3> QED BY <3>1, <3>2
  <2>3. attempt' \in 0..MaxRetries
    BY <1>4, <2>1, LostCounts
  <2> QED BY <1>1, <1>2, <1>3, <2>1, <2>2, <2>3, Keeps DEF CallInv, TypeOK, rateVars
<1>5. CASE ~(attempt < MaxRetries)
  <2>1. attempt' = attempt /\ OneFailed /\ pc' = "next" /\ attempt = MaxRetries
    BY <1>5, LostCounts DEF Fault, OneFailed
  <2>2. CASE single
    <3>1. alone'.retried = alone.retried + 1 /\ alone'.final = alone.final
      BY <1>1, <2>2, FailsPays
    <3>2. Tries = MaxRetries /\ Tries' = 0
      BY <1>1, <2>1, <2>2 DEF Tries
    <3>3. Spare' = Spare + MaxRetries + 1
      BY <1>2, <3>1, <3>2, LostCounts DEF Spare
    <3>4. Spare + MaxRetries + 1 <= Spare'
      BY <3>3, LostCounts
    <3> QED BY <1>1, <1>2, <1>3, <2>1, <3>4, OneFails
  <2>3. CASE ~single
    <3>1. Spare <= Spare'
      BY <1>1, <2>1, <2>3, FailsPays, NoCost
    <3> QED BY <1>1, <1>2, <1>3, <2>1, <2>3, <3>1, OneFails
  <2> QED BY <2>2, <2>3
<1> QED BY <1>4, <1>5

LEMMA NextBatchKeeps == ASSUME CallInv, NextBatch, provider' = provider PROVE CallInv'
<1>1. /\ UNCHANGED <<texts, out, attempt, alone, rateVars, sent, spent>>
      /\ pc' = "gate" /\ single' = FALSE /\ MaxRetries' = MaxRetries
  BY DEF NextBatch, MaxRetries
<1>2. Len(out) < upto' /\ upto' \in 0..Len(texts)
  BY LenProperties, ConstantsAssumption DEF NextBatch, CallInv, TypeOK
<1>3. TypeOK'
  BY <1>1, <1>2 DEF CallInv, TypeOK, rateVars
<1>4. CostInv'
  <2>1. Lost' = Lost
    BY <1>1 DEF Lost
  <2>2. Spare' \in Int /\ Spare <= Spare'
    BY <1>1, NoCost, LostCounts DEF Spare, Tries
  <2> QED BY <1>1, <2>1, <2>2, LostCounts, CostAfter
<1> QED BY <1>1, <1>2, <1>3, <1>4 DEF CallInv, Aligned

LEMMA CallStep == CallInv /\ [Next]_vars => CallInv'
<1> SUFFICES ASSUME CallInv, [Next]_vars PROVE CallInv'
  OBVIOUS
<1>0. provider' = provider
  BY DEF Next, Run, Encode, Tick, vars
<1>1. ASSUME NEW ts \in Inputs, Encode(ts) PROVE CallInv'
  <2>1. ts \in Seq(Text)
    BY <1>1, ConstantsAssumption DEF Inputs
  <2>2. spent' \in SpentType /\ alone' \in [retried : Nat, final : Nat]
    BY <1>1, SpendsWithin DEF Encode, NoFailures
  <2> QED BY <1>0, <1>1, <2>1, <2>2, Clears DEF Encode
<1>2. CASE NextBatch
  BY <1>0, <1>2, NextBatchKeeps
<1>3. ASSUME UNCHANGED spent PROVE spent' \in SpentType
  BY <1>3 DEF SpentType, CallInv, TypeOK
<1>4. CASE NextInput \/ Return \/ Permit \/ Send
  <2>1. UNCHANGED <<callVars, attempt, alone, rateVars, spent>> /\ sent' \in Nat
    BY <1>4 DEF NextInput, Return, Permit, Send, CallInv, TypeOK
  <2>2. /\ pc' \in {"gate", "returned", "send", "reply"}
        /\ pc' = "returned" => Len(out) = Len(texts)
        /\ pc' # "returned" => Len(out) < upto
    BY <1>4 DEF NextInput, Return, Permit, Send, CallInv
  <2>3. alone' \in [retried : Nat, final : Nat] /\ Spare <= Spare'
    <3>1. CASE NextInput \/ Return
      BY <1>0, <2>1, <3>1, NoCost DEF NextInput, Return
    <3>2. CASE Permit \/ Send
      <4>1. pc \in {"permit", "send"} /\ pc' \in {"send", "reply"} /\ single' = single
        BY <2>1, <3>2 DEF Permit, Send, callVars
      <4>2. Tries' = Tries
        BY <2>1, <3>2, <4>1 DEF Permit, Send, Tries, CallInv
      <4>3. MaxRetries' = MaxRetries /\ alone \in [retried : Nat, final : Nat]
        BY <1>0 DEF MaxRetries, CallInv, TypeOK
      <4>4. Spare' = Spare
        BY <2>1, <4>2, <4>3 DEF Spare
      <4> QED BY <2>1, <4>3, <4>4, LostCounts
    <3> QED BY <1>4, <3>1, <3>2
  <2> QED BY <1>0, <1>3, <2>1, <2>2, <2>3, Keeps DEF rateVars, CallInv, TypeOK
<1>5. CASE Done
  <2>1. alone' \in [retried : Nat, final : Nat]
    BY <1>5 DEF Done, CallInv, TypeOK
  <2> QED BY <1>0, <1>3, <1>5, <2>1, EmptySeq, Clears DEF Done
<1>6. CASE Gate
  <2>1. permits' \in Nat /\ gated' \in Nat
    BY <1>6 DEF Gate, CallInv, TypeOK
  <2>2. /\ UNCHANGED <<callVars, alone, ticks, sent, spent>> /\ pc' = "permit" /\ attempt' = 0
        /\ Len(out) < upto
    BY <1>6 DEF Gate, CallInv
  <2>3. alone' \in [retried : Nat, final : Nat] /\ Spare <= Spare'
    BY <1>0, <2>2, NoCost
  <2> QED BY <1>0, <1>3, <2>1, <2>2, <2>3, Constants, Keeps DEF CallInv, TypeOK
<1>7. CASE Answered
  BY <1>0, <1>7, AnsweredKeeps
<1>8. CASE Refused
  <2>1. pc = "reply" /\ OneFailed /\ pc' = "next" /\ UNCHANGED <<attempt, alone, rateVars, sent, spent>>
    BY <1>8 DEF Refused, OneFailed
  <2>2. PICK i \in DOMAIN Batch : Batch[i] \in Rotten
    BY <1>8 DEF Refused
  <2>3. ASSUME single PROVE texts[Len(out) + 1] \in Rotten
    <3>1. i \in 1..1
      BY <2>1, <2>2, <2>3, BatchIsNext
    <3>2. i = 1
      BY <3>1
    <3>3. Batch[i] = texts[Len(out) + i]
      BY <2>1, <2>2, BatchIsNext
    <3> QED BY <2>2, <3>2, <3>3
  <2>4. alone' \in [retried : Nat, final : Nat] /\ Spare <= Spare'
    BY <1>0, <2>1, NoCost
  <2> QED BY <1>0, <1>3, <2>1, <2>3, <2>4, OneFails
<1>9. CASE Garbled
  BY <1>0, <1>9, GarbledKeeps
<1>10. ASSUME NEW outcome \in Outcomes, Fault(outcome) PROVE CallInv'
  BY <1>0, <1>10, FaultKeeps
<1>11. ASSUME NEW outcome \in Outcomes, Denied(outcome) PROVE CallInv'
  BY <1>0, <1>11, DeniedKeeps
<1>12. CASE Tick
  <2>1. /\ UNCHANGED <<provider, pc, callVars, attempt, alone, sent, spent>>
        /\ permits' \in Nat /\ gated' \in Nat /\ ticks' \in 0..MaxTicks
    <3>1. MaxTicks \in Nat /\ permits \in Nat /\ gated \in Nat /\ ticks \in 0..MaxTicks
      BY ConstantsAssumption DEF CallInv, TypeOK
    <3> QED BY <1>12, <3>1 DEF Tick
  <2>2. alone' \in [retried : Nat, final : Nat] /\ Spare <= Spare'
    <3>1. Spare' = Spare /\ alone \in [retried : Nat, final : Nat]
      BY <2>1 DEF Spare, Tries, MaxRetries, callVars, CallInv, TypeOK
    <3> QED BY <2>1, <3>1, LostCounts
  <2> QED BY <1>3, <2>1, <2>2, Keeps DEF CallInv, TypeOK, Aligned
<1>13. CASE UNCHANGED vars
  BY <1>13 DEF vars, callVars, rateVars, CallInv, TypeOK, Aligned, CostInv, Lost, Spare, Tries,
     MaxRetries
<1> QED
  BY <1>1, <1>2, <1>4, <1>5, <1>6, <1>7, <1>8, <1>9, <1>10, <1>11, <1>12, <1>13 DEF Next, Run

LEMMA CallAlways == Spec => []CallInv
BY CallInit, CallStep, PTL DEF Spec

\* Types, for every configuration.
THEOREM EmbedderTypeCorrect == Spec => []TypeOK
<1>1. CallInv => TypeOK
  BY DEF CallInv
<1> QED BY CallAlways, <1>1, PTL

\* Whatever the size of batches and calls, the order of the answers and what
\* fails: the n-th vector is that of the n-th input, or zero.
THEOREM VectorsAligned == Spec => []Aligned
<1>1. CallInv => Aligned
  BY DEF CallInv
<1> QED BY CallAlways, <1>1, PTL

\* Either provider, whatever the size of batches and calls and however many
\* requests fail in which way: a failure of a batch costs no vector, and an
\* input the service does not refuse goes without only when the request for it
\* alone failed for good, or MAX_RETRIES + 1 times.
THEOREM FaultsLoseNothing == Spec => []GoodInputsGetVectors
<1>1. CallInv => GoodInputsGetVectors
  <2> SUFFICES ASSUME CallInv PROVE GoodInputsGetVectors
    OBVIOUS
  <2>1. Cardinality(Lost) * (MaxRetries + 1) <= Spare
    BY DEF CallInv, CostInv
  <2>2. Cardinality(Lost) * (MaxRetries + 1) \in Int
    BY LostCounts
  <2>3. Spare <= alone.retried + (MaxRetries + 1) * alone.final
    BY LostCounts DEF Spare
  <2> QED BY <2>1, <2>2, <2>3, LostCounts DEF GoodInputsGetVectors
<1> QED BY CallAlways, <1>1, PTL

=============================================================================
