------------------------- MODULE GeyserStreamProofs -------------------------
(***************************************************************************)
(* AsyncQueue keeps its promise for any values, any number of concurrent   *)
(* calls of next() and any order of pushes and closing; the subscription   *)
(* loop keeps it for every subscription and closes what it has opened.     *)
(***************************************************************************)
EXTENDS GeyserStream, SequenceTheorems, WellFoundedInduction, TLAPS

Outcomes(S) == {Q!Pending} \cup {Q!Closed(how) : how \in {"ended", "failed"}}
                      \cup {Q!Value(v) : v \in S}

\* What the n-th call of next() is promised.
Promised(n) ==
    IF n <= Len(accepted) THEN Q!Value(accepted[n])
    ELSE IF closed = "no" THEN Q!Pending ELSE Q!Closed(closed)

QueueTypeOK(S) ==
    /\ accepted \in Seq(S)
    /\ buffered \in Seq(S)
    /\ waiters \in Seq(Nat)
    /\ outcome \in Seq(Outcomes(S))
    /\ calls \in Nat
    /\ closed \in {"no", "ended", "failed"}

\* The buffer holds the values nobody has asked for.
BufferInv ==
    /\ Len(buffered) = IF calls < Len(accepted) THEN Len(accepted) - calls ELSE 0
    /\ \A i \in 1..Len(buffered) : buffered[i] = accepted[calls + i]

\* The calls that wait are those beyond the last value, in order.
WaitersInv ==
    /\ Len(waiters) = IF closed = "no" /\ Len(accepted) < calls
                      THEN calls - Len(accepted) ELSE 0
    /\ \A i \in 1..Len(waiters) : waiters[i] = Len(accepted) + i

OutcomeInv ==
    /\ Len(outcome) = calls
    /\ \A n \in 1..calls : outcome[n] = Promised(n)

QueueInv(S) == QueueTypeOK(S) /\ BufferInv /\ WaitersInv /\ OutcomeInv

\* The outcomes a call can have.
LEMMA OutcomesAre ==
    ASSUME NEW S
    PROVE  /\ Q!Pending \in Outcomes(S)
           /\ \A how \in {"ended", "failed"} : Q!Closed(how) \in Outcomes(S)
           /\ \A v \in S : Q!Value(v) \in Outcomes(S)
  BY DEF Outcomes

\* An empty queue keeps every promise.
LEMMA QueueInvInit ==
    ASSUME NEW S, Q!QueueInit
    PROVE  QueueInv(S)
  BY SMT DEF Q!QueueInit, QueueInv, QueueTypeOK, BufferInv, WaitersInv, OutcomeInv

\* Only the promise of the calls beyond the last value changes as values are
\* accepted or the queue is closed.
LEMMA NextCallKeepsInv ==
    ASSUME NEW S, QueueInv(S), Q!NextCall
    PROVE  QueueInv(S)'
<1>t. QueueTypeOK(S)
  BY DEF QueueInv
<1>o. ASSUME NEW x \in Outcomes(S), outcome' = Append(outcome, x), x = Promised(calls + 1)
      PROVE  outcome' \in Seq(Outcomes(S)) /\ OutcomeInv'
  <2>1. /\ outcome' \in Seq(Outcomes(S))
        /\ Len(outcome') = calls + 1
        /\ outcome'[calls + 1] = x
        /\ \A n \in 1..calls : outcome'[n] = outcome[n]
    BY <1>t, <1>o, AppendProperties DEF QueueInv, QueueTypeOK, OutcomeInv
  <2>2. calls' = calls + 1 /\ \A n : Promised(n)' = Promised(n)
    BY DEF Q!NextCall, Promised
  <2>3. \A n \in 1..calls' : outcome'[n] = Promised(n)
    BY <1>t, <1>o, <2>1, <2>2 DEF QueueInv, QueueTypeOK, OutcomeInv
  <2>4. QED  BY <2>1, <2>2, <2>3 DEF OutcomeInv
<1>1. CASE buffered # <<>>
  <2>1. /\ Len(buffered) > 0 /\ Head(buffered) = buffered[1]
        /\ buffered' \in Seq(S)
        /\ Len(buffered') = Len(buffered) - 1
        /\ \A i \in 1..Len(buffered') : buffered'[i] = buffered[i + 1]
    <3>1. buffered \in Seq(S) /\ Len(buffered) \in Nat \ {0}
      BY <1>t, <1>1, EmptySeq DEF QueueTypeOK
    <3>2. Head(buffered) = buffered[1]
      BY <1>1, <3>1
    <3>3. buffered' = Tail(buffered)
      BY <1>1 DEF Q!NextCall, Q!HandOut
    <3>4. QED  BY <1>1, <3>1, <3>2, <3>3, HeadTailProperties
  <2>2. calls < Len(accepted) /\ Head(buffered) = accepted[calls + 1]
    <3>1. calls \in Nat /\ Len(accepted) \in Nat /\ Len(buffered) \in Nat
      BY <1>t, LenProperties DEF QueueTypeOK
    <3>2. calls < Len(accepted)
      BY <2>1, <3>1 DEF QueueInv, BufferInv
    <3>3. 1 \in 1..Len(buffered)
      BY <2>1, <3>1
    <3>4. QED  BY <2>1, <3>2, <3>3 DEF QueueInv, BufferInv
  <2>3. Q!Value(Head(buffered)) \in Outcomes(S) /\ Q!Value(Head(buffered)) = Promised(calls + 1)
    BY <1>t, <2>2, OutcomesAre DEF QueueTypeOK, Promised
  <2>4. outcome' \in Seq(Outcomes(S)) /\ OutcomeInv'
    BY <1>1, <1>o, <2>3 DEF Q!NextCall, Q!HandOut
  <2>u. calls' = calls + 1 /\ accepted' = accepted /\ closed' = closed /\ waiters' = waiters
    BY <1>1 DEF Q!NextCall, Q!HandOut
  <2>n. calls \in Nat /\ Len(accepted) \in Nat /\ Len(buffered) \in Nat
    BY <1>t, LenProperties DEF QueueTypeOK
  <2>5. BufferInv'
    <3>1. Len(buffered) = Len(accepted) - calls
      BY <2>2, <2>n DEF QueueInv, BufferInv
    <3>2. ASSUME NEW i \in 1..Len(buffered') PROVE buffered'[i] = accepted[calls + 1 + i]
      <4>1. i + 1 \in 1..Len(buffered) /\ calls + (i + 1) = calls + 1 + i
        BY <2>1, <2>n
      <4>2. QED  BY <2>1, <4>1 DEF QueueInv, BufferInv
    <3>3. Len(buffered') = IF calls + 1 < Len(accepted) THEN Len(accepted) - (calls + 1) ELSE 0
      BY <2>1, <2>2, <2>n, <3>1
    <3>4. QED  BY <2>u, <3>2, <3>3 DEF BufferInv
  <2>6. WaitersInv'
    <3>1. Len(waiters) = 0
      BY <2>2, <2>n DEF QueueInv, WaitersInv
    <3>2. ~(Len(accepted) < calls + 1)
      BY <2>2, <2>n
    <3>3. QED  BY <2>u, <3>1, <3>2 DEF WaitersInv
  <2>7. QueueTypeOK(S)'
    BY <1>t, <1>1, <2>1, <2>4 DEF Q!NextCall, Q!HandOut, QueueTypeOK
  <2>8. QED  BY <2>4, <2>5, <2>6, <2>7 DEF QueueInv
<1>2. CASE buffered = <<>> /\ closed # "no"
  <2>1. Len(accepted) <= calls
    BY <1>t, <1>2 DEF QueueInv, QueueTypeOK, BufferInv
  <2>2. Q!Closed(closed) \in Outcomes(S) /\ Q!Closed(closed) = Promised(calls + 1)
    BY <1>t, <1>2, <2>1, OutcomesAre DEF QueueTypeOK, Promised
  <2>3. outcome' \in Seq(Outcomes(S)) /\ OutcomeInv'
    BY <1>2, <1>o, <2>2 DEF Q!NextCall, Q!TellClosed
  <2>4. BufferInv' /\ WaitersInv' /\ QueueTypeOK(S)'
    BY <1>t, <1>2, <2>1, <2>3 DEF Q!NextCall, Q!TellClosed, QueueInv, QueueTypeOK, BufferInv, WaitersInv
  <2>5. QED  BY <2>3, <2>4 DEF QueueInv
<1>3. CASE buffered = <<>> /\ closed = "no"
  <2>1. Len(accepted) <= calls
    BY <1>t, <1>3 DEF QueueInv, QueueTypeOK, BufferInv
  <2>2. Q!Pending \in Outcomes(S) /\ Q!Pending = Promised(calls + 1)
    BY <1>t, <1>3, <2>1, OutcomesAre DEF QueueTypeOK, Promised
  <2>3. outcome' \in Seq(Outcomes(S)) /\ OutcomeInv'
    BY <1>3, <1>o, <2>2 DEF Q!NextCall, Q!Wait
  <2>4. /\ waiters' \in Seq(Nat)
        /\ Len(waiters') = Len(waiters) + 1
        /\ waiters'[Len(waiters) + 1] = calls + 1
        /\ \A i \in 1..Len(waiters) : waiters'[i] = waiters[i]
    <3>1. waiters \in Seq(Nat) /\ calls + 1 \in Nat
      BY <1>t DEF QueueTypeOK
    <3>2. waiters' = Append(waiters, calls + 1)
      BY <1>3 DEF Q!NextCall, Q!Wait
    <3>3. QED  BY <3>1, <3>2, AppendProperties
  <2>u. calls' = calls + 1 /\ accepted' = accepted /\ closed' = closed /\ buffered' = buffered
    BY <1>3 DEF Q!NextCall, Q!Wait
  <2>n. calls \in Nat /\ Len(accepted) \in Nat /\ Len(waiters) \in Nat
    BY <1>t, LenProperties DEF QueueTypeOK
  <2>5. WaitersInv'
    <3>1. Len(waiters) = calls - Len(accepted)
      BY <1>3, <2>1, <2>n DEF QueueInv, WaitersInv
    <3>2. Len(waiters') = calls + 1 - Len(accepted)
      BY <2>4, <2>n, <3>1
    <3>3. ASSUME NEW i \in 1..Len(waiters') PROVE waiters'[i] = Len(accepted) + i
      <4>1. CASE i = Len(waiters) + 1
        BY <2>4, <2>n, <3>1, <4>1
      <4>2. CASE i \in 1..Len(waiters)
        BY <2>4, <4>2 DEF QueueInv, WaitersInv
      <4>3. QED  BY <2>4, <2>n, <4>1, <4>2
    <3>4. Len(accepted) < calls + 1
      BY <2>1, <2>n
    <3>5. closed' = "no" /\ Len(accepted') < calls' /\ Len(waiters') = calls' - Len(accepted')
      <4>1. Len(accepted') = Len(accepted) /\ closed' = "no" /\ calls' = calls + 1
        BY <1>3, <2>u
      <4>2. QED  BY <2>n, <3>2, <3>4, <4>1
    <3>6. \A i \in 1..Len(waiters') : waiters'[i] = Len(accepted') + i
      BY <2>u, <3>3
    <3>7. QED  BY <3>5, <3>6 DEF WaitersInv
  <2>6. BufferInv' /\ QueueTypeOK(S)'
    <3>1. Len(buffered) = 0
      BY <1>3, EmptySeq
    <3>2. ~(calls + 1 < Len(accepted))
      BY <2>1, <2>n
    <3>3. BufferInv'
      BY <2>u, <3>1, <3>2 DEF BufferInv
    <3>4. QueueTypeOK(S)'
      BY <1>t, <2>3, <2>4, <2>u DEF QueueTypeOK
    <3>5. QED  BY <3>3, <3>4
  <2>7. QED  BY <2>3, <2>5, <2>6 DEF QueueInv
<1>4. QED  BY <1>1, <1>2, <1>3

\* A pushed value goes to the call that has waited longest, or behind the values
\* nobody has asked for.
LEMMA PushKeepsInv ==
    ASSUME NEW S, QueueInv(S), NEW v \in S, Q!Push(v)
    PROVE  QueueInv(S)'
<1>t. QueueTypeOK(S) /\ calls \in Nat /\ Len(accepted) \in Nat
  BY LenProperties DEF QueueInv, QueueTypeOK
<1>0. CASE closed # "no"
  BY <1>0 DEF Q!Push, Q!queue, QueueInv, QueueTypeOK, BufferInv, WaitersInv, OutcomeInv, Promised
<1>a. CASE closed = "no"
  <2>1. accepted' = Append(accepted, v) /\ calls' = calls /\ closed' = closed
    BY <1>a DEF Q!Push
  <2>2. /\ accepted' \in Seq(S)
        /\ Len(accepted') = Len(accepted) + 1
        /\ accepted'[Len(accepted) + 1] = v
        /\ \A i \in 1..Len(accepted) : accepted'[i] = accepted[i]
    BY <1>t, <2>1, AppendProperties DEF QueueTypeOK
  <2>3. CASE waiters # <<>>
    <3>1. /\ waiters \in Seq(Nat) /\ Len(waiters) \in Nat \ {0}
          /\ Head(waiters) = waiters[1]
      BY <1>t, <2>3, EmptySeq DEF QueueTypeOK
    <3>2. Len(accepted) < calls /\ Len(waiters) = calls - Len(accepted)
      BY <1>t, <1>a, <3>1 DEF QueueInv, WaitersInv
    <3>3. Head(waiters) = Len(accepted) + 1
      <4>1. 1 \in 1..Len(waiters)
        BY <3>1
      <4>2. QED  BY <3>1, <4>1 DEF QueueInv, WaitersInv
    <3>4. /\ outcome' = [outcome EXCEPT ![Len(accepted) + 1] = Q!Value(v)]
          /\ waiters' = Tail(waiters) /\ buffered' = buffered
      BY <1>a, <2>3, <3>3 DEF Q!Push
    <3>5. /\ waiters' \in Seq(Nat) /\ Len(waiters') = Len(waiters) - 1
          /\ \A i \in 1..Len(waiters') : waiters'[i] = waiters[i + 1]
      BY <2>3, <3>1, <3>4, HeadTailProperties
    <3>6. WaitersInv'
      <4>1. ASSUME NEW i \in 1..Len(waiters') PROVE waiters'[i] = Len(accepted') + i
        <5>1. i + 1 \in 1..Len(waiters)
          BY <3>1, <3>5
        <5>2. waiters[i + 1] = Len(accepted) + (i + 1)
          BY <5>1 DEF QueueInv, WaitersInv
        <5>3. QED  BY <1>t, <2>2, <3>5, <5>2
      <4>2. Len(waiters') = IF closed' = "no" /\ Len(accepted') < calls'
                            THEN calls' - Len(accepted') ELSE 0
        BY <1>t, <1>a, <2>1, <2>2, <3>2, <3>5
      <4>3. QED  BY <4>1, <4>2 DEF WaitersInv
    <3>7. BufferInv'
      <4>1. Len(buffered) = 0
        BY <1>t, <3>2 DEF QueueInv, BufferInv
      <4>2. ~(calls' < Len(accepted'))
        BY <1>t, <2>1, <2>2, <3>2
      <4>3. Len(buffered') = 0
        BY <3>4, <4>1
      <4>4. QED  BY <4>2, <4>3 DEF BufferInv
    <3>8. outcome' \in Seq(Outcomes(S)) /\ OutcomeInv'
      <4>1. outcome \in Seq(Outcomes(S)) /\ Len(outcome) = calls /\ Len(accepted) + 1 \in 1..calls
        BY <1>t, <3>2 DEF QueueInv, QueueTypeOK, OutcomeInv
      <4>2. /\ outcome' \in Seq(Outcomes(S)) /\ Len(outcome') = calls
            /\ outcome'[Len(accepted) + 1] = Q!Value(v)
            /\ \A n \in 1..calls : n # Len(accepted) + 1 => outcome'[n] = outcome[n]
        BY <3>4, <4>1, OutcomesAre, ExceptSeq
      <4>3. ASSUME NEW n \in 1..calls PROVE outcome'[n] = Promised(n)'
        <5>1. CASE n = Len(accepted) + 1
          BY <1>t, <2>2, <4>2, <5>1 DEF Promised
        <5>2. CASE n \in 1..Len(accepted)
          BY <1>t, <2>2, <4>2, <5>2 DEF Promised, QueueInv, OutcomeInv
        <5>3. CASE n > Len(accepted) + 1
          BY <1>t, <2>1, <2>2, <4>2, <5>3 DEF Promised, QueueInv, OutcomeInv
        <5>4. QED  BY <1>t, <5>1, <5>2, <5>3
      <4>4. QED  BY <2>1, <4>2, <4>3 DEF OutcomeInv
    <3>9. QueueTypeOK(S)'
      BY <1>t, <2>1, <2>2, <3>4, <3>5, <3>8 DEF QueueTypeOK
    <3>10. QED  BY <3>6, <3>7, <3>8, <3>9 DEF QueueInv
  <2>4. CASE waiters = <<>>
    <3>1. buffered' = Append(buffered, v) /\ outcome' = outcome /\ waiters' = waiters
      BY <1>a, <2>4 DEF Q!Push
    <3>2. Len(waiters) = 0 /\ calls <= Len(accepted)
      BY <1>t, <1>a, <2>4, EmptySeq DEF QueueInv, WaitersInv
    <3>3. buffered \in Seq(S) /\ Len(buffered) \in Nat /\ Len(buffered) = Len(accepted) - calls
      BY <1>t, <3>2, LenProperties DEF QueueInv, QueueTypeOK, BufferInv
    <3>4. /\ buffered' \in Seq(S) /\ Len(buffered') = Len(buffered) + 1
          /\ buffered'[Len(buffered) + 1] = v
          /\ \A i \in 1..Len(buffered) : buffered'[i] = buffered[i]
      BY <3>1, <3>3, AppendProperties
    <3>5. BufferInv'
      <4>1. ASSUME NEW i \in 1..Len(buffered') PROVE buffered'[i] = accepted'[calls + i]
        <5>1. CASE i = Len(buffered) + 1
          BY <1>t, <2>2, <3>3, <3>4, <5>1
        <5>2. CASE i \in 1..Len(buffered)
          <6>1. buffered[i] = accepted[calls + i] /\ calls + i \in 1..Len(accepted)
            BY <1>t, <3>3, <5>2 DEF QueueInv, BufferInv
          <6>2. QED  BY <2>2, <3>4, <5>2, <6>1
        <5>3. QED  BY <3>3, <3>4, <5>1, <5>2
      <4>2. Len(buffered') = Len(accepted') - calls' /\ calls' < Len(accepted')
        BY <1>t, <2>1, <2>2, <3>2, <3>3, <3>4
      <4>3. QED  BY <2>1, <4>1, <4>2 DEF BufferInv
    <3>6. WaitersInv'
      <4>1. ~(Len(accepted') < calls') /\ Len(waiters') = 0
        BY <1>t, <2>1, <2>2, <3>1, <3>2
      <4>2. QED  BY <4>1 DEF WaitersInv
    <3>7. OutcomeInv'
      BY <1>t, <2>1, <2>2, <3>1, <3>2 DEF OutcomeInv, Promised, QueueInv
    <3>8. QueueTypeOK(S)'
      BY <1>t, <2>1, <2>2, <3>1, <3>4 DEF QueueTypeOK
    <3>9. QED  BY <3>5, <3>6, <3>7, <3>8 DEF QueueInv
  <2>5. QED  BY <2>3, <2>4
<1>b. QED  BY <1>0, <1>a

\* Closing settles the calls beyond the last value, and no other.
LEMMA CloseKeepsInv ==
    ASSUME NEW S, QueueInv(S), NEW how \in {"ended", "failed"}, Q!Close(how)
    PROVE  QueueInv(S)'
<1>t. QueueTypeOK(S) /\ calls \in Nat /\ Len(accepted) \in Nat
  BY LenProperties DEF QueueInv, QueueTypeOK
<1>0. CASE closed # "no"
  BY <1>0 DEF Q!Close, Q!queue, QueueInv, QueueTypeOK, BufferInv, WaitersInv, OutcomeInv, Promised
<1>a. CASE closed = "no"
  <2>1. /\ closed' = how /\ waiters' = <<>>
        /\ buffered' = buffered /\ calls' = calls /\ accepted' = accepted
        /\ outcome' = [n \in 1..calls |-> IF Q!IsWaiting(n) THEN Q!Closed(how) ELSE outcome[n]]
    BY <1>a DEF Q!Close
  <2>2. ASSUME NEW n \in 1..calls PROVE Q!IsWaiting(n) <=> Len(accepted) < n
    <3>1. waiters \in Seq(Nat) /\ DOMAIN waiters = 1..Len(waiters) /\ Len(waiters) \in Nat
      BY <1>t, LenProperties DEF QueueTypeOK
    <3>2. ASSUME Len(accepted) < n PROVE Q!IsWaiting(n)
      <4>1. Len(waiters) = calls - Len(accepted)
        BY <1>t, <1>a, <3>2 DEF QueueInv, WaitersInv
      <4>2. n - Len(accepted) \in 1..Len(waiters)
        BY <1>t, <3>2, <4>1
      <4>3. waiters[n - Len(accepted)] = Len(accepted) + (n - Len(accepted))
        BY <4>2 DEF QueueInv, WaitersInv
      <4>4. QED  BY <1>t, <3>1, <4>2, <4>3 DEF Q!IsWaiting
    <3>3. ASSUME Q!IsWaiting(n) PROVE Len(accepted) < n
      <4>1. PICK i \in 1..Len(waiters) : waiters[i] = n
        BY <3>1, <3>3 DEF Q!IsWaiting
      <4>2. n = Len(accepted) + i
        BY <4>1 DEF QueueInv, WaitersInv
      <4>3. QED  BY <1>t, <3>1, <4>2
    <3>4. QED  BY <3>2, <3>3
  <2>3. \A n \in 1..calls : outcome'[n] = Promised(n)'
    <3>1. ASSUME NEW n \in 1..calls PROVE outcome'[n] = Promised(n)'
      <4>1. CASE Len(accepted) < n
        BY <1>t, <2>1, <2>2, <4>1 DEF Promised
      <4>2. CASE n <= Len(accepted)
        BY <1>t, <2>1, <2>2, <4>2 DEF Promised, QueueInv, OutcomeInv
      <4>3. QED  BY <1>t, <4>1, <4>2
    <3>2. QED  BY <3>1
  <2>4. outcome' \in Seq(Outcomes(S)) /\ Len(outcome') = calls
    <3>1. ASSUME NEW n \in 1..calls
          PROVE  (IF Q!IsWaiting(n) THEN Q!Closed(how) ELSE outcome[n]) \in Outcomes(S)
      BY <1>t, OutcomesAre, ElementOfSeq DEF QueueInv, QueueTypeOK, OutcomeInv
    <3>2. outcome' \in [1..calls -> Outcomes(S)]
      BY <2>1, <3>1
    <3>3. QED  BY <1>t, <3>2, SeqDef
  <2>5. BufferInv' /\ QueueTypeOK(S)'
    BY <1>t, <2>1, <2>4, EmptySeq DEF QueueInv, QueueTypeOK, BufferInv
  <2>6. WaitersInv'
    BY <2>1 DEF WaitersInv
  <2>7. QED  BY <2>1, <2>3, <2>4, <2>5, <2>6 DEF QueueInv, OutcomeInv
<1>b. QED  BY <1>0, <1>a

LEMMA QueueUnchanged ==
    ASSUME NEW S, QueueInv(S), UNCHANGED queue
    PROVE  QueueInv(S)'
BY DEF queue, QueueInv, QueueTypeOK, BufferInv, WaitersInv, OutcomeInv, Promised

LEMMA QueueKeepsPromise ==
    ASSUME NEW S, QueueInv(S)
    PROVE  InOrder
<1>1. outcome \in Seq(Outcomes(S)) /\ Len(outcome) = calls
  BY DEF QueueInv, QueueTypeOK, OutcomeInv
<1>2. outcome \in [1..calls -> Outcomes(S)]
  BY <1>1, LenProperties
<1>3. outcome = [n \in 1..calls |-> Promised(n)]
  BY <1>2 DEF QueueInv, OutcomeInv
<1> QED
  BY <1>3 DEF InOrder, Q!InOrder, Promised

\* The n-th call of next() gets the n-th value pushed, and one beyond the last
\* value learns how the queue was closed, for every producer and consumer of an
\* AsyncQueue of any values.
THEOREM NthCallGetsNthValue ==
    ASSUME NEW Vals
    PROVE  Q!QueueInit /\ [][Q!NextCall \/ Q!End \/ Q!Fail \/ \E v \in Vals : Q!Push(v)]_queue
           => []InOrder
<1>1. Q!QueueInit => QueueInv(Vals)
  BY QueueInvInit
<1>2. QueueInv(Vals) /\ [Q!NextCall \/ Q!End \/ Q!Fail \/ \E v \in Vals : Q!Push(v)]_queue
      => QueueInv(Vals)'
  BY NextCallKeepsInv, PushKeepsInv, CloseKeepsInv, QueueUnchanged DEF Q!End, Q!Fail
<1>3. QueueInv(Vals) => InOrder
  BY QueueKeepsPromise
<1> QED
  BY <1>1, <1>2, <1>3, PTL

----------------------------------------------------------------------------
(* The subscription loop *)

\* Whatever the sources push are values of the queue.
StreamQueueInv == \E S : QueueInv(S)

\* A queue of some values is one of more values.
LEMMA MoreValues ==
    ASSUME NEW S, NEW T, QueueInv(S), S \subseteq T
    PROVE  QueueInv(T)
<1>1. Outcomes(S) \subseteq Outcomes(T)
  BY DEF Outcomes
<1>2. /\ accepted \in Seq(T) /\ buffered \in Seq(T)
      /\ outcome \in Seq(Outcomes(T))
  <2>1. \A A, B : A \subseteq B => Seq(A) \subseteq Seq(B)
    OBVIOUS
  <2> QED
    BY <1>1, <2>1 DEF QueueInv, QueueTypeOK
<1> QED
  BY <1>2 DEF QueueInv, QueueTypeOK

LEMMA PushKeepsStream ==
    ASSUME StreamQueueInv, NEW v, Q!Push(v)
    PROVE  StreamQueueInv'
<1>1. PICK S : QueueInv(S)
  BY DEF StreamQueueInv
<1>2. QueueInv(S \cup {v})
  BY <1>1, MoreValues
<1>3. QueueInv(S \cup {v})'
  BY <1>2, PushKeepsInv
<1> QED
  BY <1>3 DEF StreamQueueInv

LEMMA StreamQueueInvNext == StreamQueueInv /\ [Next]_vars => StreamQueueInv'
<1> SUFFICES ASSUME StreamQueueInv, [Next]_vars PROVE StreamQueueInv'
  OBVIOUS
<1>1. PICK S : QueueInv(S)
  BY DEF StreamQueueInv
<1>2. CASE UNCHANGED queue
  BY <1>1, <1>2, QueueUnchanged DEF StreamQueueInv
<1>3. CASE Q!NextCall
  BY <1>1, <1>3, NextCallKeepsInv DEF StreamQueueInv
<1>4. CASE Q!End \/ Q!Fail
  BY <1>1, <1>4, CloseKeepsInv DEF StreamQueueInv, Q!End, Q!Fail
<1>5. CASE \E v : Q!Push(v)
  BY <1>5, PushKeepsStream
<1>6. CASE NewQueue
  <2>1. QueueInv({})'
    BY <1>6 DEF NewQueue, QueueInv, QueueTypeOK, BufferInv, WaitersInv, OutcomeInv
  <2> QED
    BY <2>1 DEF StreamQueueInv
<1>7. CASE UNCHANGED vars
  BY <1>2, <1>7 DEF vars
<1>8. CASE Indexer
  BY <1>2, <1>3, <1>4, <1>6, <1>8
     DEF Indexer, Subscribe, ConnectFails, Written, WriteFails, Ask, TakeUpdate, HandleEnds,
         LeaveLoop, Reconnect, CloseSubscription
<1>9. CASE PushBurst \/ Abort \/ StreamData \/ StreamDown \/ IntraslotTick \/ SlotTick \/ CashbackTick
  BY <1>2, <1>4, <1>5, <1>9
     DEF PushBurst, Abort, StreamData, StreamDown, IntraslotTick, SlotTick, CashbackTick,
         CloseSubscription
<1> QED
  BY <1>7, <1>8, <1>9 DEF Next

\* For any requests, updates and number of subscriptions: the queue of every
\* subscription hands out what was pushed, in order, whatever the interleaving of
\* timers, stream events, the abort and the loop.
THEOREM EverySubscriptionInOrder == Spec => []InOrder
<1>1. Init => StreamQueueInv
  <2> SUFFICES ASSUME Init PROVE StreamQueueInv
    OBVIOUS
  <2>1. QueueInv({})
    BY QueueInvInit DEF Init
  <2> QED
    BY <2>1 DEF StreamQueueInv
<1>2. StreamQueueInv => InOrder
  BY QueueKeepsPromise DEF StreamQueueInv
<1> QED
  BY <1>1, <1>2, StreamQueueInvNext, PTL DEF Spec

\* For any number of subscriptions: no stream and no timer outlives its
\* subscription, however it ended, except that of a stream whose first write
\* failed.
THEOREM NothingLeftRunningAlways == Spec => []NothingLeftRunning
<1>1. Init => NothingLeftRunning
  BY DEF Init, NothingLeftRunning
<1>2. NothingLeftRunning /\ [Next]_vars => NothingLeftRunning'
  <2> SUFFICES ASSUME NothingLeftRunning, [Next]_vars PROVE NothingLeftRunning'
    OBVIOUS
  <2>1. CASE UNCHANGED vars
    BY <2>1 DEF vars, loop, NothingLeftRunning
  <2>2. CASE Subscribe
    BY <2>2 DEF Subscribe, NothingLeftRunning
  <2>3. CASE ConnectFails \/ Reconnect
    BY <2>3 DEF ConnectFails, Reconnect, Leave, NothingLeftRunning
  <2>4. CASE Written \/ Ask \/ TakeUpdate \/ HandleEnds
    BY <2>4 DEF Written, Ask, TakeUpdate, HandleEnds, NothingLeftRunning
  <2>5. CASE WriteFails
    BY <2>5 DEF WriteFails, Leave, NothingLeftRunning
  <2>6. CASE LeaveLoop
    BY <2>6 DEF LeaveLoop, CloseSubscription, Leave, NothingLeftRunning
  <2>7. CASE Abort
    BY <2>7 DEF Abort, CloseSubscription, Listening, loop, NothingLeftRunning
  <2>8. CASE PushBurst \/ StreamData \/ StreamDown \/ IntraslotTick \/ SlotTick \/ CashbackTick
    BY <2>8 DEF PushBurst, StreamData, StreamDown, IntraslotTick, SlotTick, CashbackTick,
                loop, NothingLeftRunning
  <2> QED
    BY <2>1, <2>2, <2>3, <2>4, <2>5, <2>6, <2>7, <2>8 DEF Next, Indexer
<1> QED
  BY <1>1, <1>2, PTL DEF Spec

-----------------------------------------------------------------------------
(* Account data *)

\* Induction over the naturals, for a set instead of a predicate.
LEMMA NatSetInduction ==
    ASSUME NEW T \in SUBSET Nat, 0 \in T, \A n \in T : n + 1 \in T
    PROVE  T = Nat
<1> DEFINE Rel == OpToRel(<, Nat)
           U == Nat \ T
<1>1. IsWellFoundedOn(Rel, Nat)
  BY NatLessThanWellFounded
<1>2. \A m, n \in Nat : <<m, n>> \in Rel <=> m < n
  BY DEF OpToRel
<1> HIDE DEF Rel, U
<1>3. SUFFICES ASSUME U # {} PROVE FALSE
  BY DEF U
<1>4. U \subseteq Nat
  BY DEF U
<1>5. PICK x \in U : \A y \in U : ~(<<y, x>> \in Rel)
  BY <1>1, <1>3, <1>4, WFMin
<1>6. x \in Nat /\ x # 0 /\ x - 1 \in Nat /\ x - 1 < x
  BY <1>5 DEF U
<1>7. x - 1 \in T
  BY <1>2, <1>5, <1>6 DEF U
<1>8. (x - 1) + 1 \in T
  BY <1>7
<1>9. (x - 1) + 1 = x
  BY <1>6
<1> QED
  BY <1>5, <1>8, <1>9 DEF U

\* Data before any filter.
Blank(size) == [i \in 1..size |-> Noise]

\* g has the data after each of the first n filters.
WrittenUpTo(filters, size, g, n) ==
    \A m \in 0..n : g[m] = IF m = 0 THEN Blank(size) ELSE WriteFilter(g[m - 1], filters[m])

LEMMA WritingExists ==
    ASSUME NEW filters, NEW size
    PROVE  \A n \in Nat : \E g : WrittenUpTo(filters, size, g, n)
<1> DEFINE T == {n \in Nat : \E g : WrittenUpTo(filters, size, g, n)}
<1>1. 0 \in T
  <2>1. WrittenUpTo(filters, size, [m \in Nat |-> Blank(size)], 0)
    BY DEF WrittenUpTo
  <2> QED
    BY <2>1
<1>2. ASSUME NEW n \in T PROVE n + 1 \in T
  <2>0. n \in Nat /\ n + 1 \in Nat
    BY <1>2
  <2>1. PICK g : WrittenUpTo(filters, size, g, n)
    BY <1>2
  <2> DEFINE next == WriteFilter(g[n], filters[n + 1])
             h == [m \in Nat |-> IF m = n + 1 THEN next ELSE g[m]]
  <2> HIDE DEF next
  <2>2. /\ h[n + 1] = next
        /\ \A m \in 0..n : h[m] = g[m]
    BY <2>0
  <2> HIDE DEF h
  <2>3. ASSUME NEW m \in 0..(n + 1)
        PROVE  h[m] = IF m = 0 THEN Blank(size) ELSE WriteFilter(h[m - 1], filters[m])
    <3>1. CASE m = n + 1
      <4>1. m # 0 /\ m - 1 = n /\ n \in 0..n
        BY <2>0, <3>1
      <4>2. h[m] = WriteFilter(g[n], filters[n + 1]) /\ h[n] = g[n]
        BY <2>2, <3>1, <4>1 DEF next
      <4> QED
        BY <3>1, <4>1, <4>2, Zenon
    <3>2. CASE m # n + 1
      <4>1. m \in 0..n /\ (m # 0 => m - 1 \in 0..n)
        BY <2>0, <3>2
      <4> QED
        BY <2>1, <2>2, <4>1, Zenon DEF WrittenUpTo
    <3> QED
      BY <3>1, <3>2
  <2>4. WrittenUpTo(filters, size, h, n + 1)
    BY <2>3 DEF WrittenUpTo
  <2> QED
    BY <2>0, <2>4
<1> HIDE DEF T
<1>3. T = Nat
  BY <1>1, <1>2, NatSetInduction DEF T
<1> QED
  BY <1>3 DEF T

\* The equation whose solution BuildAccountData chooses.
WritingStep(filters, size, g) ==
    [n \in 0..Len(filters) |->
        IF n = 0 THEN [i \in 1..size |-> Noise] ELSE WriteFilter(g[n - 1], filters[n])]

\* The data is what the filters write, one after the other.
LEMMA DataIsWritten ==
    ASSUME NEW filters, Len(filters) \in Nat, NEW size
    PROVE  \E g : /\ WrittenUpTo(filters, size, g, Len(filters))
                  /\ BuildAccountData(filters, size) = g[Len(filters)]
<1> DEFINE n == Len(filters)
           d == CHOOSE g : g = WritingStep(filters, size, g)
<1>1. PICK g : WrittenUpTo(filters, size, g, n)
  BY WritingExists
<1> DEFINE w == [m \in 0..n |-> g[m]]
<1>2. w = WritingStep(filters, size, w)
  <2>1. ASSUME NEW m \in 0..n
        PROVE  w[m] = IF m = 0 THEN Blank(size) ELSE WriteFilter(w[m - 1], filters[m])
    <3>1. m # 0 => m - 1 \in 0..n
      OBVIOUS
    <3> QED
      BY <1>1, <3>1, Zenon DEF WrittenUpTo
  <2> QED
    BY <2>1, Zenon DEF WritingStep, Blank
<1> HIDE DEF w
<1>3. d = WritingStep(filters, size, d)
  BY <1>2
<1>4. BuildAccountData(filters, size) = d[n]
  BY DEF BuildAccountData, WritingStep
<1> HIDE DEF d
<1>5. WrittenUpTo(filters, size, d, n)
  <2>1. ASSUME NEW m \in 0..n
        PROVE  d[m] = IF m = 0 THEN Blank(size) ELSE WriteFilter(d[m - 1], filters[m])
    BY <1>3, Zenon DEF WritingStep, Blank
  <2> QED
    BY <2>1 DEF WrittenUpTo
<1> QED
  BY <1>4, <1>5

\* The bytes go where the offset says, and nothing else changes but that the data
\* may grow.
Puts(B, data, offset, bytes, new) ==
    /\ new \in Seq(B) /\ Len(new) >= Len(data)
    /\ offset + Len(bytes) <= Len(data) => Len(new) = Len(data)
    /\ \A p \in 1..Len(bytes) : offset + p \in 1..Len(new) /\ new[offset + p] = bytes[p]
    /\ \A q \in 1..Len(data) :
        (\A p \in 1..Len(bytes) : q # offset + p) => new[q] = data[q]

LEMMA FilterIsWritten ==
    ASSUME NEW B, Zero \in B, NEW data \in Seq(B), NEW filter,
           NEW offset \in Nat, filter.memcmp.offset = offset,
           NEW bytes \in Seq(B), filter.memcmp.bytes = bytes,
           NEW new, new = WriteFilter(data, filter)
    PROVE  Puts(B, data, offset, bytes, new)
<1>1. CASE bytes = <<>>
  <2>1. new = data /\ Len(bytes) = 0
    BY <1>1 DEF WriteFilter
  <2> QED
    BY <2>1 DEF Puts
<1>2. CASE bytes # <<>>
  <2> DEFINE end == offset + Len(bytes)
             length == IF end > Len(data) THEN end ELSE Len(data)
  <2>1. end \in Nat /\ length \in Nat /\ Len(data) \in Nat
    OBVIOUS
  <2>2. new = [i \in 1..length |->
                IF i \in (offset + 1)..end THEN bytes[i - offset]
                ELSE IF i <= Len(data) THEN data[i] ELSE Zero]
    BY <1>2, Zenon DEF WriteFilter, WriteMemcmp
  <2>3. \A i \in 1..length : new[i] \in B
    <3> TAKE i \in 1..length
    <3>1. i \in (offset + 1)..end => i - offset \in 1..Len(bytes)
      BY <2>1
    <3>2. i \notin (offset + 1)..end /\ i <= Len(data) => i \in 1..Len(data)
      BY <2>1
    <3> QED
      BY <2>2, <3>1, <3>2
  <2>4. new \in Seq(B) /\ Len(new) = length
    <3>1. new \in [1..length -> B]
      BY <2>2, <2>3
    <3> QED
      BY <2>1, <3>1
  <2>5. ASSUME NEW p \in 1..Len(bytes)
        PROVE  offset + p \in 1..length /\ new[offset + p] = bytes[p]
    <3>1. offset + p \in 1..length /\ offset + p \in (offset + 1)..end
          /\ (offset + p) - offset = p
      BY <2>1
    <3> QED
      BY <2>2, <3>1
  <2>6. ASSUME NEW q \in 1..Len(data), \A p \in 1..Len(bytes) : q # offset + p
        PROVE  new[q] = data[q]
    <3>1. q \in 1..length /\ q <= Len(data)
      BY <2>1
    <3>2. q \notin (offset + 1)..end
      <4>1. ASSUME q \in (offset + 1)..end PROVE FALSE
        <5>1. q - offset \in 1..Len(bytes) /\ q = offset + (q - offset)
          BY <4>1, <2>1
        <5> QED
          BY <5>1, <2>6
      <4> QED
        BY <4>1
    <3> QED
      BY <2>2, <3>1, <3>2
  <2> HIDE DEF end
  <2>7. Len(new) >= Len(data) /\ (end <= Len(data) => Len(new) = Len(data))
    BY <2>1, <2>4
  <2> QED
    BY <2>4, <2>5, <2>6, <2>7 DEF Puts, end
<1> QED
  BY <1>1, <1>2

\* Bytes the filters and the generator know.
BytesOf(filters) ==
    {Noise, Zero} \cup UNION {ToSet(filters[i].memcmp.bytes) : i \in DOMAIN filters}

IsSized(filters) == \E i \in DOMAIN filters : filters[i].datasize # NoSize

\* After n filters the data satisfies each of them, and has the size asked for.
WrittenInv(filters, size, data, n) ==
    /\ data \in Seq(BytesOf(filters))
    /\ IsSized(filters) => Len(data) = size
    /\ \A i \in 1..n : \A p \in 1..Len(filters[i].memcmp.bytes) :
        /\ filters[i].memcmp.offset + p \in 1..Len(data)
        /\ data[filters[i].memcmp.offset + p] = filters[i].memcmp.bytes[p]

LEMMA WrittenStep ==
    ASSUME NEW filters, AreFilters(filters), Consistent(filters), NEW size \in Nat,
           \A j \in DOMAIN filters : filters[j].datasize # NoSize => filters[j].datasize = size,
           NEW data, NEW n \in Nat, n + 1 \in DOMAIN filters,
           WrittenInv(filters, size, data, n)
    PROVE  WrittenInv(filters, size, WriteFilter(data, filters[n + 1]), n + 1)
<1> DEFINE B == BytesOf(filters)
           offset(i) == filters[i].memcmp.offset
           bytes(i) == filters[i].memcmp.bytes
           new == WriteFilter(data, filters[n + 1])
<1>1. \A i \in DOMAIN filters : offset(i) \in Nat /\ bytes(i) \in Seq(B)
  <2> TAKE i \in DOMAIN filters
  <2>1. bytes(i) \in Seq(ToSet(bytes(i))) /\ offset(i) \in Nat
    BY DEF AreFilters, IsSequence
  <2>2. ToSet(bytes(i)) \subseteq B
    BY DEF BytesOf
  <2> QED
    BY <2>1, <2>2
<1>2. Zero \in B /\ data \in Seq(B)
  BY DEF BytesOf, WrittenInv
<1>3. DOMAIN filters = 1..Len(filters) /\ Len(filters) \in Nat
  BY DEF AreFilters, IsSequence
<1>4. \A i \in DOMAIN filters : DOMAIN bytes(i) = 1..Len(bytes(i))
  BY <1>1
<1> HIDE DEF B
<1>5. /\ new \in Seq(B) /\ Len(new) >= Len(data)
      /\ offset(n + 1) + Len(bytes(n + 1)) <= Len(data) => Len(new) = Len(data)
      /\ \A p \in 1..Len(bytes(n + 1)) :
            offset(n + 1) + p \in 1..Len(new) /\ new[offset(n + 1) + p] = bytes(n + 1)[p]
      /\ \A q \in 1..Len(data) :
            (\A p \in 1..Len(bytes(n + 1)) : q # offset(n + 1) + p) => new[q] = data[q]
  <2>1. filters[n + 1].memcmp.offset \in Nat /\ filters[n + 1].memcmp.bytes \in Seq(B)
    BY <1>1
  <2>2. Puts(B, data, filters[n + 1].memcmp.offset, filters[n + 1].memcmp.bytes, new)
    BY <1>2, <2>1, FilterIsWritten, Zenon
  <2> QED
    BY <2>2 DEF Puts
<1>6. IsSized(filters) => Len(new) = size
  <2>1. ASSUME NEW j \in DOMAIN filters, filters[j].datasize # NoSize
        PROVE  Len(new) = size
    <3>1. offset(n + 1) + Len(bytes(n + 1)) <= filters[j].datasize
      BY <2>1, Zenon DEF Consistent
    <3>2. filters[j].datasize = size /\ Len(data) = size
      BY <2>1, Zenon DEF WrittenInv, IsSized
    <3> QED
      BY <1>5, <3>1, <3>2, Zenon
  <2> QED
    BY <2>1 DEF IsSized
<1>7. ASSUME NEW i \in 1..(n + 1), NEW p \in 1..Len(bytes(i))
      PROVE  offset(i) + p \in 1..Len(new) /\ new[offset(i) + p] = bytes(i)[p]
  <2>1. CASE i = n + 1
    BY <1>5, <1>7, <2>1, Zenon
  <2>2. CASE i # n + 1
    <3>1. i \in 1..n /\ i \in DOMAIN filters
      BY <1>3, <2>2
    <3>2. offset(i) + p \in 1..Len(data) /\ data[offset(i) + p] = bytes(i)[p]
      BY <3>1, <1>7, Zenon DEF WrittenInv
    <3>3. offset(i) + p \in 1..Len(new)
      <4>1. Len(data) \in Nat /\ Len(new) \in Nat
        BY <1>2, <1>5
      <4> QED
        BY <4>1, <1>5, <3>2
    <3>4. CASE \A q \in 1..Len(bytes(n + 1)) : offset(i) + p # offset(n + 1) + q
      <4>1. new[offset(i) + p] = data[offset(i) + p]
        BY <1>5, <3>2, <3>4, Zenon
      <4> QED
        BY <3>2, <3>3, <4>1, Zenon
    <3>5. CASE \E q \in 1..Len(bytes(n + 1)) : offset(i) + p = offset(n + 1) + q
      <4>1. PICK q \in 1..Len(bytes(n + 1)) : offset(i) + p = offset(n + 1) + q
        BY <3>5
      <4>2. p \in DOMAIN bytes(i) /\ q \in DOMAIN bytes(n + 1)
        BY <1>4, <1>7, <3>1, <4>1, Zenon
      <4>3. bytes(i)[p] = bytes(n + 1)[q]
        BY <3>1, <4>1, <4>2, Zenon DEF Consistent
      <4>4. new[offset(n + 1) + q] = bytes(n + 1)[q]
        BY <1>5, <4>1, Zenon
      <4> QED
        BY <3>3, <4>1, <4>3, <4>4, Zenon
    <3> QED
      BY <3>4, <3>5, Zenon
  <2> QED
    BY <2>1, <2>2
<1> QED
  BY <1>5, <1>6, <1>7, Zenon DEF WrittenInv, B

\* Account data has the size and the bytes its filters ask for, for any number of
\* filters that some data can satisfy.
LEMMA DataSatisfiesFilters ==
    ASSUME NEW filters, AreFilters(filters), Consistent(filters), NEW size \in DataSizes(filters)
    PROVE  \A i \in DOMAIN filters : Satisfies(BuildAccountData(filters, size), filters[i])
<1>1. DOMAIN filters = 1..Len(filters) /\ Len(filters) \in Nat
  BY DEF AreFilters, IsSequence
<1>2. size \in Nat /\ \A j \in DOMAIN filters :
        filters[j].datasize # NoSize => filters[j].datasize = size
  <2> DEFINE sized == {i \in DOMAIN filters : filters[i].datasize # NoSize}
  <2>1. CASE sized = {}
    <3>1. size \in RandomSizes
      BY <2>1 DEF DataSizes
    <3> QED
      BY <2>1, <3>1, GeyserAssumption
  <2>2. CASE sized # {}
    <3>1. PICK i \in sized : size = filters[i].datasize
      BY <2>2, Zenon DEF DataSizes
    <3>2. size \in Nat
      BY <3>1 DEF AreFilters
    <3>3. ASSUME NEW j \in DOMAIN filters, filters[j].datasize # NoSize
          PROVE  filters[j].datasize = size
      BY <3>1, <3>3, Zenon DEF Consistent
    <3> QED
      BY <3>2, <3>3
  <2> QED
    BY <2>1, <2>2
<1>3. PICK g : /\ WrittenUpTo(filters, size, g, Len(filters))
               /\ BuildAccountData(filters, size) = g[Len(filters)]
  BY <1>1, DataIsWritten
<1> DEFINE T == {n \in Nat : n <= Len(filters) => WrittenInv(filters, size, g[n], n)}
<1>4. 0 \in T
  <2>1. g[0] = Blank(size)
    BY <1>1, <1>3 DEF WrittenUpTo
  <2>2. Blank(size) \in Seq(BytesOf(filters)) /\ Len(Blank(size)) = size
    BY <1>2 DEF Blank, BytesOf
  <2> QED
    BY <2>1, <2>2 DEF WrittenInv
<1>5. ASSUME NEW n \in T PROVE n + 1 \in T
  <2>1. n \in Nat /\ n + 1 \in Nat
    BY <1>5
  <2>2. ASSUME n + 1 <= Len(filters) PROVE WrittenInv(filters, size, g[n + 1], n + 1)
    <3>1. n <= Len(filters) /\ n + 1 \in 0..Len(filters) /\ n + 1 # 0 /\ (n + 1) - 1 = n
          /\ n + 1 \in DOMAIN filters
      BY <1>1, <2>1, <2>2
    <3>2. g[n + 1] = WriteFilter(g[n], filters[n + 1])
      BY <1>3, <3>1, Zenon DEF WrittenUpTo
    <3>3. WrittenInv(filters, size, g[n], n)
      BY <1>5, <3>1
    <3> HIDE DEF T
    <3>4. WrittenInv(filters, size, WriteFilter(g[n], filters[n + 1]), n + 1)
      BY <1>2, <2>1, <3>1, <3>3, WrittenStep
    <3> QED
      BY <3>2, <3>4, Zenon
  <2> QED
    BY <2>1, <2>2
<1> HIDE DEF T
<1>6. T = Nat
  <2>1. T \in SUBSET Nat
    BY DEF T
  <2> QED
    BY <1>4, <1>5, <2>1, NatSetInduction
<1>7. WrittenInv(filters, size, BuildAccountData(filters, size), Len(filters))
  BY <1>1, <1>3, <1>6 DEF T
<1> DEFINE data == BuildAccountData(filters, size)
<1> HIDE DEF data
<1>8. ASSUME NEW i \in DOMAIN filters PROVE Satisfies(data, filters[i])
  <2>1. filters[i].datasize # NoSize => Len(data) = filters[i].datasize
    BY <1>2, <1>7 DEF WrittenInv, IsSized, data
  <2>2. filters[i].memcmp.bytes \in Seq(ToSet(filters[i].memcmp.bytes))
    BY DEF AreFilters, IsSequence
  <2>3. DOMAIN filters[i].memcmp.bytes = 1..Len(filters[i].memcmp.bytes)
    BY <2>2
  <2>4. DOMAIN data = 1..Len(data)
    BY <1>7 DEF WrittenInv, data
  <2>5. ASSUME NEW p \in DOMAIN filters[i].memcmp.bytes
        PROVE  filters[i].memcmp.offset + p \in DOMAIN data
               /\ data[filters[i].memcmp.offset + p] = filters[i].memcmp.bytes[p]
    <3>1. i \in 1..Len(filters) /\ p \in 1..Len(filters[i].memcmp.bytes)
      BY <1>1, <2>3
    <3> QED
      BY <1>7, <2>4, <3>1, Zenon DEF WrittenInv, data
  <2> QED
    BY <2>1, <2>5, Zenon DEF Satisfies
<1> QED
  BY <1>8 DEF data

-----------------------------------------------------------------------------
(* What the sources push *)

\* What the slot timer may push for a slot.
BoundaryUpdates(req, s) ==
    {BlockUpdate("block", f, s) : f \in ToSet(req.blocks)}
    \cup {BlockUpdate("blockMeta", f, s) : f \in ToSet(req.blocksMeta)}
    \cup {SlotUpdate(f, s, status) :
            f \in IF req.slots = <<>> THEN {"slot"} ELSE ToSet(req.slots), status \in 0..2}

\* An update a consumer may be sent: it answers the request, or the request asks
\* for nothing in particular.
Fits(update) == Answers(update) \/ \A kind \in Kinds : request[kind] = <<>>

\* Slots do not go back, and none is ahead of the timer's.
SlotsInv ==
    /\ slot \in Nat
    /\ \A i \in DOMAIN accepted : accepted[i].slot \in 0..slot
    /\ \A i, j \in DOMAIN accepted : i < j => accepted[i].slot <= accepted[j].slot

\* What is left of a slot's events is of the slot just over, and nothing of a later
\* slot has been pushed.
BurstInv ==
    /\ burst \in Seq(BoundaryUpdates(request, slot - 1))
    /\ burst # <<>> =>
        slot > 0 /\ \A i \in DOMAIN accepted : accepted[i].slot <= slot - 1

RequestInv ==
    /\ IsSubscribeRequest(request)
    /\ source = "yellowstone" => request = ProgramTxRequest /\ slot = 0

HonoursInv ==
    /\ RequestInv /\ SlotsInv /\ BurstInv
    /\ \A i \in DOMAIN accepted : Fits(accepted[i])

LEMMA BoundaryEventsAre ==
    ASSUME NEW req, IsSubscribeRequest(req), NEW s \in Nat
    PROVE  SlotBoundaryEvents(req, s) \in Seq(BoundaryUpdates(req, s))
<1> DEFINE S == BoundaryUpdates(req, s)
           blocks == [i \in DOMAIN req.blocks |-> BlockUpdate("block", req.blocks[i], s)]
           metas == [i \in DOMAIN req.blocksMeta |-> BlockUpdate("blockMeta", req.blocksMeta[i], s)]
           slots == [i \in 1..(3 * Len(req.slots)) |->
                        SlotUpdate(req.slots[(i + 2) \div 3], s, (i - 1) % 3)]
<1>1. \A kind \in {"blocks", "blocksMeta", "slots"} :
        /\ DOMAIN req[kind] = 1..Len(req[kind]) /\ Len(req[kind]) \in Nat
        /\ \A i \in 1..Len(req[kind]) : req[kind][i] \in ToSet(req[kind])
  BY DEF IsSubscribeRequest, IsSequence
<1> HIDE DEF S
<1>2. blocks \in Seq(S)
  <2>1. \A f \in ToSet(req.blocks) : BlockUpdate("block", f, s) \in S
    BY DEF S, BoundaryUpdates
  <2>2. /\ DOMAIN req.blocks = 1..Len(req.blocks) /\ Len(req.blocks) \in Nat
        /\ \A i \in 1..Len(req.blocks) : req.blocks[i] \in ToSet(req.blocks)
    BY <1>1
  <2> QED
    BY <2>1, <2>2
<1>3. metas \in Seq(S)
  <2>1. \A f \in ToSet(req.blocksMeta) : BlockUpdate("blockMeta", f, s) \in S
    BY DEF S, BoundaryUpdates
  <2>2. /\ DOMAIN req.blocksMeta = 1..Len(req.blocksMeta) /\ Len(req.blocksMeta) \in Nat
        /\ \A i \in 1..Len(req.blocksMeta) : req.blocksMeta[i] \in ToSet(req.blocksMeta)
    BY <1>1
  <2> QED
    BY <2>1, <2>2
<1>4. CASE req.slots # <<>>
  <2>1. ASSUME NEW i \in 1..(3 * Len(req.slots))
        PROVE  SlotUpdate(req.slots[(i + 2) \div 3], s, (i - 1) % 3) \in S
    <3>1. (i + 2) \div 3 \in 1..Len(req.slots) /\ (i - 1) % 3 \in 0..2
      BY <1>1
    <3>2. req.slots[(i + 2) \div 3] \in ToSet(req.slots)
      BY <1>1, <3>1, Zenon
    <3>3. \A f \in ToSet(req.slots), status \in 0..2 : SlotUpdate(f, s, status) \in S
      BY <1>4 DEF S, BoundaryUpdates
    <3> QED
      BY <3>1, <3>2, <3>3, Zenon
  <2>2. slots \in Seq(S)
    <3>1. 3 * Len(req.slots) \in Nat
      BY <1>1
    <3> QED
      BY <2>1, <3>1
  <2> HIDE DEF blocks, metas, slots
  <2>3. blocks \o metas \o slots \in Seq(S)
    BY <1>2, <1>3, <2>2
  <2>4. SlotBoundaryEvents(req, s) = blocks \o metas \o slots
    BY <1>4, Zenon DEF SlotBoundaryEvents, blocks, metas, slots
  <2> QED
    BY <2>3, <2>4 DEF S
<1>5. CASE req.slots = <<>>
  <2> DEFINE tick == <<SlotUpdate("slot", s, s % 3)>>
  <2>1. SlotUpdate("slot", s, s % 3) \in S
    BY <1>5 DEF S, BoundaryUpdates
  <2>2. tick \in Seq(S)
    BY <2>1
  <2> HIDE DEF blocks, metas, tick
  <2>3. blocks \o metas \o tick \in Seq(S)
    BY <1>2, <1>3, <2>2
  <2>4. SlotBoundaryEvents(req, s) = blocks \o metas \o tick
    BY <1>5, Zenon DEF SlotBoundaryEvents, blocks, metas, tick
  <2> QED
    BY <2>3, <2>4 DEF S
<1> QED
  BY <1>4, <1>5

\* What the slot timer pushes answers the request.
LEMMA BoundaryAnswers ==
    ASSUME NEW s, NEW u \in BoundaryUpdates(request, s)
    PROVE  Fits(u) /\ u.slot = s
<1>1. CASE \E f \in ToSet(request.blocks) : u = BlockUpdate("block", f, s)
  BY <1>1 DEF BlockUpdate, Answers, Fits
<1>2. CASE \E f \in ToSet(request.blocksMeta) : u = BlockUpdate("blockMeta", f, s)
  BY <1>2 DEF BlockUpdate, Answers, Fits
<1>3. CASE \E f \in IF request.slots = <<>> THEN {"slot"} ELSE ToSet(request.slots), status \in 0..2 :
              u = SlotUpdate(f, s, status)
  BY <1>3 DEF SlotUpdate, Answers, Fits
<1> QED
  BY <1>1, <1>2, <1>3 DEF BoundaryUpdates

\* A synthetic settlement is one the indexer takes for a settlement.
LEMMA CashbackAnswers ==
    ASSUME NEW s, NEW e \in CashbackEvents
    PROVE  Fits(CashbackUpdate(s, e)) /\ CashbackUpdate(s, e).slot = s
<1> DEFINE logs == <<TextLog, EncodeCashbackSettledLog(e), TextLog>>
           events == {i \in DOMAIN logs : IsCashbackSettled(logs[i])}
<1>1. events = {2}
  BY DEF TextLog, EncodeCashbackSettledLog, IsCashbackSettled
<1>2. DecodeCashbackSettled(logs) = e
  <2>1. (CHOOSE i \in events : \A j \in events : i <= j) = 2
    BY <1>1
  <2>2. logs[2].event = e
    BY DEF EncodeCashbackSettledLog
  <2> QED
    BY <1>1, <2>1, <2>2 DEF DecodeCashbackSettled
<1>3. e # NoEvent
  BY DEF CashbackEvents, NoEvent
<1> QED
  BY <1>2, <1>3 DEF CashbackUpdate, TransactionUpdate, IsSettlement, Answers, Fits

\* What the validator sends answers the indexer's request.
LEMMA StreamAnswers ==
    ASSUME request = ProgramTxRequest
    PROVE  LET u == TransactionUpdate("flowback", 0, <<TextLog>>) IN Fits(u) /\ u.slot = 0
<1>1. "flowback" \in ToSet(request.transactions)
  BY DEF ProgramTxRequest, ToSet
<1> QED
  BY <1>1 DEF TransactionUpdate, Answers, Fits

\* An account update has a filter's key, size and bytes.
LEMMA AccountAnswers ==
    ASSUME IsSubscribeRequest(request), NEW a \in ToSet(request.accounts), NEW s,
           NEW u \in AccountUpdates(a.name, a, s)
    PROVE  Fits(u) /\ u.slot = s
<1>1. PICK key \in PickPubkeyOrRandom(a.account), owner \in PickPubkeyOrRandom(a.owner),
           size \in DataSizes(a.filters) :
        u = [kind |-> "account", filter |-> a.name, slot |-> s, pubkey |-> key,
             owner |-> owner, data |-> BuildAccountData(a.filters, size)]
  BY DEF AccountUpdates
<1>2. key \in a.account \/ a.account = {} \/ Malformed \in a.account
  BY <1>1 DEF PickPubkeyOrRandom
<1>3. Consistent(a.filters) => \A i \in DOMAIN a.filters : Satisfies(u.data, a.filters[i])
  <2>1. AreFilters(a.filters)
    BY DEF IsSubscribeRequest
  <2>2. u.data = BuildAccountData(a.filters, size)
    BY <1>1
  <2> QED
    BY <1>1, <2>1, <2>2, DataSatisfiesFilters
<1>4. u.kind = "account" /\ u.filter = a.name /\ u.pubkey = key /\ u.slot = s
  BY <1>1
<1>5. Answers(u)
  BY <1>2, <1>3, <1>4, Zenon DEF Answers
<1> QED
  BY <1>4, <1>5 DEF Fits

LEMMA IntraslotAnswers ==
    ASSUME IsSubscribeRequest(request), NEW s, NEW u \in IntraslotEvents(request, s)
    PROVE  Fits(u) /\ u.slot = s
<1>1. CASE \A kind \in Kinds : request[kind] = <<>>
  BY <1>1 DEF IntraslotEvents, AccountUpdates, TransactionUpdate, StatusUpdate, Fits
<1>2. CASE ~\A kind \in Kinds : request[kind] = <<>>
  <2>1. CASE \E f \in ToSet(request.transactions) : u = TransactionUpdate(f, s, <<>>)
    BY <2>1 DEF TransactionUpdate, Answers, Fits
  <2>2. CASE \E f \in ToSet(request.transactionsStatus) : u = StatusUpdate(f, s)
    BY <2>2 DEF StatusUpdate, Answers, Fits
  <2>3. CASE \E a \in ToSet(request.accounts) : u \in AccountUpdates(a.name, a, s)
    BY <2>3, AccountAnswers
  <2> QED
    BY <1>2, <2>1, <2>2, <2>3, Zenon DEF IntraslotEvents
<1> QED
  BY <1>1, <1>2

\* Pushing an update that fits, of a slot none before it is beyond, keeps the
\* promise about what was accepted.
LEMMA PushHonours ==
    ASSUME StreamQueueInv, SlotsInv, \A i \in DOMAIN accepted : Fits(accepted[i]),
           UNCHANGED <<request, slot>>, NEW top \in 0..slot,
           \A i \in DOMAIN accepted : accepted[i].slot <= top,
           NEW v, Q!Push(v), Fits(v), v.slot = top
    PROVE  /\ SlotsInv'
           /\ \A i \in DOMAIN accepted' : Fits(accepted[i])'
           /\ \A i \in DOMAIN accepted' : accepted'[i].slot <= top
<1>1. PICK S : QueueInv(S)
  BY DEF StreamQueueInv
<1> DEFINE n == Len(accepted)
<1>2. accepted \in Seq(S \cup {v}) /\ n \in Nat /\ DOMAIN accepted = 1..n
  <2>1. accepted \in Seq(S \cup {v})
    BY <1>1, MoreValues DEF QueueInv, QueueTypeOK
  <2> QED
    BY <2>1
<1>3. \A u : Fits(u)' <=> Fits(u)
  BY DEF Fits, Answers
<1>4. slot' = slot /\ slot \in Nat /\ top \in Nat /\ top <= slot
  BY DEF SlotsInv
<1>5. CASE accepted' = accepted
  BY <1>3, <1>4, <1>5, Zenon DEF SlotsInv
<1>6. CASE accepted' = Append(accepted, v)
  <2>1. /\ DOMAIN accepted' = 1..(n + 1)
        /\ accepted'[n + 1] = v
        /\ \A i \in 1..n : accepted'[i] = accepted[i]
    BY <1>2, <1>6, AppendProperties
  <2>2. ASSUME NEW i \in 1..(n + 1)
        PROVE  Fits(accepted'[i]) /\ accepted'[i].slot \in 0..top
    <3>1. CASE i = n + 1
      BY <1>4, <2>1, <3>1
    <3>2. CASE i \in 1..n
      BY <1>2, <1>4, <2>1, <3>2 DEF SlotsInv
    <3> QED
      BY <1>2, <3>1, <3>2
  <2>3. ASSUME NEW i \in 1..(n + 1), NEW j \in 1..(n + 1), i < j
        PROVE  accepted'[i].slot <= accepted'[j].slot
    <3>1. i \in 1..n
      BY <1>2, <2>3
    <3>2. CASE j = n + 1
      BY <1>2, <2>1, <3>1, <3>2
    <3>3. CASE j \in 1..n
      <4>1. accepted[i].slot <= accepted[j].slot
        BY <1>2, <2>3, <3>1, <3>3 DEF SlotsInv
      <4> QED
        BY <2>1, <3>1, <3>3, <4>1
    <3> QED
      BY <1>2, <3>2, <3>3
  <2>4. SlotsInv'
    <3>1. \A i \in 1..(n + 1) : accepted'[i].slot \in 0..slot
      BY <1>4, <2>2
    <3> QED
      BY <1>4, <2>1, <2>3, <3>1 DEF SlotsInv
  <2> QED
    BY <1>3, <2>1, <2>2, <2>4
<1> QED
  BY <1>5, <1>6 DEF Q!Push, Q!queue

LEMMA HonoursInvInit == Init => HonoursInv
<1> SUFFICES ASSUME Init PROVE HonoursInv
  OBVIOUS
<1>1. accepted = <<>> /\ slot = 0 /\ burst = <<>>
  BY DEF Init, Q!QueueInit
<1>2. IsSubscribeRequest(ProgramTxRequest)
  BY DEF IsSubscribeRequest, IsSequence, ProgramTxRequest, ToSet, Kinds
<1>3. RequestInv
  BY <1>1, <1>2, GeyserAssumption DEF Init, RequestInv
<1> QED
  BY <1>1, <1>3 DEF HonoursInv, SlotsInv, BurstInv

LEMMA HonoursInvNext == StreamQueueInv /\ HonoursInv /\ [Next]_vars => HonoursInv'
<1> SUFFICES ASSUME StreamQueueInv, HonoursInv, [Next]_vars PROVE HonoursInv'
  OBVIOUS
<1>0. ASSUME UNCHANGED <<config, slot, burst>>, accepted' = accepted \/ accepted' = <<>>
      PROVE  HonoursInv'
  <2>1. \A u : Fits(u)' <=> Fits(u)
    BY <1>0 DEF Fits, Answers, config
  <2>2. RequestInv' /\ SlotsInv' /\ BurstInv'
    BY <1>0 DEF HonoursInv, RequestInv, SlotsInv, BurstInv, config
  <2> QED
    BY <1>0, <2>1, <2>2 DEF HonoursInv
<1>1. CASE UNCHANGED vars
  BY <1>0, <1>1 DEF vars, queue, config
<1>2. CASE PushBurst
  <2> DEFINE u == Head(burst)
  <2>1. burst \in Seq(BoundaryUpdates(request, slot - 1)) /\ burst # <<>>
        /\ slot \in Nat /\ slot > 0
    BY <1>2 DEF PushBurst, HonoursInv, BurstInv, SlotsInv
  <2>2. u \in BoundaryUpdates(request, slot - 1)
        /\ Tail(burst) \in Seq(BoundaryUpdates(request, slot - 1))
    BY <2>1, HeadTailProperties
  <2>3. Fits(u) /\ u.slot = slot - 1
    BY <2>2, BoundaryAnswers
  <2>4. slot - 1 \in 0..slot /\ UNCHANGED <<config, slot>> /\ Q!Push(u) /\ burst' = Tail(burst)
    BY <1>2, <2>1 DEF PushBurst
  <2>5. /\ SlotsInv'
        /\ \A i \in DOMAIN accepted' : Fits(accepted[i])'
        /\ \A i \in DOMAIN accepted' : accepted'[i].slot <= slot - 1
    BY <2>1, <2>3, <2>4, PushHonours DEF HonoursInv, BurstInv, config
  <2> QED
    BY <2>1, <2>2, <2>4, <2>5 DEF HonoursInv, RequestInv, BurstInv, config
<1>3. ASSUME burst = <<>>, UNCHANGED <<config, slot, burst>>,
             NEW v, Q!Push(v), Fits(v), v.slot = slot
      PROVE  HonoursInv'
  <2>1. slot \in 0..slot /\ \A i \in DOMAIN accepted : accepted[i].slot <= slot
    BY DEF HonoursInv, SlotsInv
  <2>2. SlotsInv' /\ \A i \in DOMAIN accepted' : Fits(accepted[i])'
    BY <1>3, <2>1, PushHonours DEF HonoursInv, config
  <2> QED
    BY <1>3, <2>2 DEF HonoursInv, RequestInv, BurstInv, config
<1>4. CASE burst = <<>> /\ StreamData
  <2>1. source = "yellowstone" /\ request = ProgramTxRequest /\ slot = 0
    BY <1>4 DEF StreamData, HonoursInv, RequestInv
  <2>2. PICK v : /\ Q!Push(v)
                 /\ v = TransactionUpdate("flowback", 0, <<TextLog>>)
                    \/ \E e \in CashbackEvents : v = CashbackUpdate(0, e)
    BY <1>4 DEF StreamData
  <2>3. Fits(v) /\ v.slot = slot
    BY <2>1, <2>2, CashbackAnswers, StreamAnswers
  <2> QED
    BY <1>3, <1>4, <2>2, <2>3 DEF StreamData
<1>5. CASE burst = <<>> /\ IntraslotTick
  BY <1>3, <1>5, IntraslotAnswers DEF IntraslotTick, HonoursInv, RequestInv
<1>6. CASE burst = <<>> /\ CashbackTick
  BY <1>3, <1>6, CashbackAnswers DEF CashbackTick
<1>7. CASE burst = <<>> /\ SlotTick
  <2>1. /\ burst' = SlotBoundaryEvents(request, slot) /\ slot' = slot + 1
        /\ UNCHANGED <<config, queue>> /\ source = "mock" /\ slot \in Nat
    BY <1>7 DEF SlotTick, HonoursInv, SlotsInv
  <2>2. burst' \in Seq(BoundaryUpdates(request, slot)) /\ (slot + 1) - 1 = slot
    BY <2>1, BoundaryEventsAre DEF HonoursInv, RequestInv
  <2>3. SlotsInv'
    BY <2>1 DEF HonoursInv, SlotsInv, queue
  <2>4. \A i \in DOMAIN accepted : accepted[i].slot <= slot
    BY <2>1 DEF HonoursInv, SlotsInv
  <2>5. BurstInv'
    BY <2>1, <2>2, <2>4 DEF BurstInv, config, queue
  <2>6. \A i \in DOMAIN accepted' : Fits(accepted[i])'
    BY <2>1 DEF HonoursInv, Fits, Answers, config, queue
  <2> QED
    BY <2>1, <2>3, <2>5, <2>6 DEF HonoursInv, RequestInv, config
<1>8. CASE burst = <<>> /\ Subscribe
  <2>1. accepted' = <<>> /\ slot' = 0 /\ burst' = <<>> /\ UNCHANGED config
    BY <1>8 DEF Subscribe, NewQueue
  <2> QED
    BY <2>1 DEF HonoursInv, RequestInv, SlotsInv, BurstInv, config
<1>9. CASE ConnectFails \/ Written \/ WriteFails \/ Ask \/ TakeUpdate \/ HandleEnds \/ LeaveLoop
           \/ Reconnect
  BY <1>0, <1>9
     DEF ConnectFails, Written, WriteFails, Ask, TakeUpdate, HandleEnds, LeaveLoop, Reconnect,
         CloseSubscription, Q!NextCall, Q!HandOut, Q!TellClosed, Q!Wait, Q!End, Q!Close, Q!queue, queue
<1>10. CASE Abort \/ StreamDown
  BY <1>0, <1>10
     DEF Abort, StreamDown, CloseSubscription, Q!End, Q!Fail, Q!Close, Q!queue, queue
<1> QED
  BY <1>1, <1>2, <1>4, <1>5, <1>6, <1>7, <1>8, <1>9, <1>10 DEF Next, Indexer

\* For any requests, filters and random choices, in every subscription: each update
\* of the mock answers a filter of the request (or the request names nothing the
\* mock could answer), account data has the size and the bytes its filters ask for
\* if any data can, and slots never go back.
THEOREM HonoursRequestAlways == Spec => []HonoursRequest
<1>1. Init => StreamQueueInv
  <2> SUFFICES ASSUME Init PROVE StreamQueueInv
    OBVIOUS
  <2>1. QueueInv({})
    BY QueueInvInit DEF Init
  <2> QED
    BY <2>1 DEF StreamQueueInv
<1>2. HonoursInv => HonoursRequest
  BY DEF HonoursInv, SlotsInv, Fits, HonoursRequest
<1> QED
  BY <1>1, <1>2, StreamQueueInvNext, HonoursInvInit, HonoursInvNext, PTL DEF Spec
=============================================================================
