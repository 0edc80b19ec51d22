-------------------------- MODULE SettlementProofs --------------------------
(***************************************************************************)
(* What the relay's verdict on a swap and the chain have to do with each   *)
(* other, for any number of auctions, bids, candidates and restarts.       *)
(*                                                                         *)
(* The argument is the order in which candidates are tried: a bundle is    *)
(* sent for the candidate in hand only, the relay goes on to the next one  *)
(* only when the engine can no longer land it, and a result that says so   *)
(* is published after the engine gave the bundle up for good.              *)
(***************************************************************************)
EXTENDS CashbackDelivery, SequenceTheorems, TLAPS

\* orchestrateSwap has not returned.
Undecided == {"open", "fallback", "building", "submitting", "waiting"}

\* The bundle cannot land: it was never sent, or the engine is done with it.
Out(h, i) == bundle[<<h, i>>] \in {"unsent"} \cup Refused

AllOut(h) == \A i \in Attempts : Out(h, i)

\* The candidate in hand is one of the book.
InHand(h) ==
    /\ attempt[h] <= Len(bids[h])
    /\ pc[h] \in {"open", "fallback"} => attempt[h] = 0
    /\ pc[h] \in {"building", "submitting", "waiting"} => attempt[h] >= 1

\* Bundles are sent in the order of the candidates, each after the ones before
\* it were given up.
InOrderSent(h) ==
    /\ \A i \in Attempts : i > attempt[h] => bundle[<<h, i>>] = "unsent"
    /\ \A i \in Attempts : i < attempt[h] => Out(h, i)
    /\ pc[h] = "building" => bundle[<<h, attempt[h]>>] = "unsent"

\* A verdict is given when orchestrateSwap returns, names the candidate in hand
\* if any, and names none only when no bundle can land - or on an error.
Judged(h) ==
    /\ pc[h] \in Undecided => verdict[h] = NoVerdict /\ h \notin told
    /\ pc[h] \in {"persisting", "done"} => verdict[h].status # "none"
    /\ IF verdict[h].status \in {"landed", "timeout"}
       THEN verdict[h].winner = attempt[h] /\ attempt[h] >= 1
       ELSE verdict[h].winner = 0
    /\ verdict[h].status \in {"fallback", "no_valid_winner"} => AllOut(h)
    /\ h \in told => verdict[h].status \notin {"none", "error"}

\* Only the candidate in hand is waited for, and a refusal under way is final.
Awaited ==
    /\ \A b \in resolvers : pc[b[1]] = "waiting" /\ attempt[b[1]] = b[2]
    /\ \A i \in DOMAIN results :
        results[i].state \in Refused => bundle[results[i].bundle] \in Refused

PipelineInv ==
    /\ TypeOK
    /\ \A h \in Hints : InHand(h) /\ InOrderSent(h) /\ Judged(h)
    /\ Awaited

\* A settled bundle's bid has been collected.
Settled == {"processed", "finalized"}

SettledIsHonoured ==
    \A b \in Bundles : bundle[b] \in Settled => Commitment(b) \in honoured

\* Without forks: what the engine reports landed is on the chain, and so is
\* what the relay reports and stores.

ReportsAreTrue ==
    \A i \in DOMAIN results :
        results[i].state \in Settled => bundle[results[i].bundle] \in Settled

LandedIsSettled ==
    \A h \in Hints :
        verdict[h].status = "landed" => bundle[<<h, verdict[h].winner>>] \in Settled

WonIsLanded ==
    \A h \in Hints :
        rows[h].status = "won" =>
            verdict[h].status = "landed" /\ rows[h].winner = verdict[h].winner

SettledInv == ReportsAreTrue /\ LandedIsSettled /\ WonIsLanded

----------------------------------------------------------------------------
(* One step at a time *)

Reports == [bundle : Bundles, state : BundleStates]

\* No result is invented: what is left was there.
ResultsKept ==
    /\ results' \in Seq(Reports)
    /\ \A i \in DOMAIN results' : \E j \in DOMAIN results : results'[i] = results[j]

LEMMA TailKeepsResults ==
    ASSUME results \in Seq(Reports), results # <<>>, results' = Tail(results)
    PROVE  ResultsKept
<1>1. results' \in Seq(Reports)
  OBVIOUS
<1>2. \A i \in DOMAIN results' : results'[i] = results[i + 1] /\ i + 1 \in DOMAIN results
  OBVIOUS
<1> QED
  BY <1>1, <1>2 DEF ResultsKept

LEMMA SameResults ==
    ASSUME results \in Seq(Reports), results' = results
    PROVE  ResultsKept
  BY DEF ResultsKept

\* The attempts of an auction are among those the relay may make.
LEMMA InHandTypes ==
    ASSUME PipelineInv, NEW h \in Hints
    PROVE  /\ MaxCandidates \in Nat /\ MaxCandidates >= 1
           /\ attempt[h] \in 0..MaxCandidates /\ attempt[h] \in Nat
           /\ bids[h] \in Seq(BidRecords) /\ Len(bids[h]) \in Nat
           /\ \A i \in Attempts : i \in Nat /\ i > 0
           /\ attempt[h] >= 1 =>
                attempt[h] \in Attempts /\ <<h, attempt[h]>> \in Bundles
           /\ \A i \in Attempts : <<h, i>> \in Bundles
  BY PipelineAssumption DEF PipelineInv, TypeOK, Attempts, Bundles

LEMMA BundleIsPair ==
    ASSUME NEW b \in Bundles
    PROVE  b[1] \in Hints /\ b[2] \in Attempts /\ b = <<b[1], b[2]>>
  BY DEF Bundles

\* An auction none of whose parts changes.
LEMMA Untouched ==
    ASSUME PipelineInv, NEW h \in Hints,
           pc'[h] = pc[h], attempt'[h] = attempt[h], bids'[h] = bids[h],
           verdict'[h] = verdict[h], (h \in told') <=> (h \in told),
           \A i \in Attempts : bundle'[<<h, i>>] = bundle[<<h, i>>]
    PROVE  InHand(h)' /\ InOrderSent(h)' /\ Judged(h)'
<1>1. InHand(h) /\ InOrderSent(h) /\ Judged(h)
  BY DEF PipelineInv
<1>2. InHand(h)'
  BY <1>1 DEF InHand
<1>3. pc[h] = "building" => attempt[h] \in Attempts
  BY <1>1, InHandTypes DEF InHand
<1>4. InOrderSent(h)'
  BY <1>1, <1>3 DEF InOrderSent, Out
<1>5. Judged(h)'
  BY <1>1 DEF Judged, AllOut, Out
<1> QED
  BY <1>2, <1>4, <1>5

\* A commitment names a bid of the book once its bundle was sent.
LEMMA SentIsCandidate ==
    ASSUME PipelineInv, NEW b \in Bundles, bundle[b] # "unsent"
    PROVE  /\ b[2] \in 1..Len(bids[b[1]])
           /\ bids[b[1]][b[2]] \in BidRecords
           /\ Commitment(b) \in Ledger!Commitments
           /\ b[2] <= attempt[b[1]] /\ pc[b[1]] \notin {"open", "fallback"}
<1>1. b[1] \in Hints /\ b[2] \in Attempts /\ b = <<b[1], b[2]>>
  BY BundleIsPair
<1> DEFINE h == b[1]
           i == b[2]
<1> HIDE DEF h, i
<1>0. h \in Hints /\ i \in Attempts /\ bundle[<<h, i>>] # "unsent"
  BY <1>1 DEF h, i
<1>2. /\ i <= attempt[h] /\ attempt[h] <= Len(bids[h])
      /\ i \in 1..MaxCandidates /\ MaxCandidates \in Nat
      /\ attempt[h] \in 0..MaxCandidates /\ Len(bids[h]) \in Nat
      /\ bids[h] \in Seq(BidRecords)
  <2>1. i \in 1..MaxCandidates /\ ~(i > attempt[h])
    BY <1>0 DEF PipelineInv, InOrderSent, Attempts
  <2>2. attempt[h] <= Len(bids[h])
    BY <1>0 DEF PipelineInv, InHand
  <2>3. /\ attempt[h] \in 0..MaxCandidates /\ MaxCandidates \in Nat
        /\ Len(bids[h]) \in Nat /\ bids[h] \in Seq(BidRecords)
    BY <1>0, InHandTypes
  <2> QED
    BY <2>1, <2>2, <2>3
<1>3. i \in 1..Len(bids[h]) /\ bids[h][i] \in BidRecords
  BY <1>2
<1>4. Commitment(b) \in Ledger!Commitments
  BY <1>0, <1>3 DEF Commitment, Ledger!Commitments, BidRecords, h, i
<1>5. pc[h] \notin {"open", "fallback"}
  BY <1>0, <1>2 DEF PipelineInv, InHand
<1> QED
  BY <1>2, <1>3, <1>4, <1>5 DEF h, i

Verdicts == [status : {"none", "landed", "timeout", "fallback", "no_valid_winner", "error"},
             winner : 0..MaxCandidates]

\* Nobody waits for the auction's bundle after its orchestration is over.
LEMMA WaitersOfOthers ==
    ASSUME PipelineInv, NEW h \in Hints, resolvers' \subseteq resolvers,
           pc[h] = "waiting" => <<h, attempt[h]>> \notin resolvers'
    PROVE  \A b \in resolvers' :
             b \in Bundles /\ b[1] # h /\ pc[b[1]] = "waiting" /\ attempt[b[1]] = b[2]
<1> SUFFICES ASSUME NEW b \in resolvers'
             PROVE  b \in Bundles /\ b[1] # h /\ pc[b[1]] = "waiting" /\ attempt[b[1]] = b[2]
  OBVIOUS
<1>1. b \in Bundles /\ b \in resolvers /\ pc[b[1]] = "waiting" /\ attempt[b[1]] = b[2]
  BY DEF PipelineInv, TypeOK, Awaited
<1>2. b = <<b[1], b[2]>>
  BY <1>1, BundleIsPair
<1> QED
  BY <1>1, <1>2

\* A verdict that fits what became of the bundles keeps the invariant.
LEMMA ConcludeKeeps ==
    ASSUME PipelineInv, NEW h \in Hints, pc[h] \in Undecided,
           NEW v \in Verdicts, Conclude(h, v), v.status # "none",
           IF v.status \in {"landed", "timeout"}
           THEN v.winner = attempt[h] /\ attempt[h] >= 1
           ELSE v.winner = 0,
           v.status \in {"fallback", "no_valid_winner"} => AllOut(h),
           UNCHANGED <<bids, attempt, rows, bundle, chain, restarts>>,
           ResultsKept, resolvers' \subseteq resolvers,
           pc[h] = "waiting" => <<h, attempt[h]>> \notin resolvers'
    PROVE  PipelineInv'
<1>1. /\ pc'[h] = "persisting" /\ verdict'[h] = v
      /\ h \in told' => v.status # "error"
      /\ \A g \in Hints : g # h => pc'[g] = pc[g] /\ verdict'[g] = verdict[g]
      /\ \A g \in Hints : g # h => (g \in told' <=> g \in told)
  BY DEF Conclude, PipelineInv, TypeOK, Judged, Undecided
<1>2. TypeOK'
  <2>1. FinalEvents(v.status) \subseteq
            {"bundle_submitted", "fallback_executed", "auction_failed"}
    BY DEF FinalEvents
  <2> QED
    BY <2>1 DEF PipelineInv, TypeOK, Conclude, Verdicts, ResultsKept, Reports, chain
<1>3. ASSUME NEW g \in Hints PROVE InHand(g)' /\ InOrderSent(g)' /\ Judged(g)'
  <2>1. CASE g # h
    BY <1>1, <2>1, Untouched
  <2>2. CASE g = h
    <3>1. InHand(h)'
      BY <1>1 DEF InHand, PipelineInv
    <3>2. InOrderSent(h)'
      BY <1>1 DEF InOrderSent, Out, PipelineInv
    <3>3. Judged(h)'
      BY <1>1 DEF Judged, AllOut, Out, Undecided
    <3> QED
      BY <2>2, <3>1, <3>2, <3>3
  <2> QED
    BY <2>1, <2>2
<1>4. Awaited'
  <2>1. \A b \in resolvers' : pc'[b[1]] = "waiting" /\ attempt'[b[1]] = b[2]
    BY <1>1, WaitersOfOthers, BundleIsPair
  <2>2. \A i \in DOMAIN results' :
            results'[i].state \in Refused => bundle'[results'[i].bundle] \in Refused
    BY DEF ResultsKept, PipelineInv, Awaited
  <2> QED
    BY <2>1, <2>2 DEF Awaited
<1> QED
  BY <1>2, <1>3, <1>4 DEF PipelineInv

\* The relay turns to the next candidate, if any, when the one in hand is out.
LEMMA NextCandidateKeeps ==
    ASSUME PipelineInv, NEW h \in Hints, pc[h] \in {"building", "waiting"},
           NextCandidate(h), Out(h, attempt[h]),
           UNCHANGED <<bids, rows, bundle, chain, restarts>>,
           ResultsKept, resolvers' \subseteq resolvers,
           pc[h] = "waiting" => <<h, attempt[h]>> \notin resolvers'
    PROVE  PipelineInv'
<1>1. /\ attempt[h] \in Attempts /\ attempt[h] \in Nat
      /\ InOrderSent(h) /\ Attempts \subseteq Nat
  BY InHandTypes DEF PipelineInv, InHand, Attempts
<1>2. CASE /\ attempt[h] + 1 \in Candidates(h)
           /\ attempt' = [attempt EXCEPT ![h] = @ + 1]
           /\ pc' = [pc EXCEPT ![h] = "building"]
           /\ UNCHANGED <<verdict, told, events>>
  <2>1. /\ attempt[h] + 1 \in Attempts /\ attempt[h] + 1 <= Len(bids[h])
        /\ attempt'[h] = attempt[h] + 1 /\ pc'[h] = "building"
        /\ \A g \in Hints : g # h => attempt'[g] = attempt[g] /\ pc'[g] = pc[g]
    BY <1>2 DEF Candidates, PipelineInv, TypeOK
  <2>2. TypeOK'
    BY <1>2, <2>1, PipelineAssumption
    DEF PipelineInv, TypeOK, ResultsKept, Reports, chain, Attempts
  <2>3. ASSUME NEW g \in Hints PROVE InHand(g)' /\ InOrderSent(g)' /\ Judged(g)'
    <3>1. CASE g # h
      BY <1>2, <2>1, <3>1, Untouched
    <3>2. CASE g = h
      <4>1. InHand(h)'
        BY <1>1, <2>1 DEF InHand
      <4>2. InOrderSent(h)'
        BY <1>1, <2>1 DEF InOrderSent, Out
      <4>3. Judged(h)'
        <5>1. Judged(h) /\ verdict[h] = NoVerdict /\ h \notin told
          BY DEF PipelineInv, Judged, Undecided
        <5>2. verdict'[h] = NoVerdict /\ h \notin told'
          BY <1>2, <5>1
        <5> QED
          BY <2>1, <5>2 DEF Judged, NoVerdict
      <4> QED
        BY <3>2, <4>1, <4>2, <4>3
    <3> QED
      BY <3>1, <3>2
  <2>4. Awaited'
    <3>1. \A b \in resolvers' : pc'[b[1]] = "waiting" /\ attempt'[b[1]] = b[2]
      BY <2>1, WaitersOfOthers, BundleIsPair
    <3>2. \A i \in DOMAIN results' :
              results'[i].state \in Refused => bundle'[results'[i].bundle] \in Refused
      BY DEF ResultsKept, PipelineInv, Awaited
    <3> QED
      BY <3>1, <3>2 DEF Awaited
  <2> QED
    BY <2>2, <2>3, <2>4 DEF PipelineInv
<1>3. CASE Conclude(h, Verdict("no_valid_winner", 0)) /\ UNCHANGED attempt
  <2>1. AllOut(h)
    BY <1>1 DEF AllOut, InOrderSent, Out
  <2>2. /\ Verdict("no_valid_winner", 0) \in Verdicts
        /\ Verdict("no_valid_winner", 0).status = "no_valid_winner"
        /\ Verdict("no_valid_winner", 0).winner = 0
    BY PipelineAssumption DEF Verdict, Verdicts
  <2>3. pc[h] \in Undecided
    BY DEF Undecided
  <2> QED
    BY <1>3, <2>1, <2>2, <2>3, ConcludeKeeps
<1> QED
  BY <1>2, <1>3 DEF NextCandidate

\* What of the block engine's state a step of a bundle may change.
LEMMA PublishKeeps ==
    ASSUME PipelineInv, NEW b \in Bundles, NEW state \in BundleStates \ {"unsent"},
           bundle[b] # "unsent", bundle[b] \in Refused => state \in Refused,
           Publish(b, state), UNCHANGED <<relay, restarts>>,
           available' \in [Searchers -> Nat], promised' = promised,
           honoured' \subseteq promised
    PROVE  PipelineInv'
<1>1. /\ bundle'[b] = state
      /\ \A c \in Bundles : c # b => bundle'[c] = bundle[c]
      /\ bundle' \in [Bundles -> BundleStates]
  BY DEF Publish, PipelineInv, TypeOK
<1>2. /\ results' \in Seq(Reports) /\ DOMAIN results' = 1..(Len(results) + 1)
      /\ \A i \in DOMAIN results' :
            \/ i \in DOMAIN results /\ results'[i] = results[i]
            \/ results'[i] = [bundle |-> b, state |-> state]
  BY DEF Publish, PipelineInv, TypeOK, Reports
<1>3. TypeOK'
  BY <1>1, <1>2 DEF PipelineInv, TypeOK, relay, Reports
<1>4. ASSUME NEW g \in Hints PROVE InHand(g)' /\ InOrderSent(g)' /\ Judged(g)'
  <2>1. CASE g # b[1]
    <3>1. \A i \in Attempts : bundle'[<<g, i>>] = bundle[<<g, i>>]
      BY <1>1, <2>1 DEF Bundles
    <3> QED
      BY <3>1, Untouched DEF relay
  <2>2. CASE g = b[1]
    <3>1. /\ b[2] \in Attempts /\ b = <<g, b[2]>> /\ b[2] <= attempt[g]
          /\ bundle[<<g, b[2]>>] # "unsent"
      BY <2>2, BundleIsPair, SentIsCandidate
    <3>2. \A i \in Attempts : i # b[2] => bundle'[<<g, i>>] = bundle[<<g, i>>]
      BY <1>1, <3>1 DEF Bundles
    <3>3. Out(g, b[2]) => Out(g, b[2])'
      BY <1>1, <3>1 DEF Out
    <3>4. InHand(g) /\ InOrderSent(g) /\ Judged(g) /\ attempt[g] \in Nat
      <4>1. InHand(g) /\ InOrderSent(g) /\ Judged(g)
        BY DEF PipelineInv
      <4>2. attempt[g] \in 0..MaxCandidates /\ MaxCandidates \in Nat
        BY InHandTypes
      <4> QED
        BY <4>1, <4>2
    <3>5. pc[g] = "building" => attempt[g] # b[2]
      <4>1. pc[g] = "building" => bundle[<<g, attempt[g]>>] = "unsent"
        BY <3>4 DEF InOrderSent
      <4> QED
        BY <3>1, <4>1
    <3>6. pc[g] = "building" => attempt[g] \in Attempts
      BY <3>4, InHandTypes DEF InHand
    <3>7. Attempts \subseteq Nat
      BY DEF Attempts
    <3>8. InHand(g)'
      BY <3>4 DEF InHand, relay
    <3>9. \A i \in Attempts : Out(g, i) => Out(g, i)'
      BY <3>2, <3>3 DEF Out
    <3>10. InOrderSent(g)'
      <4>1. \A i \in Attempts : i > attempt[g] => bundle'[<<g, i>>] = "unsent"
        BY <3>1, <3>2, <3>4, <3>7 DEF InOrderSent
      <4>2. \A i \in Attempts : i < attempt[g] => Out(g, i)'
        BY <3>4, <3>9 DEF InOrderSent
      <4>3. pc[g] = "building" => bundle'[<<g, attempt[g]>>] = "unsent"
        BY <3>2, <3>4, <3>5, <3>6 DEF InOrderSent
      <4> QED
        BY <4>1, <4>2, <4>3 DEF InOrderSent, relay
    <3>11. Judged(g)'
      BY <3>4, <3>9 DEF Judged, AllOut, relay
    <3> QED
      BY <3>8, <3>10, <3>11
  <2> QED
    BY <2>1, <2>2
<1>5. Awaited'
  <2>1. \A i \in DOMAIN results' :
            results'[i].state \in Refused => bundle'[results'[i].bundle] \in Refused
    <3> SUFFICES ASSUME NEW i \in DOMAIN results', results'[i].state \in Refused
                 PROVE  bundle'[results'[i].bundle] \in Refused
      OBVIOUS
    <3>1. CASE i \in DOMAIN results /\ results'[i] = results[i]
      <4>1. bundle[results[i].bundle] \in Refused
        BY <3>1 DEF PipelineInv, Awaited
      <4>2. results[i].bundle \in Bundles
        <5>1. results \in Seq(Reports)
          BY DEF PipelineInv, TypeOK, Reports
        <5>2. results[i] \in Reports
          BY <3>1, <5>1
        <5> QED
          BY <5>2 DEF Reports
      <4> QED
        BY <1>1, <3>1, <4>1, <4>2
    <3>2. CASE results'[i] = [bundle |-> b, state |-> state]
      BY <1>1, <3>2
    <3> QED
      BY <1>2, <3>1, <3>2
  <2> QED
    BY <2>1 DEF Awaited, PipelineInv, relay
<1> QED
  BY <1>3, <1>4, <1>5 DEF PipelineInv

\* A step of the chain alone.
LEMMA ChainStepKeeps ==
    ASSUME PipelineInv, UNCHANGED <<relay, bundle, restarts>>, ResultsKept,
           available' \in [Searchers -> Nat], UNCHANGED <<promised, honoured>>
    PROVE  PipelineInv'
<1>1. TypeOK'
  BY DEF PipelineInv, TypeOK, relay, ResultsKept, Reports
<1>2. \A g \in Hints : InHand(g)' /\ InOrderSent(g)' /\ Judged(g)'
  BY Untouched DEF relay
<1>3. Awaited'
  BY DEF PipelineInv, Awaited, ResultsKept, relay
<1> QED
  BY <1>1, <1>2, <1>3 DEF PipelineInv

\* The book the auction resolved with, and the first candidate if there is one.
LEMMA CloseAuctionKeeps ==
    ASSUME PipelineInv, NEW h \in Hints, CloseAuction(h)
    PROVE  PipelineInv'
<1>1. PICK list \in BidLists :
        /\ bids' = [bids EXCEPT ![h] = list]
        /\ promised' = promised \cup
             {[searcher |-> list[i].searcher, hint |-> h, bid |-> list[i].bid] :
                i \in DOMAIN list}
        /\ IF list = <<>>
           THEN pc' = [pc EXCEPT ![h] = "fallback"] /\ attempt' = attempt
           ELSE /\ pc' = [pc EXCEPT ![h] = "building"]
                /\ attempt' = [attempt EXCEPT ![h] = 1]
  BY DEF CloseAuction
<1>2. /\ list \in Seq(BidRecords) /\ Len(list) \in Nat
      /\ list # <<>> => Len(list) >= 1
  BY PipelineAssumption
<1>0. /\ pc[h] = "open" /\ attempt[h] = 0
      /\ \A i \in Attempts : bundle[<<h, i>>] = "unsent"
  <2>1. InHand(h) /\ InOrderSent(h) /\ pc[h] = "open"
    BY DEF PipelineInv, CloseAuction
  <2>2. attempt[h] = 0
    BY <2>1 DEF InHand
  <2>3. \A i \in Attempts : i > 0
    BY DEF Attempts
  <2> QED
    BY <2>1, <2>2, <2>3 DEF InOrderSent
<1>3. /\ verdict[h] = NoVerdict /\ h \notin told
      /\ verdict' = verdict /\ told' = told /\ events' = events /\ rows' = rows
      /\ resolvers' = resolvers /\ bundle' = bundle /\ results' = results
      /\ available' = available /\ honoured' = honoured /\ restarts' = restarts
  BY DEF CloseAuction, PipelineInv, Judged, Undecided, engine
<1>4. /\ bids'[h] = list /\ pc'[h] \in {"fallback", "building"}
      /\ pc'[h] = "fallback" => attempt'[h] = 0
      /\ pc'[h] = "building" => attempt'[h] = 1 /\ list # <<>>
      /\ attempt' \in [Hints -> 0..MaxCandidates]
      /\ bids' \in [Hints -> Seq(BidRecords)]
      /\ \A g \in Hints : g # h =>
            bids'[g] = bids[g] /\ pc'[g] = pc[g] /\ attempt'[g] = attempt[g]
  <2>1. /\ bids \in [Hints -> Seq(BidRecords)]
        /\ attempt \in [Hints -> 0..MaxCandidates]
        /\ pc = [g \in Hints |-> pc[g]]
    BY DEF PipelineInv, TypeOK
  <2>2. 1 \in 0..MaxCandidates
    BY PipelineAssumption
  <2>3. CASE list = <<>>
    BY <1>0, <1>1, <1>2, <2>1, <2>3
  <2>4. CASE list # <<>>
    BY <1>1, <1>2, <2>1, <2>2, <2>4
  <2> QED
    BY <2>3, <2>4
<1>5. TypeOK'
  <2>1. promised' \subseteq Ledger!Commitments /\ promised \subseteq promised'
    <3>1. \A i \in DOMAIN list : list[i] \in BidRecords
      BY <1>2
    <3>2. \A i \in DOMAIN list :
            [searcher |-> list[i].searcher, hint |-> h, bid |-> list[i].bid]
                \in Ledger!Commitments
      BY <3>1 DEF Ledger!Commitments, BidRecords
    <3> QED
      BY <1>1, <3>2 DEF PipelineInv, TypeOK
  <2>2. pc' \in [Hints -> {"open", "fallback", "building", "submitting", "waiting",
                           "persisting", "done", "lost"}]
    BY <1>1 DEF PipelineInv, TypeOK
  <2> QED
    BY <1>3, <1>4, <2>1, <2>2 DEF PipelineInv, TypeOK
<1>6. ASSUME NEW g \in Hints PROVE InHand(g)' /\ InOrderSent(g)' /\ Judged(g)'
  <2>1. CASE g # h
    BY <1>3, <1>4, <2>1, Untouched
  <2>2. CASE g = h
    <3>1. InHand(h)'
      BY <1>2, <1>4 DEF InHand
    <3>2. InOrderSent(h)'
      <4>1. pc'[h] = "building" => attempt'[h] \in Attempts
        BY <1>4, PipelineAssumption DEF Attempts
      <4> QED
        BY <1>0, <1>3, <1>4, <4>1 DEF InOrderSent, Out
    <3>3. Judged(h)'
      BY <1>3, <1>4 DEF Judged, NoVerdict
    <3> QED
      BY <2>2, <3>1, <3>2, <3>3
  <2> QED
    BY <2>1, <2>2
<1>7. Awaited'
  <2>1. \A b \in resolvers : b[1] # h /\ b[1] \in Hints
    BY <1>0, BundleIsPair DEF PipelineInv, TypeOK, Awaited
  <2> QED
    BY <1>3, <1>4, <2>1 DEF PipelineInv, Awaited
<1> QED
  BY <1>5, <1>6, <1>7 DEF PipelineInv

\* The first candidate's bundle, or the next one's, is on its way.
LEMMA SubmitBundleKeeps ==
    ASSUME PipelineInv, NEW h \in Hints, SubmitBundle(h)
    PROVE  PipelineInv'
<1>1. /\ pc[h] = "building" /\ pc' = [pc EXCEPT ![h] = "submitting"]
      /\ bundle' = [bundle EXCEPT ![<<h, attempt[h]>>] = "sent"]
      /\ bids' = bids /\ attempt' = attempt /\ verdict' = verdict /\ told' = told
      /\ events' = events /\ rows' = rows /\ resolvers' = resolvers /\ results' = results
      /\ available' = available /\ promised' = promised /\ honoured' = honoured
      /\ restarts' = restarts
  BY DEF SubmitBundle, chain
<1>2. InHand(h) /\ InOrderSent(h) /\ Judged(h)
  BY DEF PipelineInv
<1>3. attempt[h] \in Attempts /\ <<h, attempt[h]>> \in Bundles
  BY <1>1, <1>2, InHandTypes DEF InHand
<1>4. /\ pc'[h] = "submitting" /\ \A g \in Hints : g # h => pc'[g] = pc[g]
      /\ bundle[<<h, attempt[h]>>] = "unsent"
      /\ \A b \in Bundles : b # <<h, attempt[h]>> => bundle'[b] = bundle[b]
  BY <1>1, <1>2, <1>3 DEF PipelineInv, TypeOK, InOrderSent
<1>5. TypeOK'
  BY <1>1, <1>3 DEF PipelineInv, TypeOK, BundleStates
<1>6. ASSUME NEW g \in Hints PROVE InHand(g)' /\ InOrderSent(g)' /\ Judged(g)'
  <2>1. CASE g # h
    <3>1. \A i \in Attempts : bundle'[<<g, i>>] = bundle[<<g, i>>]
      BY <1>4, <2>1 DEF Bundles
    <3> QED
      BY <1>1, <1>4, <2>1, <3>1, Untouched
  <2>2. CASE g = h
    <3>1. \A i \in Attempts : i # attempt[h] => bundle'[<<h, i>>] = bundle[<<h, i>>]
      BY <1>4 DEF Bundles
    <3>2. InHand(h)'
      BY <1>1, <1>2, <1>4 DEF InHand
    <3>3. InOrderSent(h)'
      <4>1. \A i \in Attempts : i < attempt[h] \/ i > attempt[h] => i # attempt[h]
        BY <1>3 DEF Attempts
      <4> QED
        BY <1>1, <1>2, <1>4, <3>1, <4>1 DEF InOrderSent, Out
    <3>4. Judged(h)'
      BY <1>1, <1>2, <1>4 DEF Judged, NoVerdict, Undecided
    <3> QED
      BY <2>2, <3>2, <3>3, <3>4
  <2> QED
    BY <2>1, <2>2
<1>7. Awaited'
  <2>1. \A b \in resolvers : b[1] # h /\ b[1] \in Hints
    BY <1>1, BundleIsPair DEF PipelineInv, TypeOK, Awaited
  <2>2. \A b \in resolvers : pc'[b[1]] = "waiting" /\ attempt[b[1]] = b[2]
    BY <1>4, <2>1 DEF PipelineInv, Awaited
  <2>3. ASSUME NEW i \in DOMAIN results, results[i].state \in Refused
        PROVE  bundle'[results[i].bundle] \in Refused
    <3>1. bundle[results[i].bundle] \in Refused
      BY <2>3 DEF PipelineInv, Awaited
    <3>2. results[i] \in Reports
      <4>1. results \in Seq(Reports)
        BY DEF PipelineInv, TypeOK, Reports
      <4> QED
        BY <4>1
    <3>3. results[i].bundle # <<h, attempt[h]>> /\ results[i].bundle \in Bundles
      BY <1>4, <3>1, <3>2 DEF Refused, Reports
    <3> QED
      BY <1>4, <3>1, <3>3
  <2> QED
    BY <1>1, <2>2, <2>3 DEF Awaited
<1> QED
  BY <1>5, <1>6, <1>7 DEF PipelineInv

\* The relay starts waiting for the candidate in hand.
LEMMA SendBundleReturnsKeeps ==
    ASSUME PipelineInv, NEW h \in Hints, SendBundleReturns(h)
    PROVE  PipelineInv'
<1>1. /\ pc[h] = "submitting" /\ pc' = [pc EXCEPT ![h] = "waiting"]
      /\ resolvers' = resolvers \cup {<<h, attempt[h]>>}
      /\ events' = [events EXCEPT ![h] = @ \cup {"bundle_submitted"}]
      /\ bids' = bids /\ attempt' = attempt /\ verdict' = verdict /\ told' = told
      /\ rows' = rows /\ bundle' = bundle /\ results' = results
      /\ available' = available /\ promised' = promised /\ honoured' = honoured
      /\ restarts' = restarts
  BY DEF SendBundleReturns, engine, chain
<1>2. InHand(h) /\ InOrderSent(h) /\ Judged(h)
  BY DEF PipelineInv
<1>3. <<h, attempt[h]>> \in Bundles
  BY <1>1, <1>2, InHandTypes DEF InHand
<1>4. pc'[h] = "waiting" /\ \A g \in Hints : g # h => pc'[g] = pc[g]
  BY <1>1 DEF PipelineInv, TypeOK
<1>5. TypeOK'
  BY <1>1, <1>3 DEF PipelineInv, TypeOK
<1>6. ASSUME NEW g \in Hints PROVE InHand(g)' /\ InOrderSent(g)' /\ Judged(g)'
  <2>1. CASE g # h
    BY <1>1, <1>4, <2>1, Untouched
  <2>2. CASE g = h
    <3>1. InHand(h)'
      BY <1>1, <1>2, <1>4 DEF InHand
    <3>2. InOrderSent(h)'
      BY <1>1, <1>2, <1>4 DEF InOrderSent, Out
    <3>3. Judged(h)'
      BY <1>1, <1>2, <1>4 DEF Judged, NoVerdict, Undecided
    <3> QED
      BY <2>2, <3>1, <3>2, <3>3
  <2> QED
    BY <2>1, <2>2
<1>7. Awaited'
  <2>1. \A b \in resolvers : b[1] \in Hints
    BY BundleIsPair DEF PipelineInv, TypeOK
  <2>2. \A b \in resolvers' : pc'[b[1]] = "waiting" /\ attempt[b[1]] = b[2]
    BY <1>1, <1>4, <2>1 DEF PipelineInv, Awaited
  <2> QED
    BY <1>1, <2>2 DEF PipelineInv, Awaited
<1> QED
  BY <1>5, <1>6, <1>7 DEF PipelineInv

\* The auction is recorded, or not.
LEMMA PersistAuctionKeeps ==
    ASSUME PipelineInv, NEW h \in Hints, PersistAuction(h)
    PROVE  PipelineInv'
<1>1. /\ pc[h] = "persisting" /\ pc' = [pc EXCEPT ![h] = "done"]
      /\ bids' = bids /\ attempt' = attempt /\ verdict' = verdict /\ told' = told
      /\ events' = events /\ resolvers' = resolvers /\ bundle' = bundle
      /\ results' = results /\ available' = available /\ promised' = promised
      /\ honoured' = honoured /\ restarts' = restarts
  BY DEF PersistAuction, engine, chain
<1>2. \/ rows' = rows
      \/ rows' = [rows EXCEPT ![h] =
            [status |-> AuctionStatus(verdict[h].status, Len(bids[h])),
             winner |-> verdict[h].winner]]
  BY DEF PersistAuction
<1>3. InHand(h) /\ InOrderSent(h) /\ Judged(h)
  BY DEF PipelineInv
<1>4. pc'[h] = "done" /\ \A g \in Hints : g # h => pc'[g] = pc[g]
  BY <1>1 DEF PipelineInv, TypeOK
<1>5. TypeOK'
  <2>1. AuctionStatus(verdict[h].status, Len(bids[h])) \in
            {"none", "won", "no_bids", "fallback", "failed"}
    BY DEF AuctionStatus
  <2>2. rows' \in [Hints -> [status : {"none", "won", "no_bids", "fallback", "failed"},
                             winner : 0..MaxCandidates]]
    <3>1. verdict[h].winner \in 0..MaxCandidates
      BY DEF PipelineInv, TypeOK
    <3> DEFINE row == [status |-> AuctionStatus(verdict[h].status, Len(bids[h])),
                       winner |-> verdict[h].winner]
               AllRows == [status : {"none", "won", "no_bids", "fallback", "failed"},
                        winner : 0..MaxCandidates]
    <3>2. row \in AllRows
      BY <2>1, <3>1
    <3>3. rows \in [Hints -> AllRows]
      BY DEF PipelineInv, TypeOK
    <3> HIDE DEF row, AllRows
    <3>4. rows' = rows \/ rows' = [rows EXCEPT ![h] = row]
      BY <1>2 DEF row
    <3>5. rows' \in [Hints -> AllRows]
      BY <3>2, <3>3, <3>4
    <3> QED
      BY <3>5 DEF AllRows
  <2> QED
    BY <1>1, <2>2 DEF PipelineInv, TypeOK
<1>6. ASSUME NEW g \in Hints PROVE InHand(g)' /\ InOrderSent(g)' /\ Judged(g)'
  <2>1. CASE g # h
    BY <1>1, <1>4, <2>1, Untouched
  <2>2. CASE g = h
    <3>1. InHand(h)' /\ InOrderSent(h)'
      BY <1>1, <1>3, <1>4 DEF InHand, InOrderSent, Out
    <3>2. Judged(h)'
      BY <1>1, <1>3, <1>4 DEF Judged, AllOut, Out, Undecided
    <3> QED
      BY <2>2, <3>1, <3>2
  <2> QED
    BY <2>1, <2>2
<1>7. Awaited'
  <2>1. \A b \in resolvers : b[1] # h /\ b[1] \in Hints
    BY <1>1, BundleIsPair DEF PipelineInv, TypeOK, Awaited
  <2> QED
    BY <1>1, <1>4, <2>1 DEF PipelineInv, Awaited
<1> QED
  BY <1>5, <1>6, <1>7 DEF PipelineInv

\* A restart forgets who was waiting; the bundles keep their state.
LEMMA RestartKeeps ==
    ASSUME PipelineInv, Restart
    PROVE  PipelineInv'
<1>1. /\ pc' = [h \in Hints |-> IF pc[h] \in {"open", "done"} THEN pc[h] ELSE "lost"]
      /\ resolvers' = {} /\ results' = <<>> /\ restarts' = restarts + 1
      /\ restarts < MaxRestarts
      /\ bids' = bids /\ attempt' = attempt /\ verdict' = verdict /\ told' = told
      /\ events' = events /\ rows' = rows /\ bundle' = bundle
      /\ available' = available /\ promised' = promised /\ honoured' = honoured
  BY DEF Restart, chain
<1>2. TypeOK'
  BY <1>1, PipelineAssumption DEF PipelineInv, TypeOK
<1>3. ASSUME NEW g \in Hints PROVE InHand(g)' /\ InOrderSent(g)' /\ Judged(g)'
  <2>1. InHand(g) /\ InOrderSent(g) /\ Judged(g)
    BY DEF PipelineInv
  <2>2. pc'[g] = pc[g] \/ (pc[g] \notin {"open", "done"} /\ pc'[g] = "lost")
    BY <1>1
  <2>3. InHand(g)' /\ InOrderSent(g)'
    BY <1>1, <2>1, <2>2 DEF InHand, InOrderSent, Out
  <2>4. Judged(g)'
    BY <1>1, <2>1, <2>2 DEF Judged, AllOut, Out, Undecided
  <2> QED
    BY <2>3, <2>4
<1>4. Awaited'
  BY <1>1 DEF Awaited
<1> QED
  BY <1>2, <1>3, <1>4 DEF PipelineInv

\* The steps that end the orchestration of an auction without a result.
LEMMA FallbackSwapKeeps ==
    ASSUME PipelineInv, NEW h \in Hints, FallbackSwap(h)
    PROVE  PipelineInv'
<1>1. PICK status \in {"fallback", "error"} : Conclude(h, Verdict(status, 0))
  BY DEF FallbackSwap
<1>2. /\ pc[h] = "fallback" /\ pc[h] \in Undecided /\ ResultsKept
      /\ UNCHANGED <<bids, attempt, rows, resolvers, bundle, results, chain, restarts>>
  BY SameResults DEF FallbackSwap, Undecided, engine, PipelineInv, TypeOK, Reports
<1>3. AllOut(h)
  <2>1. attempt[h] = 0 /\ InOrderSent(h)
    BY <1>2 DEF PipelineInv, InHand
  <2>2. \A i \in Attempts : i > 0
    BY DEF Attempts
  <2> QED
    BY <2>1, <2>2 DEF AllOut, Out, InOrderSent
<1>4. /\ Verdict(status, 0) \in Verdicts
      /\ Verdict(status, 0).status = status /\ Verdict(status, 0).winner = 0
  BY PipelineAssumption DEF Verdict, Verdicts
<1> QED
  BY <1>1, <1>2, <1>3, <1>4, ConcludeKeeps

LEMMA SendBundleThrowsKeeps ==
    ASSUME PipelineInv, NEW h \in Hints, SendBundleThrows(h)
    PROVE  PipelineInv'
<1>1. /\ pc[h] = "submitting" /\ pc[h] \in Undecided /\ ResultsKept
      /\ Conclude(h, Verdict("error", 0))
      /\ UNCHANGED <<bids, attempt, rows, resolvers, bundle, results, chain, restarts>>
  BY SameResults DEF SendBundleThrows, Undecided, engine, PipelineInv, TypeOK, Reports
<1>2. /\ Verdict("error", 0) \in Verdicts
      /\ Verdict("error", 0).status = "error" /\ Verdict("error", 0).winner = 0
  BY PipelineAssumption DEF Verdict, Verdicts
<1> QED
  BY <1>1, <1>2, ConcludeKeeps

\* The candidate that may still land is the winner of a timeout.
LEMMA ResultTimeoutKeeps ==
    ASSUME PipelineInv, NEW h \in Hints, ResultTimeout(h)
    PROVE  PipelineInv'
<1>1. /\ pc[h] = "waiting" /\ pc[h] \in Undecided /\ ResultsKept
      /\ Conclude(h, Verdict("timeout", attempt[h]))
      /\ resolvers' = resolvers \ {<<h, attempt[h]>>}
      /\ UNCHANGED <<bids, attempt, rows, bundle, results, chain, restarts>>
  BY SameResults
  DEF ResultTimeout, AfterTimeout, Undecided, engine, PipelineInv, TypeOK, Reports
<1>2. attempt[h] >= 1 /\ attempt[h] \in 0..MaxCandidates
  BY <1>1 DEF PipelineInv, InHand, TypeOK
<1>3. /\ Verdict("timeout", attempt[h]) \in Verdicts
      /\ Verdict("timeout", attempt[h]).status = "timeout"
      /\ Verdict("timeout", attempt[h]).winner = attempt[h]
  BY <1>2 DEF Verdict, Verdicts
<1> QED
  BY <1>1, <1>2, <1>3, ConcludeKeeps

\* A candidate without a bundle can be skipped.
LEMMA SkipCandidateKeeps ==
    ASSUME PipelineInv, NEW h \in Hints, SkipCandidate(h)
    PROVE  PipelineInv'
<1>1. /\ pc[h] = "building" /\ NextCandidate(h) /\ ResultsKept
      /\ UNCHANGED <<bids, rows, resolvers, bundle, results, chain, restarts>>
  BY SameResults DEF SkipCandidate, engine, PipelineInv, TypeOK, Reports
<1>2. Out(h, attempt[h])
  BY <1>1 DEF PipelineInv, InOrderSent, Out
<1> QED
  BY <1>1, <1>2, NextCandidateKeeps

\* A result settles the wait of its own bundle, and a refusal is final.
LEMMA HandleBundleResultKeeps ==
    ASSUME PipelineInv, HandleBundleResult
    PROVE  PipelineInv'
<1> DEFINE r == Head(results)
           b == r.bundle
<1>1. r \in Reports /\ 1 \in DOMAIN results /\ results[1] = r
  <2>1. results \in Seq(Reports) /\ results # <<>>
    BY DEF HandleBundleResult, PipelineInv, TypeOK, Reports
  <2> QED
    BY <2>1
<1>2. ResultsKept
  BY TailKeepsResults DEF HandleBundleResult, PipelineInv, TypeOK, Reports
<1> HIDE DEF r
<1>3. UNCHANGED <<bundle, chain, restarts>>
  BY DEF HandleBundleResult
<1>4. CASE UNCHANGED relay
  BY <1>2, <1>3, <1>4, ChainStepKeeps DEF chain, PipelineInv, TypeOK
<1>5. ASSUME b \in resolvers
      PROVE  /\ b[1] \in Hints /\ pc[b[1]] = "waiting" /\ attempt[b[1]] = b[2]
             /\ b = <<b[1], attempt[b[1]]>> /\ attempt[b[1]] >= 1
             /\ attempt[b[1]] \in 0..MaxCandidates
  <2>1. b \in Bundles
    BY <1>1 DEF Reports
  <2>2. b[1] \in Hints /\ b = <<b[1], b[2]>>
    BY <2>1, BundleIsPair
  <2>3. pc[b[1]] = "waiting" /\ attempt[b[1]] = b[2]
    BY <1>5 DEF PipelineInv, Awaited
  <2> QED
    BY <2>2, <2>3 DEF PipelineInv, InHand, TypeOK
<1>6. CASE /\ b \in resolvers /\ Outcome(r.state) = "landed"
           /\ resolvers' = resolvers \ {b}
           /\ Conclude(b[1], Verdict("landed", b[2]))
           /\ UNCHANGED <<bids, attempt, rows>>
  <2>1. /\ Verdict("landed", b[2]) \in Verdicts
        /\ Verdict("landed", b[2]).status = "landed"
        /\ Verdict("landed", b[2]).winner = attempt[b[1]]
    BY <1>5, <1>6 DEF Verdict, Verdicts
  <2>2. pc[b[1]] \in Undecided
    BY <1>5, <1>6 DEF Undecided
  <2>3. <<b[1], attempt[b[1]]>> \notin resolvers'
    BY <1>5, <1>6
  <2> QED
    BY <1>2, <1>3, <1>5, <1>6, <2>1, <2>2, <2>3, ConcludeKeeps
<1>7. CASE /\ b \in resolvers /\ Outcome(r.state) = "failed"
           /\ resolvers' = resolvers \ {b}
           /\ NextCandidate(b[1])
           /\ UNCHANGED <<bids, rows>>
  <2>1. r.state \in Refused
    BY <1>7 DEF Outcome
  <2>2. Out(b[1], attempt[b[1]])
    <3>1. bundle[b] \in Refused
      BY <1>1, <2>1 DEF PipelineInv, Awaited
    <3> QED
      BY <1>5, <1>7, <3>1 DEF Out
  <2>3. <<b[1], attempt[b[1]]>> \notin resolvers'
    BY <1>5, <1>7
  <2> QED
    BY <1>2, <1>3, <1>5, <1>7, <2>2, <2>3, NextCandidateKeeps
<1> QED
  BY <1>4, <1>6, <1>7 DEF HandleBundleResult, r

\* The engine's own steps: a refusal is final, a landing pays a commitment.
LEMMA EngineKeeps ==
    ASSUME PipelineInv, NEW b \in Bundles, Engine(b)
    PROVE  PipelineInv'
<1>1. CASE AcceptBundle(b) \/ RefuseBundle(b) \/ FinalizeBundle(b)
  <2>1. /\ available' \in [Searchers -> Nat] /\ promised' = promised
        /\ honoured' \subseteq promised
    BY <1>1 DEF AcceptBundle, RefuseBundle, FinalizeBundle, chain, PipelineInv, TypeOK
  <2>2. CASE AcceptBundle(b)
    BY <2>1, <2>2, PublishKeeps DEF AcceptBundle, BundleStates, Refused
  <2>3. CASE RefuseBundle(b)
    BY <2>1, <2>3, PublishKeeps DEF RefuseBundle, BundleStates, Refused
  <2>4. CASE FinalizeBundle(b)
    BY <2>1, <2>4, PublishKeeps DEF FinalizeBundle, BundleStates, Refused
  <2> QED
    BY <1>1, <2>2, <2>3, <2>4
<1>2. CASE LandBundle(b)
  <2>1. bundle[b] = "accepted" /\ Publish(b, "processed") /\ UNCHANGED <<relay, restarts>>
    BY <1>2 DEF LandBundle
  <2>2. Commitment(b) \in Ledger!Commitments
    BY <2>1, SentIsCandidate
  <2> DEFINE c == Commitment(b)
  <2>3. /\ c.searcher \in Searchers /\ c.bid \in Nat /\ Reimbursement \in Nat
        /\ available \in [Searchers -> Nat] /\ honoured \subseteq promised
    BY <2>2, PipelineAssumption DEF Ledger!Commitments, PipelineInv, TypeOK
  <2>4. /\ c \in promised /\ promised' = promised /\ honoured' = honoured \cup {c}
        /\ available[c.searcher] >= c.bid + Reimbursement
        /\ available' = [available EXCEPT ![c.searcher] = @ - (c.bid + Reimbursement)]
    BY <1>2 DEF LandBundle, Ledger!Honour
  <2> HIDE DEF c
  <2>5. available[c.searcher] - (c.bid + Reimbursement) \in Nat
    BY <2>3, <2>4
  <2>6. available' \in [Searchers -> Nat] /\ honoured' \subseteq promised
    BY <2>3, <2>4, <2>5
  <2> QED
    BY <2>1, <2>4, <2>6, PublishKeeps DEF BundleStates, Refused
<1>3. CASE AbandonFork(b)
  <2>1. bundle[b] = "processed" /\ Publish(b, "dropped") /\ UNCHANGED <<relay, restarts>>
    BY <1>3 DEF AbandonFork
  <2>2. Commitment(b) \in Ledger!Commitments
    BY <2>1, SentIsCandidate
  <2> DEFINE c == Commitment(b)
  <2>3. /\ c.searcher \in Searchers /\ c.bid \in Nat /\ Reimbursement \in Nat
        /\ available \in [Searchers -> Nat] /\ honoured \subseteq promised
    BY <2>2, PipelineAssumption DEF Ledger!Commitments, PipelineInv, TypeOK
  <2>4. /\ promised' = promised /\ honoured' = honoured \ {c}
        /\ available' = [available EXCEPT ![c.searcher] = @ + c.bid + Reimbursement]
    BY <1>3 DEF AbandonFork
  <2> HIDE DEF c
  <2>5. available' \in [Searchers -> Nat] /\ honoured' \subseteq promised
    BY <2>3, <2>4
  <2> QED
    BY <2>1, <2>4, <2>5, PublishKeeps DEF BundleStates, Refused
<1> QED
  BY <1>1, <1>2, <1>3 DEF Engine

LEMMA WithdrawEscrowKeeps ==
    ASSUME PipelineInv, NEW s \in Searchers, WithdrawEscrow(s)
    PROVE  PipelineInv'
<1>1. UNCHANGED <<relay, bundle, results, restarts, promised, honoured>>
  BY DEF WithdrawEscrow, engine
<1>2. available' \in [Searchers -> Nat]
  BY DEF WithdrawEscrow, PipelineInv, TypeOK
<1>3. ResultsKept
  BY <1>1, SameResults DEF PipelineInv, TypeOK, Reports
<1> QED
  BY <1>1, <1>2, <1>3, ChainStepKeeps

LEMMA LoseResultKeeps ==
    ASSUME PipelineInv, LoseResult
    PROVE  PipelineInv'
<1>1. ResultsKept
  BY TailKeepsResults DEF LoseResult, PipelineInv, TypeOK, Reports
<1> QED
  BY <1>1, ChainStepKeeps DEF LoseResult, chain, PipelineInv, TypeOK

----------------------------------------------------------------------------
(* The pipeline *)

\* Nothing has been sent, judged or told.
LEMMA PipelineInvInit == Init => PipelineInv
<1> SUFFICES ASSUME Init PROVE PipelineInv
  OBVIOUS
<1>1. TypeOK
  BY PipelineAssumption
  DEF Init, TypeOK, NoVerdict, NoRow, BundleStates, Ledger!Commitments
<1>2. ASSUME NEW h \in Hints PROVE InHand(h) /\ InOrderSent(h) /\ Judged(h)
  <2>1. \A i \in Attempts : bundle[<<h, i>>] = "unsent" /\ i > 0
    BY DEF Init, Bundles, Attempts
  <2>2. /\ pc[h] = "open" /\ attempt[h] = 0 /\ bids[h] = <<>>
        /\ verdict[h] = NoVerdict /\ h \notin told
    BY DEF Init
  <2> QED
    BY <2>1, <2>2 DEF InHand, InOrderSent, Judged, Out, NoVerdict
<1>3. Awaited
  BY DEF Init, Awaited
<1> QED
  BY <1>1, <1>2, <1>3 DEF PipelineInv

\* Every step of the relay, the engine, the searchers or the process keeps it.
LEMMA PipelineInvNext == PipelineInv /\ [Next]_vars => PipelineInv'
<1> SUFFICES ASSUME PipelineInv, [Next]_vars PROVE PipelineInv'
  OBVIOUS
<1>1. CASE UNCHANGED vars
  BY <1>1, SameResults, ChainStepKeeps
  DEF vars, engine, chain, PipelineInv, TypeOK, Reports
<1>2. ASSUME NEW h \in Hints, Relay(h) PROVE PipelineInv'
  BY <1>2, CloseAuctionKeeps, FallbackSwapKeeps, SkipCandidateKeeps, SubmitBundleKeeps,
     SendBundleReturnsKeeps, SendBundleThrowsKeeps, ResultTimeoutKeeps, PersistAuctionKeeps
  DEF Relay
<1>3. CASE HandleBundleResult \/ Restart \/ LoseResult
  BY <1>3, HandleBundleResultKeeps, RestartKeeps, LoseResultKeeps
<1>4. ASSUME NEW b \in Bundles, Engine(b) PROVE PipelineInv'
  BY <1>4, EngineKeeps
<1>5. ASSUME NEW s \in Searchers, WithdrawEscrow(s) PROVE PipelineInv'
  BY <1>5, WithdrawEscrowKeeps
<1> QED
  BY <1>1, <1>2, <1>3, <1>4, <1>5 DEF Next

LEMMA PipelineInvariance == Spec => []PipelineInv
  BY PipelineInvInit, PipelineInvNext, PTL DEF Spec

\* orchestrateSwap turns to a lower bid only when the higher ones can no longer
\* land (bundle/orchestrator.ts, the loop over the candidates).
THEOREM BetterBidsRefusedFirstAlways == Spec => []BetterBidsRefusedFirst
<1>1. PipelineInv => BetterBidsRefusedFirst
  <2> SUFFICES ASSUME PipelineInv, NEW h \in Hints, NEW i \in Attempts, NEW j \in Attempts,
                      j < i, bundle[<<h, i>>] # "unsent"
               PROVE  Out(h, j)
    BY DEF PipelineInv, BetterBidsRefusedFirst, Out
  <2>1. InOrderSent(h) /\ attempt[h] \in Nat /\ i \in Nat /\ j \in Nat
    BY InHandTypes DEF PipelineInv
  <2>2. j < attempt[h]
    BY <2>1 DEF InOrderSent
  <2> QED
    BY <2>1, <2>2 DEF InOrderSent
<1> QED
  BY <1>1, PipelineInvariance, PTL

\* Bidders told that nobody won are not charged afterwards (finalizeAuction's
\* sendAuctionResult after a fallback or no_valid_winner).
THEOREM NoWinnerIsFinalAlways == Spec => []NoWinnerIsFinal
<1>1. PipelineInv => NoWinnerIsFinal
  <2> SUFFICES ASSUME PipelineInv, NEW h \in Hints, h \in told, verdict[h].winner = 0
               PROVE  AllOut(h)
    BY DEF NoWinnerIsFinal, AllOut, Out
  <2>1. /\ Judged(h) /\ attempt[h] \in Nat
        /\ verdict[h].status \in {"none", "landed", "timeout", "fallback",
                                  "no_valid_winner", "error"}
    BY InHandTypes DEF PipelineInv, TypeOK
  <2>2. verdict[h].status \notin {"landed", "timeout"}
    BY <2>1 DEF Judged
  <2> QED
    BY <2>1, <2>2 DEF Judged
<1> QED
  BY <1>1, PipelineInvariance, PTL

\* A settlement on the chain is one the relay waits for, has reported or lost to
\* an error or a restart (bundle/submitter.ts and finalizeAuction).
THEOREM SettlementIsReportedAlways == Spec => []SettlementIsReported
<1>1. PipelineInv => SettlementIsReported
  <2> SUFFICES ASSUME PipelineInv, NEW h \in Hints, NEW i \in Attempts,
                      bundle[<<h, i>>] \in Settled
               PROVE  \/ attempt[h] = i /\ pc[h] \in {"submitting", "waiting", "lost"}
                      \/ verdict[h].winner = i
                      \/ verdict[h].status = "error"
    BY DEF SettlementIsReported, Settled
  <2>1. ~Out(h, i) /\ bundle[<<h, i>>] # "unsent"
    BY DEF Out, Settled, Refused
  <2>2. /\ InHand(h) /\ InOrderSent(h) /\ Judged(h) /\ attempt[h] \in Nat /\ i \in Nat
        /\ i > 0
    BY InHandTypes DEF PipelineInv
  <2>3. attempt[h] = i
    BY <2>1, <2>2 DEF InOrderSent
  <2>4. /\ pc[h] \in {"open", "fallback", "building", "submitting", "waiting",
                      "persisting", "done", "lost"}
        /\ verdict[h].status \in {"none", "landed", "timeout", "fallback",
                                  "no_valid_winner", "error"}
    BY DEF PipelineInv, TypeOK
  <2>5. pc[h] \notin {"open", "fallback", "building"}
    BY <2>1, <2>2, <2>3 DEF InHand, InOrderSent
  <2>6. pc[h] \in {"persisting", "done"} => verdict[h].status \in {"landed", "timeout", "error"}
    BY <2>1, <2>2, <2>4 DEF Judged, AllOut
  <2> QED
    BY <2>2, <2>3, <2>4, <2>5, <2>6 DEF Judged
<1> QED
  BY <1>1, PipelineInvariance, PTL

\* The verdict on an auction, once given, and the bundles not sent by then.
Stands(h) ==
    verdict[h] # NoVerdict =>
        /\ verdict'[h] = verdict[h]
        /\ \A i \in Attempts : bundle[<<h, i>>] = "unsent" => bundle'[<<h, i>>] = "unsent"

\* No step reopens an orchestration that has returned.
LEMMA VerdictStep ==
    ASSUME PipelineInv, [Next]_vars, NEW h \in Hints
    PROVE  Stands(h)
<1> USE DEF Stands
<1> SUFFICES ASSUME verdict[h] # NoVerdict
             PROVE  Stands(h)
  OBVIOUS
<1>1. pc[h] \notin Undecided
  <2>1. Judged(h)
    BY DEF PipelineInv
  <2> QED
    BY <2>1 DEF Judged
<1>2. CASE UNCHANGED <<verdict, bundle>>
  BY <1>2
<1>3. ASSUME NEW g \in Hints, pc[g] \in Undecided, NEW v, Conclude(g, v), bundle' = bundle
      PROVE  Stands(h)
  BY <1>1, <1>3 DEF Conclude, PipelineInv, TypeOK
<1>4. ASSUME NEW g \in Hints, pc[g] \in Undecided, NextCandidate(g), bundle' = bundle
      PROVE  Stands(h)
  BY <1>3, <1>4 DEF NextCandidate
<1>5. ASSUME NEW g \in Hints, Relay(g) PROVE Stands(h)
  <2>1. CASE CloseAuction(g) \/ SendBundleReturns(g) \/ PersistAuction(g)
    BY <1>2, <2>1 DEF CloseAuction, SendBundleReturns, PersistAuction, engine
  <2>2. CASE FallbackSwap(g) \/ SendBundleThrows(g) \/ ResultTimeout(g)
    BY <1>3, <2>2
    DEF FallbackSwap, SendBundleThrows, ResultTimeout, AfterTimeout, Undecided, engine
  <2>3. CASE SkipCandidate(g)
    BY <1>4, <2>3 DEF SkipCandidate, Undecided, engine
  <2>4. CASE SubmitBundle(g)
    <3>1. g # h
      BY <1>1, <2>4 DEF SubmitBundle, Undecided
    <3>2. \A i \in Attempts : <<h, i>> # <<g, attempt[g]>> /\ <<h, i>> \in Bundles
      BY <3>1 DEF Bundles
    <3>3. \A i \in Attempts : bundle'[<<h, i>>] = bundle[<<h, i>>]
      BY <2>4, <3>2 DEF SubmitBundle, PipelineInv, TypeOK
    <3> QED
      BY <2>4, <3>3 DEF SubmitBundle
  <2> QED
    BY <1>5, <2>1, <2>2, <2>3, <2>4 DEF Relay
<1>6. CASE HandleBundleResult
  <2> DEFINE b == Head(results).bundle
  <2>1. CASE UNCHANGED relay
    BY <1>2, <1>6, <2>1 DEF HandleBundleResult, relay
  <2>2. CASE /\ b \in resolvers
             /\ Conclude(b[1], Verdict("landed", b[2])) \/ NextCandidate(b[1])
    <3>1. b[1] \in Hints /\ pc[b[1]] \in Undecided
      <4>1. b \in Bundles /\ pc[b[1]] = "waiting"
        BY <2>2 DEF PipelineInv, TypeOK, Awaited
      <4> QED
        BY <4>1, BundleIsPair DEF Undecided
    <3>2. bundle' = bundle
      BY <1>6 DEF HandleBundleResult
    <3> QED
      BY <1>3, <1>4, <2>2, <3>1, <3>2
  <2> QED
    BY <1>6, <2>1, <2>2 DEF HandleBundleResult
<1>7. CASE Restart \/ LoseResult \/ \E s \in Searchers : WithdrawEscrow(s)
  BY <1>2, <1>7 DEF Restart, LoseResult, WithdrawEscrow, relay, engine
<1>8. ASSUME NEW b \in Bundles, Engine(b) PROVE Stands(h)
  <2>1. verdict' = verdict /\ bundle[b] # "unsent"
    BY <1>8
    DEF Engine, AcceptBundle, RefuseBundle, LandBundle, FinalizeBundle, AbandonFork, relay
  <2>2. \E state : Publish(b, state)
    BY <1>8
    DEF Engine, AcceptBundle, RefuseBundle, LandBundle, FinalizeBundle, AbandonFork
  <2>3. \A c \in Bundles : c # b => bundle'[c] = bundle[c]
    BY <2>2 DEF Publish, PipelineInv, TypeOK
  <2>4. \A i \in Attempts : <<h, i>> \in Bundles
    BY DEF Bundles
  <2>5. \A i \in Attempts : bundle[<<h, i>>] = "unsent" => bundle'[<<h, i>>] = "unsent"
    BY <2>1, <2>3, <2>4
  <2> QED
    BY <2>1, <2>5
<1>9. CASE UNCHANGED vars
  BY <1>2, <1>9 DEF vars, relay, engine
<1> HIDE DEF Stands
<1> QED
  BY <1>5, <1>6, <1>7, <1>8, <1>9 DEF Next

\* Once orchestrateSwap has returned, its verdict stands and nothing more is
\* submitted for the auction (finalizeAuction).
THEOREM VerdictStandsAlways == Spec => VerdictStands
<1>1. PipelineInv /\ [Next]_vars => \A h \in Hints : Stands(h)
  BY VerdictStep
<1>2. PipelineInv /\ [Next]_vars =>
        [\A h \in Hints : verdict[h] # NoVerdict =>
            /\ verdict'[h] = verdict[h]
            /\ \A i \in Attempts :
                bundle[<<h, i>>] = "unsent" => bundle'[<<h, i>>] = "unsent"]_vars
  BY <1>1 DEF Stands
<1> QED
  BY <1>2, PipelineInvariance, PTL DEF Spec, VerdictStands

----------------------------------------------------------------------------
(* What is on the chain *)

\* The commitment of a bundle that was sent stays what it was.
LEMMA CommitmentStands ==
    ASSUME PipelineInv, [Next]_vars, NEW b \in Bundles, bundle[b] # "unsent"
    PROVE  Commitment(b)' = Commitment(b)
<1>1. b[1] \in Hints /\ pc[b[1]] # "open"
  BY BundleIsPair, SentIsCandidate
<1>2. ASSUME NEW h \in Hints, Relay(h) PROVE bids'[b[1]] = bids[b[1]]
  <2>1. CASE CloseAuction(h)
    BY <1>1, <2>1 DEF CloseAuction, PipelineInv, TypeOK
  <2>2. CASE ~CloseAuction(h)
    BY <1>2, <2>2
    DEF Relay, FallbackSwap, SkipCandidate, SubmitBundle, SendBundleReturns,
        SendBundleThrows, ResultTimeout, PersistAuction
  <2> QED
    BY <2>1, <2>2
<1>3. CASE \/ HandleBundleResult \/ Restart \/ LoseResult
           \/ \E s \in Searchers : WithdrawEscrow(s)
           \/ \E c \in Bundles : Engine(c)
           \/ UNCHANGED vars
  <2>1. bids' = bids
    BY <1>3
    DEF HandleBundleResult, Restart, LoseResult, WithdrawEscrow, Engine, AcceptBundle,
        RefuseBundle, LandBundle, FinalizeBundle, AbandonFork, vars, relay
  <2> QED
    BY <2>1 DEF Commitment
<1> QED
  BY <1>2, <1>3 DEF Next, Commitment

\* One bundle of a swap at most is settled.
LEMMA OneSettled ==
    ASSUME PipelineInv, NEW b \in Bundles, bundle[b] \in Settled
    PROVE  /\ b = <<b[1], attempt[b[1]]>>
           /\ pc[b[1]] \notin {"open", "fallback", "building"}
<1>1. b[1] \in Hints /\ b[2] \in Attempts /\ b = <<b[1], b[2]>>
  BY BundleIsPair
<1> DEFINE h == b[1]
           i == b[2]
<1> HIDE DEF h, i
<1>2. h \in Hints /\ i \in Attempts /\ ~Out(h, i) /\ bundle[<<h, i>>] # "unsent"
  BY <1>1 DEF Out, Settled, Refused, h, i
<1>3. InHand(h) /\ InOrderSent(h) /\ attempt[h] \in Nat /\ i \in Nat /\ i > 0
  BY <1>2, InHandTypes DEF PipelineInv
<1>4. attempt[h] = i
  BY <1>2, <1>3 DEF InOrderSent
<1>5. pc[h] \notin {"open", "fallback", "building"}
  BY <1>2, <1>3, <1>4 DEF InHand, InOrderSent
<1> QED
  BY <1>1, <1>4, <1>5 DEF h, i

\* Landing pays the bid; abandoning a block takes back that bundle's payment
\* and no other's.
LEMMA HonouredStep ==
    ASSUME PipelineInv, SettledIsHonoured, [Next]_vars
    PROVE  SettledIsHonoured'
<1>1. CASE UNCHANGED <<bundle, honoured>>
  BY <1>1, CommitmentStands DEF SettledIsHonoured, Settled
<1>2. ASSUME NEW h \in Hints, SubmitBundle(h)
      PROVE  SettledIsHonoured'
  <2>1. /\ bundle' = [bundle EXCEPT ![<<h, attempt[h]>>] = "sent"]
        /\ honoured' = honoured
    BY <1>2 DEF SubmitBundle, chain
  <2>2. \A b \in Bundles : bundle'[b] \in Settled => bundle'[b] = bundle[b]
    BY <2>1 DEF PipelineInv, TypeOK, Settled
  <2> QED
    BY <2>1, <2>2, CommitmentStands DEF SettledIsHonoured, Settled
<1>3. ASSUME NEW b \in Bundles, Engine(b)
      PROVE  SettledIsHonoured'
  <2>1. \A c \in Bundles : Commitment(c)' = Commitment(c)
    BY <1>3
    DEF Engine, AcceptBundle, RefuseBundle, LandBundle, FinalizeBundle, AbandonFork, relay,
        Commitment
  <2>2. CASE AcceptBundle(b) \/ RefuseBundle(b) \/ FinalizeBundle(b)
    <3>1. /\ honoured' = honoured
          /\ \A c \in Bundles : bundle'[c] \in Settled => bundle[c] \in Settled
      BY <2>2 DEF AcceptBundle, RefuseBundle, FinalizeBundle, chain, Publish,
         PipelineInv, TypeOK, Settled
    <3> QED
      BY <2>1, <3>1 DEF SettledIsHonoured
  <2>3. CASE LandBundle(b)
    <3>1. /\ honoured' = honoured \cup {Commitment(b)}
          /\ \A c \in Bundles : c # b => bundle'[c] = bundle[c]
      BY <2>3 DEF LandBundle, Ledger!Honour, Publish, PipelineInv, TypeOK
    <3> QED
      BY <2>1, <3>1 DEF SettledIsHonoured
  <2>4. CASE AbandonFork(b)
    <3>1. /\ honoured' = honoured \ {Commitment(b)}
          /\ bundle[b] \in Settled /\ bundle'[b] \notin Settled
          /\ \A c \in Bundles : c # b => bundle'[c] = bundle[c]
      BY <2>4 DEF AbandonFork, Publish, PipelineInv, TypeOK, Settled
    <3>2. ASSUME NEW c \in Bundles, bundle'[c] \in Settled
          PROVE  Commitment(c) \in honoured /\ Commitment(c) # Commitment(b)
      <4>1. c # b /\ bundle[c] \in Settled
        BY <3>1, <3>2
      <4>2. c[1] # b[1]
        BY <3>1, <4>1, OneSettled
      <4>3. Commitment(c).hint = c[1] /\ Commitment(b).hint = b[1]
        BY DEF Commitment
      <4> QED
        BY <4>1, <4>2, <4>3 DEF SettledIsHonoured
    <3> QED
      BY <2>1, <3>1, <3>2 DEF SettledIsHonoured
  <2> QED
    BY <1>3, <2>2, <2>3, <2>4 DEF Engine
<1>4. CASE \/ HandleBundleResult \/ Restart \/ LoseResult \/ UNCHANGED vars
           \/ \E s \in Searchers : WithdrawEscrow(s)
  BY <1>1, <1>4
  DEF HandleBundleResult, Restart, LoseResult, WithdrawEscrow, vars, engine, chain
<1>5. ASSUME NEW h \in Hints, Relay(h), ~SubmitBundle(h)
      PROVE  SettledIsHonoured'
  BY <1>1, <1>5
  DEF Relay, CloseAuction, FallbackSwap, SkipCandidate, SendBundleReturns,
      SendBundleThrows, ResultTimeout, PersistAuction, engine, chain
<1> QED
  BY <1>2, <1>3, <1>4, <1>5 DEF Next

LEMMA HonouredInvariance == Spec => [](PipelineInv /\ SettledIsHonoured)
<1>1. Init => SettledIsHonoured
  BY DEF Init, SettledIsHonoured, Settled
<1>2. PipelineInv /\ SettledIsHonoured /\ [Next]_vars => SettledIsHonoured'
  BY HonouredStep
<1> QED
  BY <1>1, <1>2, PipelineInvariance, PTL DEF Spec

\* A step that settles nothing, by which a verdict "landed" is given for a
\* settled bundle only and a row "won" for such a verdict only.
LEMMA QuietSettled ==
    ASSUME PipelineInv, SettledInv, [Next]_vars, ResultsKept,
           \A b \in Bundles : bundle'[b] \in Settled <=> bundle[b] \in Settled,
           \A h \in Hints : verdict'[h].status = "landed" =>
                \/ verdict'[h] = verdict[h]
                \/ bundle[<<h, verdict'[h].winner>>] \in Settled,
           \A h \in Hints : verdict'[h].winner # 0 => <<h, verdict'[h].winner>> \in Bundles,
           \A h \in Hints : rows'[h].status = "won" =>
                \/ rows'[h] = rows[h]
                \/ verdict[h].status = "landed" /\ rows'[h].winner = verdict[h].winner
    PROVE  SettledInv'
<1>2. ASSUME NEW i \in DOMAIN results', results'[i].state \in Settled
      PROVE  bundle'[results'[i].bundle] \in Settled
  <2>1. PICK j \in DOMAIN results : results'[i] = results[j]
    BY DEF ResultsKept
  <2>2. results'[i] \in Reports
    BY DEF ResultsKept
  <2> QED
    BY <1>2, <2>1, <2>2 DEF SettledInv, ReportsAreTrue, Reports
<1>3. ASSUME NEW h \in Hints, verdict'[h].status = "landed"
      PROVE  bundle'[<<h, verdict'[h].winner>>] \in Settled
  <2>1. bundle[<<h, verdict'[h].winner>>] \in Settled
    BY <1>3 DEF SettledInv, LandedIsSettled
  <2>2. PipelineInv' /\ verdict'[h].winner # 0
    <3>1. PipelineInv'
      BY PipelineInvNext
    <3>2. Judged(h)' /\ attempt'[h] \in 0..MaxCandidates
      BY <3>1 DEF PipelineInv, TypeOK
    <3> QED
      BY <1>3, <3>1, <3>2 DEF Judged
  <2> QED
    BY <2>1, <2>2
<1>4. ASSUME NEW h \in Hints, rows'[h].status = "won"
      PROVE  verdict'[h].status = "landed" /\ rows'[h].winner = verdict'[h].winner
  <2>1. verdict[h].status = "landed" /\ rows'[h].winner = verdict[h].winner
    BY <1>4 DEF SettledInv, WonIsLanded
  <2>2. verdict'[h] = verdict[h]
    BY <2>1, VerdictStep DEF Stands, NoVerdict
  <2> QED
    BY <2>1, <2>2
<1> QED
  BY <1>2, <1>3, <1>4 DEF SettledInv, ReportsAreTrue, LandedIsSettled, WonIsLanded

LEMMA WinnerIsBundle ==
    ASSUME PipelineInv, [Next]_vars
    PROVE  \A h \in Hints : verdict'[h].winner # 0 => <<h, verdict'[h].winner>> \in Bundles
<1>1. PipelineInv'
  BY PipelineInvNext
<1>2. ASSUME NEW h \in Hints, verdict'[h].winner # 0
      PROVE  <<h, verdict'[h].winner>> \in Bundles
  <2>1. verdict'[h].winner \in 0..MaxCandidates
    BY <1>1 DEF PipelineInv, TypeOK
  <2>2. verdict'[h].winner \in Attempts
    BY <1>2, <2>1, PipelineAssumption DEF Attempts
  <2> QED
    BY <2>2 DEF Bundles
<1> QED
  BY <1>2

\* A bundle's step, unless it abandons a processed block.
LEMMA EngineSettled ==
    ASSUME PipelineInv, SettledInv, ~Forks, NEW b \in Bundles, Engine(b)
    PROVE  SettledInv'
<1>0. [Next]_vars
  BY DEF Next
<1>1. PICK state \in BundleStates :
        Publish(b, state) /\ (bundle[b] \in Settled => state \in Settled)
  <2>1. CASE AcceptBundle(b)
    BY <2>1 DEF AcceptBundle, BundleStates, Settled
  <2>2. CASE RefuseBundle(b)
    BY <2>2 DEF RefuseBundle, BundleStates, Settled, Refused
  <2>3. CASE LandBundle(b)
    BY <2>3 DEF LandBundle, BundleStates, Settled
  <2>4. CASE FinalizeBundle(b)
    BY <2>4 DEF FinalizeBundle, BundleStates, Settled
  <2>5. CASE AbandonFork(b)
    BY <2>5 DEF AbandonFork
  <2> QED
    BY <2>1, <2>2, <2>3, <2>4, <2>5 DEF Engine
<1>2. UNCHANGED <<verdict, rows>>
  BY DEF Engine, AcceptBundle, RefuseBundle, LandBundle, FinalizeBundle, AbandonFork, relay
<1>3. /\ bundle'[b] = state
      /\ \A c \in Bundles : c # b => bundle'[c] = bundle[c]
      /\ \A c \in Bundles : bundle[c] \in Settled => bundle'[c] \in Settled
  BY <1>1 DEF Publish, PipelineInv, TypeOK
<1>6. ASSUME NEW i \in DOMAIN results', results'[i].state \in Settled
      PROVE  bundle'[results'[i].bundle] \in Settled
  <2>1. results \in Seq(Reports)
    BY DEF PipelineInv, TypeOK, Reports
  <2>2. \/ i \in DOMAIN results /\ results'[i] = results[i]
        \/ results'[i] = [bundle |-> b, state |-> state]
    BY <1>1, <2>1 DEF Publish
  <2>3. CASE i \in DOMAIN results /\ results'[i] = results[i]
    <3>1. results[i] \in Reports
      BY <2>1, <2>3
    <3> QED
      BY <1>3, <1>6, <2>3, <3>1 DEF SettledInv, ReportsAreTrue, Reports
  <2> QED
    BY <1>3, <1>6, <2>2, <2>3
<1>7. ASSUME NEW h \in Hints, verdict'[h].status = "landed"
      PROVE  bundle'[<<h, verdict'[h].winner>>] \in Settled
  <2>1. bundle[<<h, verdict[h].winner>>] \in Settled
    BY <1>2, <1>7 DEF SettledInv, LandedIsSettled
  <2>2. Judged(h) /\ attempt[h] \in Nat
    BY InHandTypes DEF PipelineInv
  <2>3. <<h, verdict'[h].winner>> \in Bundles
    BY <1>0, <1>2, <1>7, <2>2, WinnerIsBundle DEF Judged
  <2> QED
    BY <1>2, <1>3, <2>1, <2>3
<1>8. WonIsLanded'
  BY <1>2 DEF SettledInv, WonIsLanded
<1> QED
  BY <1>6, <1>7, <1>8 DEF SettledInv, ReportsAreTrue, LandedIsSettled

\* The relay's own steps: it calls an auction landed on the engine's word.
LEMMA RelaySettled ==
    ASSUME PipelineInv, SettledInv, NEW h \in Hints, Relay(h)
    PROVE  SettledInv'
<1>0. [Next]_vars
  BY DEF Next
<1>1. /\ ResultsKept
      /\ \A g \in Hints : verdict'[g].status = "landed" => verdict'[g] = verdict[g]
  <2>1. results' = results
    BY DEF Relay, CloseAuction, FallbackSwap, SkipCandidate, SubmitBundle,
       SendBundleReturns, SendBundleThrows, ResultTimeout, PersistAuction, engine
  <2>2. ResultsKept
    BY <2>1, SameResults DEF PipelineInv, TypeOK, Reports
  <2>3. \/ verdict' = verdict
        \/ \E v : v.status # "landed" /\ Conclude(h, v)
    BY DEF Relay, CloseAuction, FallbackSwap, SkipCandidate, NextCandidate, SubmitBundle,
       SendBundleReturns, SendBundleThrows, ResultTimeout, AfterTimeout, PersistAuction,
       Verdict
  <2>4. \A g \in Hints : verdict'[g].status = "landed" => verdict'[g] = verdict[g]
    BY <2>3 DEF Conclude, PipelineInv, TypeOK
  <2> QED
    BY <2>2, <2>4
<1>2. \A b \in Bundles : bundle'[b] \in Settled <=> bundle[b] \in Settled
  <2>1. CASE SubmitBundle(h)
    <3>1. bundle[<<h, attempt[h]>>] = "unsent"
      BY <2>1 DEF SubmitBundle, PipelineInv, InOrderSent
    <3>2. \A b \in Bundles :
            \/ bundle'[b] = bundle[b]
            \/ b = <<h, attempt[h]>> /\ bundle'[b] = "sent"
      BY <2>1 DEF SubmitBundle, PipelineInv, TypeOK
    <3> QED
      BY <3>1, <3>2 DEF Settled
  <2>2. CASE ~SubmitBundle(h)
    BY <2>2 DEF Relay, CloseAuction, FallbackSwap, SkipCandidate, SendBundleReturns,
       SendBundleThrows, ResultTimeout, PersistAuction, engine
  <2> QED
    BY <2>1, <2>2
<1>3. \A g \in Hints : rows'[g].status = "won" =>
            \/ rows'[g] = rows[g]
            \/ verdict[g].status = "landed" /\ rows'[g].winner = verdict[g].winner
  <2>1. CASE rows' = rows
    BY <2>1
  <2>2. CASE rows' = [rows EXCEPT ![h] =
                [status |-> AuctionStatus(verdict[h].status, Len(bids[h])),
                 winner |-> verdict[h].winner]]
    <3>1. AuctionStatus(verdict[h].status, Len(bids[h])) = "won" =>
            verdict[h].status = "landed"
      BY DEF AuctionStatus
    <3>2. \A g \in Hints :
            \/ rows'[g] = rows[g]
            \/ /\ g = h
               /\ rows'[g].status = AuctionStatus(verdict[h].status, Len(bids[h]))
               /\ rows'[g].winner = verdict[h].winner
      BY <2>2 DEF PipelineInv, TypeOK
    <3> QED
      BY <3>1, <3>2
  <2> QED
    BY <2>1, <2>2
    DEF Relay, CloseAuction, FallbackSwap, SkipCandidate, SubmitBundle, SendBundleReturns,
        SendBundleThrows, ResultTimeout, PersistAuction
<1> QED
  BY <1>0, <1>1, <1>2, <1>3, WinnerIsBundle, QuietSettled

\* A result "landed" was published for a settled bundle.
LEMMA HandleBundleResultSettled ==
    ASSUME PipelineInv, SettledInv, HandleBundleResult
    PROVE  SettledInv'
<1> DEFINE r == Head(results)
           b == r.bundle
<1>0. [Next]_vars
  BY DEF Next
<1>1. r \in Reports /\ 1 \in DOMAIN results /\ results[1] = r
  <2>1. results \in Seq(Reports) /\ results # <<>>
    BY DEF HandleBundleResult, PipelineInv, TypeOK, Reports
  <2> QED
    BY <2>1
<1>2. ResultsKept
  BY TailKeepsResults DEF HandleBundleResult, PipelineInv, TypeOK, Reports
<1>3. UNCHANGED <<bundle, rows>>
  BY DEF HandleBundleResult, relay
<1> HIDE DEF r
<1>4. ASSUME NEW h \in Hints, verdict'[h].status = "landed", verdict'[h] # verdict[h]
      PROVE  bundle[<<h, verdict'[h].winner>>] \in Settled
  <2>1. /\ b \in resolvers /\ Outcome(r.state) = "landed"
        /\ Conclude(b[1], Verdict("landed", b[2]))
    <3>1. CASE UNCHANGED verdict
      BY <1>4, <3>1
    <3>2. CASE verdict' = [verdict EXCEPT ![b[1]] = Verdict("no_valid_winner", 0)]
      <4>1. verdict'[h] = verdict[h] \/ verdict'[h] = Verdict("no_valid_winner", 0)
        BY <3>2 DEF PipelineInv, TypeOK
      <4> QED
        BY <1>4, <4>1 DEF Verdict
    <3> QED
      BY <3>1, <3>2 DEF HandleBundleResult, relay, NextCandidate, Conclude, r
  <2>2. b \in Bundles /\ b[1] \in Hints /\ b = <<b[1], b[2]>>
    BY <1>1, BundleIsPair DEF Reports
  <2>3. h = b[1] /\ verdict'[h].winner = b[2]
    BY <1>4, <2>1, <2>2 DEF Conclude, Verdict, PipelineInv, TypeOK
  <2>4. r.state \in Settled
    BY <2>1 DEF Outcome, Settled
  <2> QED
    BY <1>1, <2>2, <2>3, <2>4 DEF SettledInv, ReportsAreTrue
<1> QED
  BY <1>0, <1>2, <1>3, <1>4, WinnerIsBundle, QuietSettled

LEMMA SettledInvNext ==
    ASSUME ~Forks, PipelineInv, SettledInv, [Next]_vars
    PROVE  SettledInv'
<1>1. ASSUME NEW h \in Hints, Relay(h) PROVE SettledInv'
  BY <1>1, RelaySettled
<1>2. CASE HandleBundleResult
  BY <1>2, HandleBundleResultSettled
<1>3. ASSUME NEW b \in Bundles, Engine(b) PROVE SettledInv'
  BY <1>3, EngineSettled
<1>4. CASE \/ Restart \/ LoseResult \/ UNCHANGED vars
           \/ \E s \in Searchers : WithdrawEscrow(s)
  <2>1. UNCHANGED <<bundle, verdict, rows>>
    BY <1>4 DEF Restart, LoseResult, WithdrawEscrow, vars, relay, engine
  <2>2. ResultsKept
    <3>1. results \in Seq(Reports)
      BY DEF PipelineInv, TypeOK, Reports
    <3>2. CASE results' = results
      BY <3>1, <3>2, SameResults
    <3>3. CASE results' = Tail(results) /\ results # <<>>
      BY <3>1, <3>3, TailKeepsResults
    <3>4. CASE results' = <<>>
      BY <3>4 DEF ResultsKept
    <3> QED
      BY <1>4, <3>2, <3>3, <3>4 DEF Restart, LoseResult, WithdrawEscrow, vars, engine
  <2> QED
    BY <2>1, <2>2, WinnerIsBundle, QuietSettled
<1> QED
  BY <1>1, <1>2, <1>3, <1>4 DEF Next

LEMMA SettledInvInit == Init => SettledInv
  BY DEF Init, SettledInv, ReportsAreTrue, LandedIsSettled, WonIsLanded, NoVerdict, NoRow

LEMMA SettledInvariance ==
    ASSUME ~Forks
    PROVE  Spec => [](PipelineInv /\ SettledInv)
<1>1. PipelineInv /\ SettledInv /\ [Next]_vars => SettledInv'
  BY SettledInvNext
<1> QED
  BY <1>1, SettledInvInit, PipelineInvariance, PTL DEF Spec

LEMMA WonIsSettled == PipelineInv /\ SettledIsHonoured /\ SettledInv => WonMeansSettled
<1> SUFFICES ASSUME PipelineInv, SettledIsHonoured, SettledInv, NEW h \in Hints, rows[h].status = "won"
             PROVE  /\ rows[h].winner \in Candidates(h)
                    /\ Commitment(<<h, rows[h].winner>>) \in honoured
  BY DEF WonMeansSettled
<1>1. /\ verdict[h].status = "landed" /\ rows[h].winner = verdict[h].winner
      /\ bundle[<<h, verdict[h].winner>>] \in Settled
  BY DEF SettledInv, LandedIsSettled, WonIsLanded
<1>2. Judged(h) /\ InHand(h)
  BY DEF PipelineInv
<1>3. verdict[h].winner = attempt[h] /\ attempt[h] >= 1
  BY <1>1, <1>2 DEF Judged
<1>4. attempt[h] \in Attempts /\ <<h, attempt[h]>> \in Bundles
  BY <1>3, InHandTypes
<1> QED
  BY <1>1, <1>2, <1>3, <1>4 DEF InHand, Candidates, SettledIsHonoured

\* A row "won" names a bid the chain collected, unless a block that was reported
\* processed is abandoned (handleBundleResult takes "processed" for landed).
THEOREM WonMeansSettledAlways ==
    ASSUME ~Forks
    PROVE  Spec => []WonMeansSettled
  BY SettledInvariance, HonouredInvariance, WonIsSettled, PTL

----------------------------------------------------------------------------
(* From the settlement to the user *)

\* No user has two auctions, so that a bundle's key tells whose it is.
OneAuctionPerUser == \A g, h \in Hints : UserOf[g] = UserOf[h] => g = h

\* The registry holds entries of bundles that were submitted.
RegisteredInv ==
    \A k \in Keys : pending[k] # NoHint =>
        \E b \in Bundles :
            pending[k] = b[1] /\ k = Key(Event(b)) /\ bundle[b] # "unsent"

\* The stream carries settlements that are on the chain for good.
StreamInv ==
    \A i \in DOMAIN stream :
        \E b \in Bundles : stream[i] = Event(b) /\ bundle[b] = "finalized"

\* What is told and stored is of the settlement's own auction; once it is told,
\* its entry is gone.
ToldInv ==
    /\ \A c \in Confirmations : \E b \in Bundles :
        /\ c = [hint |-> b[1], signature |-> b]
        /\ bundle[b] = "finalized" /\ pending[Key(Event(b))] = NoHint
    /\ ConfirmedOnce

StoredInv ==
    /\ ~Idle => current.hint \in {NoHint, current.signature[1]}
    /\ \A r \in history : r.auction \in {NoHint, r.signature[1]}
    /\ \A q, r \in history : q.signature = r.signature => q = r

DeliveryInv ==
    DTypeOK /\ RegisteredInv /\ StreamInv /\ ToldInv /\ StoredInv

\* The user hears of an auction what its verdict allows.
EventsInv ==
    \A h \in Hints :
        /\ pc[h] \in Undecided => events[h] \subseteq {"bundle_submitted"}
        /\ pc[h] \in {"open", "fallback"} => events[h] = {}
        /\ "fallback_executed" \in events[h] =>
            events[h] = {"fallback_executed"} /\ verdict[h].status = "fallback"

\* The delivery path adds to the pipeline's steps and takes none away.
LEMMA DeliveryStep == [DNext]_allVars => [Next]_vars
<1> SUFFICES ASSUME [DNext]_allVars PROVE [Next]_vars
  OBVIOUS
<1>1. CASE PipelineStep
  BY <1>1 DEF PipelineStep, Next, Relay, Engine
<1>2. ASSUME NEW h \in Hints, RegisterAndSubmit(h) PROVE [Next]_vars
  BY <1>2 DEF RegisterAndSubmit, Next, Relay
<1>3. ASSUME NEW b \in Bundles, ConfirmOnChain(b) \/ RepeatOnChain(b) PROVE [Next]_vars
  BY <1>3 DEF ConfirmOnChain, RepeatOnChain, Next, Engine
<1>4. CASE RestartRelay
  BY <1>4 DEF RestartRelay, Next
<1>5. CASE StreamDown \/ Indexer \/ \E k \in Keys : ExpirePending(k)
  BY <1>5 DEF StreamDown, Indexer, TakePending, ResolveAuctionId, StoreCashbackEvent,
     Resubscribe, ExpirePending
<1>6. CASE UNCHANGED allVars
  BY <1>6 DEF allVars
<1> QED
  BY <1>1, <1>2, <1>3, <1>4, <1>5, <1>6 DEF DNext

\* What was proved of the pipeline holds of it beside the indexer, whose every
\* step it sees as one of its own or none.
THEOREM DeliveryRunsThePipeline == DSpec => Spec
<1>1. DInit => Init
  BY DEF DInit
<1> QED
  BY <1>1, DeliveryStep, PTL DEF DSpec, Spec

\* A bundle that was sent stays sent, one that was finalized stays so, and the
\* event of its settlement stays the same.
LEMMA SettlementStands ==
    ASSUME PipelineInv, [Next]_vars, NEW b \in Bundles, bundle[b] # "unsent"
    PROVE  /\ bundle'[b] # "unsent"
           /\ bundle[b] = "finalized" => bundle'[b] = "finalized"
           /\ Event(b)' = Event(b)
<1>1. Event(b)' = Event(b)
  BY CommitmentStands DEF Event
<1>2. CASE bundle' = bundle
  BY <1>1, <1>2
<1>3. ASSUME NEW h \in Hints, SubmitBundle(h)
      PROVE  bundle'[b] = bundle[b]
  <2>1. bundle[<<h, attempt[h]>>] = "unsent"
    BY <1>3 DEF SubmitBundle, PipelineInv, InOrderSent
  <2> QED
    BY <1>3, <2>1 DEF SubmitBundle, PipelineInv, TypeOK
<1>4. ASSUME NEW c \in Bundles, Engine(c)
      PROVE  /\ bundle'[b] # "unsent"
             /\ bundle[b] = "finalized" => bundle'[b] = "finalized"
  BY <1>4 DEF Engine, AcceptBundle, RefuseBundle, LandBundle, FinalizeBundle, AbandonFork,
     Publish, PipelineInv, TypeOK
<1>5. CASE \/ HandleBundleResult \/ Restart \/ LoseResult \/ UNCHANGED vars
           \/ \E s \in Searchers : WithdrawEscrow(s)
  BY <1>2, <1>5 DEF HandleBundleResult, Restart, LoseResult, WithdrawEscrow, vars, engine
<1>6. ASSUME NEW h \in Hints, Relay(h), ~SubmitBundle(h)
      PROVE  bundle' = bundle
  BY <1>6 DEF Relay, CloseAuction, FallbackSwap, SkipCandidate, SendBundleReturns,
      SendBundleThrows, ResultTimeout, PersistAuction, engine
<1> QED
  BY <1>1, <1>2, <1>3, <1>4, <1>5, <1>6 DEF Next

\* The key of a candidate's bundle is one the registry may hold.
LEMMA CandidateEvent ==
    ASSUME PipelineInv, NEW b \in Bundles, b[2] \in 1..Len(bids[b[1]])
    PROVE  /\ Event(b) \in [user : Users, searcher : Searchers, bid : Bids,
                            signature : Bundles]
           /\ Key(Event(b)) \in Keys
           /\ Event(b).signature = b /\ Event(b).user = UserOf[b[1]]
<1>1. b[1] \in Hints /\ bids[b[1]] \in Seq(BidRecords)
  BY BundleIsPair, InHandTypes
<1>2. bids[b[1]][b[2]] \in BidRecords
  BY <1>1
<1>3. /\ Commitment(b).searcher \in Searchers /\ Commitment(b).bid \in Bids
      /\ UserOf[b[1]] \in Users
  BY <1>1, <1>2 DEF Commitment, BidRecords, Users
<1> QED
  BY <1>3 DEF Event, Key, Keys

LEMMA EventTypes ==
    ASSUME PipelineInv, NEW b \in Bundles, bundle[b] # "unsent"
    PROVE  /\ Event(b) \in [user : Users, searcher : Searchers, bid : Bids,
                            signature : Bundles]
           /\ Key(Event(b)) \in Keys
           /\ Event(b).signature = b /\ Event(b).user = UserOf[b[1]]
  BY SentIsCandidate, CandidateEvent

\* The parts of the invariant that a step leaves alone or only empties.
LEMMA RegisteredKept ==
    ASSUME PipelineInv, RegisteredInv, [Next]_vars,
           \A k \in Keys : pending'[k] \in {pending[k], NoHint}
    PROVE  RegisteredInv'
<1> SUFFICES ASSUME NEW k \in Keys, pending'[k] # NoHint
             PROVE  \E b \in Bundles : /\ pending'[k] = b[1] /\ k = Key(Event(b)')
                                       /\ bundle'[b] # "unsent"
  BY DEF RegisteredInv, Key
<1>1. PICK b \in Bundles : pending[k] = b[1] /\ k = Key(Event(b)) /\ bundle[b] # "unsent"
  BY DEF RegisteredInv
<1> QED
  BY <1>1, SettlementStands

LEMMA StreamKept ==
    ASSUME PipelineInv, StreamInv, [Next]_vars,
           \A i \in DOMAIN stream' :
                \/ \E j \in DOMAIN stream : stream'[i] = stream[j]
                \/ \E b \in Bundles :
                    /\ bundle[b] # "unsent" /\ bundle'[b] = "finalized"
                    /\ stream'[i] = Event(b)
    PROVE  StreamInv'
<1> SUFFICES ASSUME NEW i \in DOMAIN stream'
             PROVE  \E b \in Bundles : stream'[i] = Event(b)' /\ bundle'[b] = "finalized"
  BY DEF StreamInv
<1>1. PICK b \in Bundles :
        /\ bundle[b] # "unsent" /\ stream'[i] = Event(b)
        /\ bundle[b] = "finalized" \/ bundle'[b] = "finalized"
  BY DEF StreamInv
<1> QED
  BY <1>1, SettlementStands

LEMMA ToldKept ==
    ASSUME PipelineInv, ToldInv, [Next]_vars, confirmed' = confirmed,
           \A k \in Keys : pending[k] = NoHint =>
                \/ pending'[k] = NoHint
                \/ \A b \in Bundles : bundle[b] = "finalized" => k # Key(Event(b))
    PROVE  ToldInv'
<1>1. Confirmations' = Confirmations /\ ConfirmedOnce'
  BY DEF ToldInv, Confirmations, ConfirmedOnce
<1> SUFFICES ASSUME NEW c \in Confirmations
             PROVE  \E b \in Bundles :
                        /\ c = [hint |-> b[1], signature |-> b]
                        /\ bundle'[b] = "finalized" /\ pending'[Key(Event(b)')] = NoHint
  BY <1>1 DEF ToldInv, Key
<1>2. PICK b \in Bundles :
        /\ c = [hint |-> b[1], signature |-> b]
        /\ bundle[b] = "finalized" /\ pending[Key(Event(b))] = NoHint
  BY DEF ToldInv
<1>3. Key(Event(b)) \in Keys
  BY <1>2, EventTypes
<1>4. pending'[Key(Event(b))] = NoHint
  BY <1>2, <1>3
<1> QED
  BY <1>2, <1>4, SettlementStands

\* Steps of the pipeline that the delivery path does not notice.
LEMMA PipelineStepKeepsDelivery ==
    ASSUME PipelineInv, DeliveryInv, [Next]_vars, UNCHANGED delivery
    PROVE  DeliveryInv'
<1>1. DTypeOK'
  BY DEF DeliveryInv, DTypeOK, delivery, Idle
<1>2. RegisteredInv'
  BY RegisteredKept DEF DeliveryInv, delivery
<1>3. StreamInv'
  BY StreamKept DEF DeliveryInv, delivery
<1>4. ToldInv'
  BY ToldKept DEF DeliveryInv, delivery
<1>5. StoredInv'
  BY DEF DeliveryInv, StoredInv, delivery, Idle
<1> QED
  BY <1>1, <1>2, <1>3, <1>4, <1>5 DEF DeliveryInv

\* An entry is registered before its bundle can be confirmed.
LEMMA RegisterAndSubmitKeeps ==
    ASSUME OneAuctionPerUser, PipelineInv, DeliveryInv,
           NEW h \in Hints, RegisterAndSubmit(h)
    PROVE  DeliveryInv'
<1>1. [Next]_vars
  BY DEF RegisterAndSubmit, Next, Relay
<1>2. /\ SubmitBundle(h) /\ pending' = Registered(<<h, attempt[h]>>)
      /\ UNCHANGED <<streaming, stream, current, confirmed, history, repeats, calm>>
  BY DEF RegisterAndSubmit
<1>3. PICK b \in Bundles :
        b = <<h, attempt[h]>> /\ b[1] = h /\ b[2] \in 1..Len(bids[h])
  <2>1. pc[h] = "building" /\ attempt[h] >= 1 /\ attempt[h] <= Len(bids[h])
    BY <1>2 DEF SubmitBundle, PipelineInv, InHand
  <2>2. /\ attempt[h] \in Nat /\ Len(bids[h]) \in Nat
        /\ <<h, attempt[h]>> \in Bundles
    BY <2>1, InHandTypes
  <2>3. attempt[h] \in 1..Len(bids[h])
    BY <2>1, <2>2
  <2> QED
    BY <2>2, <2>3
<1>4. pc[h] = "building" /\ bids' = bids /\ bundle'[b] = "sent"
  BY <1>2, <1>3 DEF SubmitBundle, PipelineInv, TypeOK
<1>5. PICK k \in Keys : k = Key(Event(b))
  BY <1>3, CandidateEvent
<1>12. Event(b).user = UserOf[h] /\ Event(b)' = Event(b)
  BY <1>3, <1>4, CandidateEvent DEF Event, Commitment
<1>6. /\ pending'[k] = h /\ \A l \in Keys : l # k => pending'[l] = pending[l]
      /\ pending' \in [Keys -> Hints \cup {NoHint}]
  BY <1>2, <1>3, <1>5 DEF DeliveryInv, DTypeOK, Registered
<1>7. DTypeOK'
  BY <1>2, <1>6 DEF DeliveryInv, DTypeOK, Idle
<1>8. RegisteredInv'
  <2> SUFFICES ASSUME NEW l \in Keys, pending'[l] # NoHint
               PROVE  \E c \in Bundles : /\ pending'[l] = c[1] /\ l = Key(Event(c)')
                                         /\ bundle'[c] # "unsent"
    BY DEF RegisteredInv, Key
  <2>1. CASE l = k
    BY <1>3, <1>4, <1>5, <1>6, <1>12, <2>1
  <2>2. CASE l # k
    <3>1. PICK c \in Bundles :
            pending[l] = c[1] /\ l = Key(Event(c)) /\ bundle[c] # "unsent"
      BY <1>6, <2>2 DEF DeliveryInv, RegisteredInv
    <3> QED
      BY <1>1, <1>6, <2>2, <3>1, SettlementStands
  <2> QED
    BY <2>1, <2>2
<1>9. StreamInv'
  BY <1>1, <1>2, StreamKept DEF DeliveryInv
<1>10. ToldInv'
  <2>1. ASSUME NEW c \in Bundles, bundle[c] = "finalized"
        PROVE  k # Key(Event(c))
    <3>1. c[1] \in Hints /\ pc[c[1]] # "building"
      BY <2>1, BundleIsPair, OneSettled DEF Settled
    <3>2. Event(c).user = UserOf[c[1]]
      BY <2>1, EventTypes
    <3>3. UserOf[c[1]] # UserOf[h]
      BY <1>4, <3>1 DEF OneAuctionPerUser
    <3> QED
      BY <1>5, <1>12, <3>2, <3>3 DEF Key
  <2> QED
    BY <1>1, <1>2, <1>6, <2>1, ToldKept DEF DeliveryInv
<1>11. StoredInv'
  BY <1>2 DEF DeliveryInv, StoredInv, Idle
<1> QED
  BY <1>7, <1>8, <1>9, <1>10, <1>11 DEF DeliveryInv

\* What the subscription sends is final.
LEMMA ConfirmKeeps ==
    ASSUME PipelineInv, DeliveryInv, NEW b \in Bundles, ConfirmOnChain(b) \/ RepeatOnChain(b)
    PROVE  DeliveryInv'
<1>1. [Next]_vars
  BY DEF ConfirmOnChain, RepeatOnChain, Next, Engine
<1>2. bundle[b] # "unsent" /\ bundle'[b] = "finalized"
  BY DEF ConfirmOnChain, RepeatOnChain, FinalizeBundle, Publish, vars, engine,
     PipelineInv, TypeOK
<1>3. /\ UNCHANGED <<pending, streaming, current, confirmed, history, calm>>
      /\ stream' = stream \/ stream' = Append(stream, Event(b))
      /\ repeats' \in 0..MaxRepeats
  BY DeliveryAssumption DEF ConfirmOnChain, RepeatOnChain, DeliveryInv, DTypeOK
<1> DEFINE Updates == [user : Users, searcher : Searchers, bid : Bids, signature : Bundles]
<1>4. Event(b) \in Updates
  BY <1>2, EventTypes
<1>5. stream \in Seq(Updates)
  BY DEF DeliveryInv, DTypeOK
<1> HIDE DEF Updates
<1>6. /\ stream' \in Seq(Updates)
      /\ \A i \in DOMAIN stream' :
            \/ \E j \in DOMAIN stream : stream'[i] = stream[j]
            \/ stream'[i] = Event(b)
  BY <1>3, <1>4, <1>5
<1>7. DTypeOK'
  BY <1>3, <1>6 DEF DeliveryInv, DTypeOK, Idle, Updates
<1>8. RegisteredInv'
  BY <1>1, <1>3, RegisteredKept DEF DeliveryInv
<1>9. StreamInv'
  BY <1>1, <1>2, <1>6, StreamKept DEF DeliveryInv
<1>10. ToldInv'
  BY <1>1, <1>3, ToldKept DEF DeliveryInv
<1>11. StoredInv'
  BY <1>3 DEF DeliveryInv, StoredInv, Idle
<1> QED
  BY <1>7, <1>8, <1>9, <1>10, <1>11 DEF DeliveryInv

\* The subscription comes and goes, entries expire, the process restarts.
LEMMA FaultsKeep ==
    ASSUME PipelineInv, DeliveryInv,
           \/ StreamDown \/ Resubscribe \/ RestartRelay
           \/ \E k \in Keys : ExpirePending(k)
    PROVE  DeliveryInv'
<1>1. [Next]_vars
  BY DEF StreamDown, Resubscribe, RestartRelay, ExpirePending, Next
<1>2. /\ confirmed' = confirmed /\ history' = history /\ repeats' = repeats /\ calm' = calm
      /\ streaming' \in BOOLEAN
      /\ pending' \in [Keys -> Hints \cup {NoHint}]
      /\ \A k \in Keys : pending'[k] \in {pending[k], NoHint}
      /\ stream' = stream \/ stream' = <<>>
      /\ current' = current \/ current' = NoEvent
  BY DEF StreamDown, Resubscribe, RestartRelay, ExpirePending, DeliveryInv, DTypeOK
<1>3. DTypeOK'
  <2> DEFINE Updates == [user : Users, searcher : Searchers, bid : Bids, signature : Bundles]
  <2>1. stream \in Seq(Updates)
    BY DEF DeliveryInv, DTypeOK
  <2> HIDE DEF Updates
  <2>2. stream' \in Seq(Updates)
    <3>1. CASE stream' = stream
      BY <2>1, <3>1
    <3>2. CASE stream' = <<>>
      BY <3>2, EmptySeq
    <3> QED
      BY <1>2, <3>1, <3>2
  <2> QED
    BY <1>2, <2>2 DEF DeliveryInv, DTypeOK, Idle, Updates
<1>4. RegisteredInv'
  BY <1>1, <1>2, RegisteredKept DEF DeliveryInv
<1>5. StreamInv'
  BY <1>1, <1>2, StreamKept DEF DeliveryInv
<1>6. ToldInv'
  BY <1>1, <1>2, ToldKept DEF DeliveryInv
<1>7. StoredInv'
  BY <1>2 DEF DeliveryInv, StoredInv, Idle
<1> QED
  BY <1>3, <1>4, <1>5, <1>6, <1>7 DEF DeliveryInv

\* The indexer takes the entry of the settlement it was told of.
LEMMA TakePendingKeeps ==
    ASSUME OneAuctionPerUser, PipelineInv, DeliveryInv, TakePending
    PROVE  DeliveryInv'
<1>1. [Next]_vars
  BY DEF TakePending
<1> DEFINE Updates == [user : Users, searcher : Searchers, bid : Bids, signature : Bundles]
<1>2. stream \in Seq(Updates) /\ stream # <<>> /\ stream' = Tail(stream)
  BY DEF TakePending, DeliveryInv, DTypeOK
<1> HIDE DEF Updates
<1>3. /\ 1 \in DOMAIN stream /\ Head(stream) = stream[1] /\ stream' \in Seq(Updates)
      /\ \A i \in DOMAIN stream' : i + 1 \in DOMAIN stream /\ stream'[i] = stream[i + 1]
  BY <1>2
<1>4. PICK b \in Bundles : Head(stream) = Event(b) /\ bundle[b] = "finalized"
  BY <1>3 DEF DeliveryInv, StreamInv
<1>5. PICK k \in Keys : k = Key(Event(b))
  BY <1>4, EventTypes
<1>6. PICK hint \in Hints \cup {NoHint} : hint = pending[k]
  BY DEF DeliveryInv, DTypeOK
<1>7. /\ pending' = [pending EXCEPT ![k] = NoHint]
      /\ confirmed' = IF hint = NoHint THEN confirmed
                      ELSE Append(confirmed, [hint |-> hint, signature |-> b])
      /\ current' = [phase |-> "resolving", signature |-> b, hint |-> hint]
      /\ UNCHANGED <<vars, streaming, history, repeats, calm>>
  <2>1. Head(stream).signature = b
    BY <1>4, EventTypes
  <2> QED
    BY <1>4, <1>5, <1>6, <2>1 DEF TakePending, Taken
<1>8. hint # NoHint => hint = b[1]
  <2> SUFFICES ASSUME hint # NoHint PROVE hint = b[1]
    OBVIOUS
  <2>1. PICK c \in Bundles : hint = c[1] /\ k = Key(Event(c)) /\ bundle[c] # "unsent"
    BY <1>6 DEF DeliveryInv, RegisteredInv
  <2>2. Event(b).user = UserOf[b[1]] /\ Event(c).user = UserOf[c[1]]
    BY <1>4, <2>1, EventTypes
  <2>3. UserOf[b[1]] = UserOf[c[1]]
    BY <1>5, <2>1, <2>2 DEF Key
  <2> QED
    BY <2>1, <2>3, BundleIsPair DEF OneAuctionPerUser
<1>9. /\ pending' \in [Keys -> Hints \cup {NoHint}] /\ pending'[k] = NoHint
      /\ \A l \in Keys : pending'[l] \in {pending[l], NoHint}
  BY <1>7 DEF DeliveryInv, DTypeOK
<1>10. DTypeOK'
  <2> DEFINE Notices == [hint : Hints, signature : Bundles]
              n == [hint |-> hint, signature |-> b]
  <2>1. confirmed' \in Seq(Notices)
    <3>1. confirmed \in Seq(Notices)
      BY DEF DeliveryInv, DTypeOK
    <3>2. hint # NoHint => n \in Notices
      BY <1>6
    <3>3. confirmed' = confirmed \/ (hint # NoHint /\ confirmed' = Append(confirmed, n))
      BY <1>7
    <3> HIDE DEF Notices, n
    <3>4. CASE confirmed' = confirmed
      BY <3>1, <3>4
    <3>5. CASE hint # NoHint /\ confirmed' = Append(confirmed, n)
      BY <3>1, <3>2, <3>5, AppendProperties
    <3> QED
      BY <3>3, <3>4, <3>5
  <2>2. current' \in [phase : {"resolving", "inserting"}, signature : Bundles,
                      hint : Hints \cup {NoHint}]
    BY <1>7
  <2>3. stream' \in Seq([user : Users, searcher : Searchers, bid : Bids, signature : Bundles])
    BY <1>3 DEF Updates
  <2> QED
    BY <1>7, <1>9, <2>1, <2>2, <2>3 DEF DeliveryInv, DTypeOK
<1>11. RegisteredInv'
  BY <1>1, <1>9, RegisteredKept DEF DeliveryInv
<1>12. StreamInv'
  <2>1. \A i \in DOMAIN stream' : \E j \in DOMAIN stream : stream'[i] = stream[j]
    BY <1>3
  <2> QED
    BY <1>1, <2>1, StreamKept DEF DeliveryInv
<1>13. ToldInv'
  <2>1. CASE hint = NoHint
    BY <1>1, <1>7, <1>9, <2>1, ToldKept DEF DeliveryInv
  <2>2. CASE hint # NoHint
    <3> DEFINE n == [hint |-> b[1], signature |-> b]
    <3>1. confirmed \in Seq([hint : Hints, signature : Bundles])
      BY DEF DeliveryInv, DTypeOK
    <3>2. /\ confirmed' = Append(confirmed, n) /\ DOMAIN confirmed' = 1..(Len(confirmed) + 1)
          /\ DOMAIN confirmed = 1..Len(confirmed) /\ Len(confirmed) \in Nat
          /\ confirmed'[Len(confirmed) + 1] = n
          /\ \A i \in DOMAIN confirmed : confirmed'[i] = confirmed[i]
      BY <1>7, <1>8, <2>2, <3>1
    <3>3. \A c \in Confirmations : c.signature # b
      <4> SUFFICES ASSUME NEW c \in Confirmations, c.signature = b PROVE FALSE
        OBVIOUS
      <4>1. PICK d \in Bundles :
              c = [hint |-> d[1], signature |-> d] /\ pending[Key(Event(d))] = NoHint
        BY DEF DeliveryInv, ToldInv
      <4> QED
        BY <1>5, <1>6, <2>2, <4>1
    <3>4. ConfirmedOnce'
      <4> SUFFICES ASSUME NEW i \in DOMAIN confirmed', NEW j \in DOMAIN confirmed',
                          confirmed'[i].signature = confirmed'[j].signature
                   PROVE  i = j
        BY DEF ConfirmedOnce
      <4>1. ConfirmedOnce
        BY DEF DeliveryInv, ToldInv
      <4>2. \A m \in DOMAIN confirmed : confirmed[m].signature # b
        BY <3>3 DEF Confirmations
      <4>3. n.signature = b
        OBVIOUS
      <4> HIDE DEF n
      <4>4. CASE i \in DOMAIN confirmed /\ j \in DOMAIN confirmed
        BY <3>2, <4>1, <4>4 DEF ConfirmedOnce
      <4>5. CASE i = Len(confirmed) + 1 /\ j \in DOMAIN confirmed
        BY <3>2, <4>2, <4>3, <4>5
      <4>6. CASE i \in DOMAIN confirmed /\ j = Len(confirmed) + 1
        BY <3>2, <4>2, <4>3, <4>6
      <4> QED
        BY <3>2, <4>4, <4>5, <4>6
    <3>5. Confirmations' \subseteq Confirmations \cup {n}
      BY <3>2 DEF Confirmations
    <3>6. ASSUME NEW c \in Confirmations'
          PROVE  \E d \in Bundles :
                    /\ c = [hint |-> d[1], signature |-> d]
                    /\ bundle'[d] = "finalized" /\ pending'[Key(Event(d)')] = NoHint
      <4>1. CASE c = n
        BY <1>1, <1>4, <1>5, <1>9, <4>1, SettlementStands
      <4>2. CASE c \in Confirmations
        <5>1. PICK d \in Bundles :
                /\ c = [hint |-> d[1], signature |-> d]
                /\ bundle[d] = "finalized" /\ pending[Key(Event(d))] = NoHint
          BY <4>2 DEF DeliveryInv, ToldInv
        <5>2. Key(Event(d)) \in Keys
          BY <5>1, EventTypes
        <5> QED
          BY <1>1, <1>9, <5>1, <5>2, SettlementStands
      <4> QED
        BY <3>5, <3>6, <4>1, <4>2
    <3> QED
      BY <3>4, <3>6 DEF ToldInv, Key
  <2> QED
    BY <2>1, <2>2
<1>14. StoredInv'
  <2>1. current'.hint \in {NoHint, current'.signature[1]}
    BY <1>7, <1>8
  <2> QED
    BY <1>7, <2>1 DEF DeliveryInv, StoredInv
<1> QED
  BY <1>10, <1>11, <1>12, <1>13, <1>14 DEF DeliveryInv

\* The row refers to the settlement's own auction, or to none.
LEMMA StoreKeeps ==
    ASSUME PipelineInv, DeliveryInv, ResolveAuctionId \/ StoreCashbackEvent
    PROVE  DeliveryInv'
<1>1. [Next]_vars
  BY DEF ResolveAuctionId, StoreCashbackEvent
<1>2. UNCHANGED <<pending, streaming, stream, confirmed, repeats, calm>>
  BY DEF ResolveAuctionId, StoreCashbackEvent
<1>3. /\ ~Idle /\ current.signature \in Bundles /\ current.hint \in Hints \cup {NoHint}
      /\ current.hint \in {NoHint, current.signature[1]}
  BY DEF ResolveAuctionId, StoreCashbackEvent, DeliveryInv, DTypeOK, StoredInv
<1>4. \/ Idle'
      \/ /\ current' \in [phase : {"resolving", "inserting"}, signature : Bundles,
                          hint : Hints \cup {NoHint}]
         /\ current'.hint \in {NoHint, current'.signature[1]}
  BY <1>3 DEF ResolveAuctionId, StoreCashbackEvent, AuctionIdOf, Idle
<1>5. \/ history' = history
      \/ /\ ~AlreadyStored(current.signature)
         /\ history' = history \cup {[signature |-> current.signature, auction |-> current.hint]}
  BY DEF ResolveAuctionId, StoreCashbackEvent
<1>6. history' \subseteq [signature : Bundles, auction : Hints \cup {NoHint}]
  BY <1>3, <1>5 DEF DeliveryInv, DTypeOK
<1>7. DTypeOK'
  BY <1>2, <1>4, <1>6 DEF DeliveryInv, DTypeOK
<1>8. StoredInv'
  <2>1. \A r \in history' : r.auction \in {NoHint, r.signature[1]}
    BY <1>3, <1>5 DEF DeliveryInv, StoredInv
  <2>2. \A q, r \in history' : q.signature = r.signature => q = r
    BY <1>5 DEF DeliveryInv, StoredInv, AlreadyStored
  <2> QED
    BY <1>4, <2>1, <2>2 DEF StoredInv
<1>9. RegisteredInv' /\ StreamInv' /\ ToldInv'
  BY <1>1, <1>2, RegisteredKept, StreamKept, ToldKept DEF DeliveryInv
<1> QED
  BY <1>7, <1>8, <1>9 DEF DeliveryInv

LEMMA DeliveryInvInit == DInit => DeliveryInv
<1> SUFFICES ASSUME DInit PROVE DeliveryInv
  OBVIOUS
<1>1. /\ pending = [k \in Keys |-> NoHint] /\ stream = <<>> /\ Idle /\ confirmed = <<>>
      /\ history = {} /\ repeats = 0 /\ streaming \in BOOLEAN /\ calm \in BOOLEAN
  BY DEF DInit, Idle
<1>2. DTypeOK
  <2>1. /\ stream \in Seq([user : Users, searcher : Searchers, bid : Bids,
                           signature : Bundles])
        /\ confirmed \in Seq([hint : Hints, signature : Bundles])
    BY <1>1, EmptySeq
  <2>2. repeats \in 0..MaxRepeats
    BY <1>1, DeliveryAssumption
  <2> QED
    BY <1>1, <2>1, <2>2 DEF DTypeOK
<1>3. RegisteredInv /\ StreamInv /\ StoredInv
  BY <1>1 DEF RegisteredInv, StreamInv, StoredInv
<1>4. ToldInv
  BY <1>1 DEF ToldInv, Confirmations, ConfirmedOnce
<1> QED
  BY <1>2, <1>3, <1>4 DEF DeliveryInv

LEMMA DeliveryInvNext ==
    ASSUME OneAuctionPerUser, PipelineInv, DeliveryInv, [DNext]_allVars
    PROVE  DeliveryInv'
<1>1. [Next]_vars
  BY DeliveryStep
<1>2. CASE PipelineStep \/ UNCHANGED allVars
  <2>1. UNCHANGED delivery
    BY <1>2 DEF PipelineStep, allVars
  <2> QED
    BY <1>1, <2>1, PipelineStepKeepsDelivery
<1>3. ASSUME NEW h \in Hints, RegisterAndSubmit(h) PROVE DeliveryInv'
  BY <1>3, RegisterAndSubmitKeeps
<1>4. ASSUME NEW b \in Bundles, ConfirmOnChain(b) \/ RepeatOnChain(b) PROVE DeliveryInv'
  BY <1>4, ConfirmKeeps
<1>5. CASE StreamDown \/ Resubscribe \/ RestartRelay \/ \E k \in Keys : ExpirePending(k)
  BY <1>5, FaultsKeep
<1>6. CASE TakePending
  BY <1>6, TakePendingKeeps
<1>7. CASE ResolveAuctionId \/ StoreCashbackEvent
  BY <1>7, StoreKeeps
<1> QED
  BY <1>2, <1>3, <1>4, <1>5, <1>6, <1>7 DEF DNext, Indexer

LEMMA DeliveryInvariance ==
    ASSUME OneAuctionPerUser
    PROVE  DSpec => [](PipelineInv /\ SettledIsHonoured /\ DeliveryInv)
<1>1. DSpec => [](PipelineInv /\ SettledIsHonoured)
  BY DeliveryRunsThePipeline, HonouredInvariance, PTL
<1>2. PipelineInv /\ DeliveryInv /\ [DNext]_allVars => DeliveryInv'
  BY DeliveryInvNext
<1> QED
  BY <1>1, <1>2, DeliveryInvInit, PTL DEF DSpec

\* No cashback is filed under another user's auction, and each settlement is
\* filed once (indexer/cashback.ts, the insert's onConflictDoNothing).
THEOREM HistoryIsOfItsAuctionAlways ==
    ASSUME OneAuctionPerUser
    PROVE  DSpec => []HistoryIsOfItsAuction
<1>1. DeliveryInv => HistoryIsOfItsAuction
  BY DEF DeliveryInv, StoredInv, HistoryIsOfItsAuction
<1> QED
  BY <1>1, DeliveryInvariance, PTL

\* However often the stream delivers a settlement, its user is told once
\* (services/pending-cashback.ts, take hands an entry out once).
THEOREM ConfirmedOnceAlways ==
    ASSUME OneAuctionPerUser
    PROVE  DSpec => []ConfirmedOnce
<1>1. DeliveryInv => ConfirmedOnce
  BY DEF DeliveryInv, ToldInv
<1> QED
  BY <1>1, DeliveryInvariance, PTL

\* A user told "cashback confirmed" has that auction's own settlement on the
\* chain, whatever forks, losses and restarts there are (handleEvent's
\* emitToUser).
THEOREM ConfirmedMeansSettledAlways ==
    ASSUME OneAuctionPerUser
    PROVE  DSpec => []ConfirmedMeansSettled
<1>1. SettledIsHonoured /\ DeliveryInv => ConfirmedMeansSettled
  <2> SUFFICES ASSUME SettledIsHonoured, DeliveryInv, NEW c \in Confirmations
               PROVE  c.hint = c.signature[1] /\ Commitment(c.signature) \in honoured
    BY DEF ConfirmedMeansSettled
  <2>1. PICK b \in Bundles : c = [hint |-> b[1], signature |-> b] /\ bundle[b] = "finalized"
    BY DEF DeliveryInv, ToldInv
  <2> QED
    BY <2>1 DEF SettledIsHonoured, Settled
<1> QED
  BY <1>1, DeliveryInvariance, PTL

----------------------------------------------------------------------------
(* What the user is told, and in which order *)

\* The relay tells the user of one auction one thing: that a bundle was
\* submitted or that the auction failed, while it is undecided, or that the
\* fallback ran, for an auction no bundle was ever sent for.
Tells(h, type) ==
    /\ events' = [events EXCEPT ![h] = @ \cup {type}]
    /\ \/ type \in {"bundle_submitted", "auction_failed"} /\ pc[h] \in Undecided
       \/ type = "fallback_executed" /\ pc[h] = "fallback"

RelayTells ==
    \/ events' = events
    \/ \E h \in Hints, type \in UserEvents!EventTypes : Tells(h, type)

\* An auction with its own events, verdict and stage untouched, or lost.
LEMMA EventsUntouched ==
    ASSUME EventsInv, events' = events,
           \A h \in Hints :
                /\ pc'[h] = pc[h] \/ pc'[h] \notin {"open", "fallback"}
                /\ pc'[h] \in Undecided => pc[h] \in Undecided
                /\ verdict'[h] = verdict[h] \/ pc[h] \in Undecided
    PROVE  EventsInv' /\ RelayTells
<1>1. RelayTells
  BY DEF RelayTells
<1>2. ASSUME NEW h \in Hints, "fallback_executed" \in events[h]
      PROVE  verdict'[h] = verdict[h]
  <2>1. pc[h] \notin Undecided
    BY <1>2 DEF EventsInv
  <2> QED
    BY <2>1
<1> QED
  BY <1>1, <1>2 DEF EventsInv

LEMMA ConcludeEvents ==
    ASSUME PipelineInv, EventsInv, NEW h \in Hints, NEW v,
           pc[h] \in Undecided, Conclude(h, v),
           v.status \in {"landed", "timeout", "no_valid_winner", "error", "fallback"},
           v.status = "fallback" => pc[h] = "fallback"
    PROVE  EventsInv' /\ RelayTells
<1>1. \A g \in Hints :
        /\ pc'[g] = IF g = h THEN "persisting" ELSE pc[g]
        /\ verdict'[g] = IF g = h THEN v ELSE verdict[g]
  BY DEF Conclude, PipelineInv, TypeOK
<1>2. CASE v.status = "landed"
  <2>1. events' = events
    BY <1>2 DEF Conclude, FinalEvents, PipelineInv, TypeOK
  <2> QED
    BY <1>1, <2>1, EventsUntouched DEF Undecided
<1>3. CASE v.status # "landed"
  <2>1. PICK type \in {"auction_failed", "fallback_executed"} :
          /\ FinalEvents(v.status) = {type}
          /\ type = "fallback_executed" => v.status = "fallback" /\ pc[h] = "fallback"
    BY <1>3 DEF FinalEvents
  <2>2. events' = [events EXCEPT ![h] = @ \cup {type}]
    BY <2>1 DEF Conclude
  <2>3. RelayTells
    BY <2>1, <2>2 DEF RelayTells, Tells, UserEvents!EventTypes
  <2>4. \A g \in Hints :
          events'[g] = IF g = h THEN events[h] \cup {type} ELSE events[g]
    BY <2>2 DEF PipelineInv, TypeOK
  <2>5. ASSUME NEW g \in Hints
        PROVE  /\ pc'[g] \in Undecided => events'[g] \subseteq {"bundle_submitted"}
               /\ pc'[g] \in {"open", "fallback"} => events'[g] = {}
               /\ "fallback_executed" \in events'[g] =>
                    events'[g] = {"fallback_executed"} /\ verdict'[g].status = "fallback"
    <3>1. CASE g # h
      BY <1>1, <2>4, <3>1 DEF EventsInv
    <3>2. CASE g = h
      <4>1. pc'[g] = "persisting" /\ verdict'[g] = v /\ events'[g] = events[h] \cup {type}
        BY <1>1, <2>4, <3>2
      <4>2. /\ events[h] \subseteq {"bundle_submitted"}
            /\ pc[h] = "fallback" => events[h] = {}
        BY DEF EventsInv
      <4> QED
        BY <2>1, <4>1, <4>2 DEF Undecided
    <3> QED
      BY <3>1, <3>2
  <2>6. EventsInv'
    BY <2>5 DEF EventsInv
  <2> QED
    BY <2>3, <2>6
<1> QED
  BY <1>2, <1>3

LEMMA VerdictEvents ==
    ASSUME PipelineInv, EventsInv, NEW h \in Hints, pc[h] \in Undecided,
           NEW status \in {"landed", "timeout", "no_valid_winner", "error", "fallback"},
           NEW winner \in Nat, Conclude(h, Verdict(status, winner)),
           status = "fallback" => pc[h] = "fallback"
    PROVE  EventsInv' /\ RelayTells
<1>1. PICK v : v = Verdict(status, winner) /\ v.status = status
  BY DEF Verdict
<1>2. Conclude(h, v)
  BY <1>1
<1> QED
  BY <1>1, <1>2, ConcludeEvents

LEMMA NextCandidateEvents ==
    ASSUME PipelineInv, EventsInv, NEW h \in Hints,
           pc[h] \in {"building", "waiting"}, NextCandidate(h)
    PROVE  EventsInv' /\ RelayTells
<1>1. CASE Conclude(h, Verdict("no_valid_winner", 0))
  <2>1. pc[h] \in Undecided
    BY DEF Undecided
  <2> QED
    BY <1>1, <2>1, VerdictEvents
<1>2. CASE pc' = [pc EXCEPT ![h] = "building"] /\ UNCHANGED <<verdict, told, events>>
  <2>1. \A g \in Hints :
          /\ pc'[g] = pc[g] \/ pc'[g] \notin {"open", "fallback"}
          /\ pc'[g] \in Undecided => pc[g] \in Undecided
    BY <1>2 DEF PipelineInv, TypeOK, Undecided
  <2> QED
    BY <1>2, <2>1, EventsUntouched
<1> QED
  BY <1>1, <1>2 DEF NextCandidate

LEMMA RelayEvents ==
    ASSUME PipelineInv, EventsInv, NEW h \in Hints, Relay(h)
    PROVE  EventsInv' /\ RelayTells
<1>1. CASE CloseAuction(h) \/ SubmitBundle(h) \/ PersistAuction(h)
  <2>1. events' = events /\ verdict' = verdict
    BY <1>1 DEF CloseAuction, SubmitBundle, PersistAuction
  <2>2. CASE pc[h] # "open" \/ pc' # [pc EXCEPT ![h] = "fallback"]
    <3>1. \A g \in Hints :
            \/ pc'[g] = pc[g]
            \/ g = h /\ pc[g] \in Undecided /\ pc'[g] \in {"building", "submitting"}
            \/ g = h /\ pc'[g] = "done"
      BY <1>1, <2>2
      DEF CloseAuction, SubmitBundle, PersistAuction, PipelineInv, TypeOK, Undecided
    <3> QED
      BY <2>1, <3>1, EventsUntouched DEF Undecided
  <2>3. CASE pc[h] = "open" /\ pc' = [pc EXCEPT ![h] = "fallback"]
    <3>1. \A g \in Hints : pc'[g] = IF g = h THEN "fallback" ELSE pc[g]
      BY <2>3 DEF PipelineInv, TypeOK
    <3>2. events[h] = {}
      BY <2>3 DEF EventsInv
    <3>3. EventsInv'
      BY <2>1, <3>1, <3>2 DEF EventsInv
    <3> QED
      BY <2>1, <3>3 DEF RelayTells
  <2> QED
    BY <2>2, <2>3
<1>2. CASE SendBundleReturns(h)
  <2>1. /\ pc[h] = "submitting" /\ verdict' = verdict
        /\ events' = [events EXCEPT ![h] = @ \cup {"bundle_submitted"}]
        /\ \A g \in Hints : pc'[g] = IF g = h THEN "waiting" ELSE pc[g]
    BY <1>2 DEF SendBundleReturns, PipelineInv, TypeOK
  <2>2. \A g \in Hints :
          events'[g] = IF g = h THEN events[h] \cup {"bundle_submitted"} ELSE events[g]
    BY <2>1 DEF PipelineInv, TypeOK
  <2>3. events[h] \subseteq {"bundle_submitted"}
    BY <2>1 DEF EventsInv, Undecided
  <2>4. EventsInv'
    BY <2>1, <2>2, <2>3 DEF EventsInv
  <2>5. RelayTells
    BY <2>1 DEF RelayTells, Tells, Undecided, UserEvents!EventTypes
  <2> QED
    BY <2>4, <2>5
<1>3. CASE FallbackSwap(h)
  <2>1. PICK status \in {"fallback", "error"} :
          pc[h] = "fallback" /\ Conclude(h, Verdict(status, 0))
    BY <1>3 DEF FallbackSwap
  <2>2. pc[h] \in Undecided
    BY <2>1 DEF Undecided
  <2> QED
    BY <2>1, <2>2, VerdictEvents
<1>4. CASE SendBundleThrows(h) \/ ResultTimeout(h)
  <2>1. \/ Conclude(h, Verdict("error", 0))
        \/ Conclude(h, Verdict("timeout", attempt[h]))
    BY <1>4 DEF SendBundleThrows, ResultTimeout, AfterTimeout
  <2>2. pc[h] \in Undecided
    BY <1>4 DEF SendBundleThrows, ResultTimeout, Undecided
  <2>3. attempt[h] \in Nat
    BY InHandTypes
  <2> QED
    BY <2>1, <2>2, <2>3, VerdictEvents
<1>5. CASE SkipCandidate(h)
  BY <1>5, NextCandidateEvents DEF SkipCandidate
<1> QED
  BY <1>1, <1>2, <1>3, <1>4, <1>5 DEF Relay

\* The promise the events keep, as far as the relay's own steps go.
LEMMA EventsStep == PipelineInv /\ EventsInv /\ [Next]_vars => EventsInv' /\ RelayTells
<1> SUFFICES ASSUME PipelineInv, EventsInv, [Next]_vars PROVE EventsInv' /\ RelayTells
  OBVIOUS
<1>1. ASSUME NEW h \in Hints, Relay(h) PROVE EventsInv' /\ RelayTells
  BY <1>1, RelayEvents
<1>2. CASE HandleBundleResult
  <2>1. PICK b : b = Head(results).bundle
    OBVIOUS
  <2>2. CASE UNCHANGED relay
    BY <2>2, EventsUntouched DEF relay
  <2>3. CASE /\ b \in resolvers
             /\ Conclude(b[1], Verdict("landed", b[2])) \/ NextCandidate(b[1])
    <3>1. b \in Bundles /\ b[1] \in Hints /\ pc[b[1]] = "waiting"
      BY <2>3, BundleIsPair DEF PipelineInv, TypeOK, Awaited
    <3>2. pc[b[1]] \in Undecided
      BY <3>1 DEF Undecided
    <3>3. CASE Conclude(b[1], Verdict("landed", b[2]))
      <4>1. b[2] \in Nat
        BY <3>1, BundleIsPair DEF Attempts
      <4> QED
        BY <3>1, <3>2, <3>3, <4>1, VerdictEvents
    <3> QED
      BY <2>3, <3>1, <3>3, NextCandidateEvents
  <2> QED
    BY <1>2, <2>1, <2>2, <2>3 DEF HandleBundleResult
<1>3. CASE Restart
  BY <1>3, EventsUntouched DEF Restart, Undecided
<1>4. CASE \/ LoseResult \/ UNCHANGED vars
           \/ \E s \in Searchers : WithdrawEscrow(s)
           \/ \E b \in Bundles : Engine(b)
  <2>1. UNCHANGED <<pc, verdict, events>>
    BY <1>4 DEF LoseResult, WithdrawEscrow, Engine, AcceptBundle, RefuseBundle, LandBundle,
       FinalizeBundle, AbandonFork, vars, relay
  <2> QED
    BY <2>1, EventsUntouched
<1> QED
  BY <1>1, <1>2, <1>3, <1>4 DEF Next

\* An auction whose cashback was confirmed has a bundle on the chain, so its
\* fallback was not executed and is not about to be.
LEMMA ConfirmedExcludesFallback ==
    ASSUME PipelineInv, EventsInv, NEW b \in Bundles, bundle[b] \in Settled
    PROVE  "fallback_executed" \notin events[b[1]] /\ pc[b[1]] # "fallback"
<1>1. PICK h \in Hints : h = b[1] /\ b = <<h, b[2]>> /\ b[2] \in Attempts
  BY BundleIsPair
<1>2. ~AllOut(h)
  BY <1>1 DEF AllOut, Out, Settled, Refused
<1>3. verdict[h].status # "fallback"
  BY <1>2 DEF PipelineInv, Judged
<1>4. "fallback_executed" \notin events[h]
  BY <1>3 DEF EventsInv
<1> QED
  BY <1>1, <1>4, OneSettled

Cashback(h) ==
    IF \E c \in Confirmations : c.hint = h THEN {"cashback_confirmed"} ELSE {}

LEMMA EmittedParts ==
    /\ Emitted = [h \in Hints |-> events[h] \cup Cashback(h)]
    /\ Emitted' = [h \in Hints |-> events'[h] \cup Cashback(h)']
  BY DEF Emitted, Cashback

\* A step of the relay is one the promise allows.
LEMMA RelayTellsInOrder ==
    ASSUME PipelineInv, EventsInv, ToldInv, RelayTells, confirmed' = confirmed
    PROVE  [UserEvents!EventsNext]_Emitted
<1>1. \A h \in Hints : Cashback(h)' = Cashback(h)
  BY DEF Cashback, Confirmations
<1>2. CASE events' = events
  BY <1>1, <1>2, EmittedParts
<1>3. ASSUME NEW h \in Hints, NEW type \in UserEvents!EventTypes, Tells(h, type)
      PROVE  UserEvents!Emit(h, type)
  <2>1. \A g \in Hints :
          events'[g] = IF g = h THEN events[h] \cup {type} ELSE events[g]
    BY <1>3 DEF Tells, PipelineInv, TypeOK
  <2>2. Emitted' = [Emitted EXCEPT ![h] = @ \cup {type}]
    BY <1>1, <2>1, EmittedParts
  <2>3. Emitted[h] = events[h] \cup Cashback(h)
    BY EmittedParts
  <2>4. Cashback(h) \subseteq {"cashback_confirmed"}
    BY DEF Cashback
  <2>5. CASE type \in {"bundle_submitted", "auction_failed"} /\ pc[h] \in Undecided
    <3>1. events[h] \subseteq {"bundle_submitted"}
      BY <2>5 DEF EventsInv
    <3>2. Emitted[h] \cap {"fallback_executed", "auction_failed"} = {}
      BY <2>3, <2>4, <3>1
    <3> QED
      BY <2>2, <2>5, <3>2 DEF UserEvents!Emit, UserEvents!MayEmit
  <2>6. CASE type = "fallback_executed" /\ pc[h] = "fallback"
    <3>1. events[h] = {}
      BY <2>6 DEF EventsInv
    <3>2. Cashback(h) = {}
      <4> SUFFICES ASSUME NEW c \in Confirmations, c.hint = h PROVE FALSE
        BY DEF Cashback
      <4>1. PICK b \in Bundles : c = [hint |-> b[1], signature |-> b] /\ bundle[b] = "finalized"
        BY DEF ToldInv
      <4> QED
        BY <2>6, <4>1, ConfirmedExcludesFallback DEF Settled
    <3>3. Emitted[h] = {}
      BY <2>3, <3>1, <3>2
    <3> QED
      BY <2>2, <2>6, <3>3 DEF UserEvents!Emit, UserEvents!MayEmit
  <2> QED
    BY <1>3, <2>5, <2>6 DEF Tells
<1> QED
  BY <1>2, <1>3 DEF RelayTells, UserEvents!EventsNext

\* What TakePending finds: the entry of the settlement's own auction, or none.
LEMMA TakesItsOwn ==
    ASSUME OneAuctionPerUser, PipelineInv, DeliveryInv, TakePending
    PROVE  \/ confirmed' = confirmed
           \/ \E b \in Bundles :
                /\ bundle[b] = "finalized" /\ pending[Key(Event(b))] # NoHint
                /\ confirmed' = Append(confirmed, [hint |-> b[1], signature |-> b])
<1> SUFFICES ASSUME confirmed' # confirmed
             PROVE  \E b \in Bundles :
                        /\ bundle[b] = "finalized" /\ pending[Key(Event(b))] # NoHint
                        /\ confirmed' = Append(confirmed, [hint |-> b[1], signature |-> b])
  OBVIOUS
<1> DEFINE Updates == [user : Users, searcher : Searchers, bid : Bids, signature : Bundles]
<1>1. stream \in Seq(Updates) /\ stream # <<>>
  BY DEF TakePending, DeliveryInv, DTypeOK
<1> HIDE DEF Updates
<1>2. 1 \in DOMAIN stream /\ Head(stream) = stream[1]
  BY <1>1
<1>3. PICK b \in Bundles : Head(stream) = Event(b) /\ bundle[b] = "finalized"
  BY <1>2 DEF DeliveryInv, StreamInv
<1>4. PICK k \in Keys : k = Key(Event(b))
  BY <1>3, EventTypes
<1>5. Event(b).signature = b /\ Event(b).user = UserOf[b[1]]
  BY <1>3, EventTypes
<1>6. pending[k] # NoHint /\ confirmed' = Append(confirmed, [hint |-> pending[k], signature |-> b])
  BY <1>3, <1>4, <1>5 DEF TakePending
<1>7. PICK c \in Bundles : pending[k] = c[1] /\ k = Key(Event(c)) /\ bundle[c] # "unsent"
  BY <1>6 DEF DeliveryInv, RegisteredInv
<1>8. UserOf[b[1]] = UserOf[c[1]]
  BY <1>4, <1>5, <1>7, EventTypes DEF Key
<1>9. pending[k] = b[1]
  BY <1>7, <1>8, BundleIsPair DEF OneAuctionPerUser
<1> QED
  BY <1>3, <1>4, <1>6, <1>9

\* The indexer's notice is one the promise allows.
LEMMA IndexerTellsInOrder ==
    ASSUME OneAuctionPerUser, PipelineInv, EventsInv, DeliveryInv, TakePending
    PROVE  [UserEvents!EventsNext]_Emitted
<1>1. events' = events
  BY DEF TakePending, vars, relay
<1>2. CASE confirmed' = confirmed
  BY <1>1, <1>2, RelayTellsInOrder DEF RelayTells, DeliveryInv
<1>3. ASSUME NEW b \in Bundles, bundle[b] = "finalized", pending[Key(Event(b))] # NoHint,
             confirmed' = Append(confirmed, [hint |-> b[1], signature |-> b])
      PROVE  UserEvents!Emit(b[1], "cashback_confirmed")
  <2>1. PICK n : n = [hint |-> b[1], signature |-> b]
    OBVIOUS
  <2>2. b[1] \in Hints
    BY BundleIsPair
  <2>3. Confirmations' = Confirmations \cup {n}
    <3> DEFINE Notices == [hint : Hints, signature : Bundles]
    <3>1. confirmed \in Seq(Notices)
      BY DEF DeliveryInv, DTypeOK
    <3>2. confirmed' = Append(confirmed, n)
      BY <1>3, <2>1
    <3> HIDE DEF Notices
    <3> QED
      BY <3>1, <3>2 DEF Confirmations
  <2>4. \A h \in Hints :
          Cashback(h)' = IF h = b[1] THEN {"cashback_confirmed"} ELSE Cashback(h)
    BY <2>1, <2>3 DEF Cashback
  <2>5. Emitted' = [Emitted EXCEPT ![b[1]] = @ \cup {"cashback_confirmed"}]
    <3>1. Cashback(b[1]) \subseteq {"cashback_confirmed"}
      BY DEF Cashback
    <3> QED
      BY <1>1, <2>2, <2>4, <3>1, EmittedParts
  <2>6. Cashback(b[1]) = {}
    <3> SUFFICES ASSUME NEW c \in Confirmations, c.hint = b[1] PROVE FALSE
      BY DEF Cashback
    <3>1. PICK d \in Bundles :
            /\ c = [hint |-> d[1], signature |-> d]
            /\ bundle[d] = "finalized" /\ pending[Key(Event(d))] = NoHint
      BY DEF DeliveryInv, ToldInv
    <3>2. d = b
      BY <1>3, <3>1, OneSettled DEF Settled
    <3> QED
      BY <1>3, <3>1, <3>2
  <2>7. Emitted[b[1]] = events[b[1]]
    BY <2>2, <2>6, EmittedParts
  <2>8. "cashback_confirmed" \notin events[b[1]]
    BY <2>2 DEF PipelineInv, TypeOK
  <2>9. "fallback_executed" \notin events[b[1]]
    BY <1>3, ConfirmedExcludesFallback DEF Settled
  <2> QED
    BY <2>5, <2>7, <2>8, <2>9 DEF UserEvents!Emit, UserEvents!MayEmit
<1> QED
  BY <1>2, <1>3, TakesItsOwn, BundleIsPair DEF UserEvents!EventsNext, UserEvents!EventTypes

LEMMA EventsRefined ==
    ASSUME OneAuctionPerUser, PipelineInv, EventsInv, DeliveryInv, [DNext]_allVars
    PROVE  [UserEvents!EventsNext]_Emitted
<1>1. CASE TakePending
  BY <1>1, IndexerTellsInOrder
<1>2. CASE ~TakePending
  <2>1. confirmed' = confirmed
    BY <1>2 DEF DNext, Indexer, PipelineStep, RegisterAndSubmit, ConfirmOnChain, RepeatOnChain,
       StreamDown, Resubscribe, ResolveAuctionId, StoreCashbackEvent, ExpirePending,
       RestartRelay, allVars, delivery
  <2>2. RelayTells
    BY DeliveryStep, EventsStep
  <2> QED
    BY <2>1, <2>2, RelayTellsInOrder DEF DeliveryInv
<1> QED
  BY <1>1, <1>2

LEMMA EventsInitRefined == DInit => EventsInv /\ UserEvents!EventsInit
<1> SUFFICES ASSUME DInit PROVE EventsInv /\ UserEvents!EventsInit
  OBVIOUS
<1>1. \A h \in Hints : events[h] = {}
  BY DEF DInit, Init
<1>2. EventsInv
  BY <1>1 DEF EventsInv
<1>3. Confirmations = {}
  BY DEF DInit, Confirmations
<1>4. UserEvents!EventsInit
  BY <1>1, <1>3, EmittedParts DEF UserEvents!EventsInit, Cashback
<1> QED
  BY <1>2, <1>4

\* What the user of an auction is sent obeys the promise of AuctionEvents,
\* whatever is lost, repeated or restarted and in whatever order the bundle
\* lands, its result arrives and the indexer reads the log (finalizeAuction and
\* indexer/cashback.ts, the callers of emitToUser).
THEOREM DeliveryImplementsAuctionEvents ==
    ASSUME OneAuctionPerUser
    PROVE  DSpec => ImplementsAuctionEvents
<1>1. PipelineInv /\ EventsInv /\ [DNext]_allVars => EventsInv'
  BY DeliveryStep, EventsStep
<1>2. PipelineInv /\ EventsInv /\ DeliveryInv /\ [DNext]_allVars =>
        [UserEvents!EventsNext]_Emitted
  BY EventsRefined
<1> QED
  BY <1>1, <1>2, EventsInitRefined, DeliveryInvariance, PTL
  DEF DSpec, ImplementsAuctionEvents, UserEvents!EventsSpec
=============================================================================
