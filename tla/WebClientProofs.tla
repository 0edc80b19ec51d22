--------------------------- MODULE WebClientProofs ---------------------------
(***************************************************************************)
(* The swap form and the landing page keep their promises on every visit   *)
(* to the site, for any decimals, prices, wallets, amounts and deployments *)
(* of the relay, and any number of edits and swaps.  The swap page leaves  *)
(* the waitlist alone, whose state begins anew when the landing page is    *)
(* left.                                                                   *)
(***************************************************************************)
EXTENDS WebClient, WellFoundedInduction, FiniteSetTheorems, SequenceTheorems, TLAPS

Joined == INSTANCE WaitlistProofs

-----------------------------------------------------------------------------
\* Induction over the naturals, for a set instead of a predicate.
LEMMA NatSetInduction ==
    ASSUME NEW T \in SUBSET Nat, 0 \in T, \A n \in T : n + 1 \in T
    PROVE  T = Nat
<1> DEFINE Rel == OpToRel(<, Nat)
           U == Nat \ T
<1>1. IsWellFoundedOn(Rel, Nat)
  BY NatLessThanWellFounded
<1>2. \A m, n \in Nat : <<m, n>> \in Rel <=> m < n
  BY DEF OpToRel
<1> HIDE DEF Rel, U
<1>3. SUFFICES ASSUME U # {} PROVE FALSE
  BY DEF U
<1>4. U \subseteq Nat
  BY DEF U
<1>5. PICK x \in U : \A y \in U : ~(<<y, x>> \in Rel)
  BY <1>1, <1>3, <1>4, WFMin
<1>6. x \in Nat /\ x # 0 /\ x - 1 \in Nat /\ x - 1 < x
  BY <1>5 DEF U
<1>7. x - 1 \in T
  BY <1>2, <1>5, <1>6 DEF U
<1>8. (x - 1) + 1 \in T
  BY <1>7
<1>9. (x - 1) + 1 = x
  BY <1>6
<1> QED
  BY <1>5, <1>8, <1>9 DEF U

\* The equation of PowerOfTen, up to n.
UpTo(g, n) == \A m \in 0..n : g[m] = IF m = 0 THEN 1 ELSE 10 * g[m - 1]

LEMMA PowersExist == \A n \in Nat : \E g : UpTo(g, n)
<1> DEFINE T == {n \in Nat : \E g : UpTo(g, n)}
<1>1. 0 \in T
  <2>1. UpTo([m \in Nat |-> 1], 0)
    BY DEF UpTo
  <2> QED
    BY <2>1
<1>2. ASSUME NEW n \in T PROVE n + 1 \in T
  <2>0. n \in Nat /\ n + 1 \in Nat
    BY <1>2
  <2>1. PICK g : UpTo(g, n)
    BY <1>2
  <2> DEFINE h == [m \in Nat |-> IF m = n + 1 THEN 10 * g[n] ELSE g[m]]
  <2>2. /\ h[n + 1] = 10 * g[n]
        /\ \A m \in 0..n : h[m] = g[m]
    BY <2>0
  <2> HIDE DEF h
  <2>3. ASSUME NEW m \in 0..(n + 1) PROVE h[m] = IF m = 0 THEN 1 ELSE 10 * h[m - 1]
    <3>1. CASE m = n + 1
      <4>1. m # 0 /\ m - 1 = n /\ n \in 0..n
        BY <2>0, <3>1
      <4> QED
        BY <2>2, <3>1, <4>1
    <3>2. CASE m # n + 1
      <4>1. m \in 0..n /\ (m # 0 => m - 1 \in 0..n)
        BY <2>0, <3>2
      <4> QED
        BY <2>1, <2>2, <4>1 DEF UpTo
    <3> QED
      BY <3>1, <3>2
  <2>4. UpTo(h, n + 1)
    BY <2>3 DEF UpTo
  <2> QED
    BY <2>0, <2>4
<1> HIDE DEF T
<1>3. T = Nat
  BY <1>1, <1>2, NatSetInduction DEF T
<1> QED
  BY <1>3 DEF T

LEMMA PowersUnique ==
    \A n \in Nat : \A g, h : UpTo(g, n) /\ UpTo(h, n) => g[n] = h[n]
<1> DEFINE T == {n \in Nat : \A g, h : UpTo(g, n) /\ UpTo(h, n) => g[n] = h[n]}
<1>1. 0 \in T
  BY DEF UpTo
<1>2. ASSUME NEW n \in T PROVE n + 1 \in T
  <2>0. n \in Nat /\ n + 1 \in Nat /\ 0..n \subseteq 0..(n + 1) /\ n + 1 \in 0..(n + 1)
    BY <1>2
  <2>1. ASSUME NEW g, NEW h, UpTo(g, n + 1), UpTo(h, n + 1) PROVE g[n + 1] = h[n + 1]
    <3>1. UpTo(g, n) /\ UpTo(h, n)
      BY <2>0, <2>1 DEF UpTo
    <3>2. g[n] = h[n]
      BY <1>2, <3>1
    <3>3. n + 1 # 0 /\ (n + 1) - 1 = n
      BY <2>0
    <3>4. g[n + 1] = 10 * g[n] /\ h[n + 1] = 10 * h[n]
      BY <2>0, <2>1, <3>3 DEF UpTo
    <3> QED
      BY <3>2, <3>4
  <2> QED
    BY <2>0, <2>1
<1> HIDE DEF T
<1>3. T = Nat
  BY <1>1, <1>2, NatSetInduction DEF T
<1> QED
  BY <1>3 DEF T

\* A power of ten is a positive natural, and the first one is 1.
LEMMA PowersOfTen ==
    /\ PowerOfTen[0] = 1
    /\ \A n \in Nat : PowerOfTen[n + 1] = 10 * PowerOfTen[n]
    /\ \A n \in Nat : PowerOfTen[n] \in Nat /\ PowerOfTen[n] > 0
<1> DEFINE Step(g) == [n \in Nat |-> IF n = 0 THEN 1 ELSE 10 * g[n - 1]]
           Some(n) == CHOOSE g : UpTo(g, n)
           p == [n \in Nat |-> Some(n)[n]]
<1>1. \A n \in Nat : UpTo(Some(n), n)
  BY PowersExist
<1> HIDE DEF Some
<1>2. ASSUME NEW n \in Nat PROVE p[n] = Step(p)[n]
  <2>1. CASE n = 0
    <3>1. 0 \in 0..0
      OBVIOUS
    <3>2. Some(0)[0] = 1
      BY <1>1, <3>1 DEF UpTo
    <3> QED
      BY <2>1, <3>2
  <2>2. CASE n # 0
    <3>1. /\ n - 1 \in Nat /\ n \in 0..n /\ 0..(n - 1) \subseteq 0..n
      BY <2>2
    <3>2. UpTo(Some(n), n - 1)
      BY <1>1, <3>1 DEF UpTo
    <3>3. Some(n)[n - 1] = Some(n - 1)[n - 1]
      BY <1>1, <3>1, <3>2, PowersUnique
    <3>4. Some(n)[n] = 10 * Some(n)[n - 1]
      BY <1>1, <2>2, <3>1 DEF UpTo
    <3>5. p[n] = Some(n)[n] /\ p[n - 1] = Some(n - 1)[n - 1]
      BY <3>1
    <3> HIDE DEF p
    <3> QED
      BY <2>2, <3>3, <3>4, <3>5
  <2> QED
    BY <2>1, <2>2
<1>3. p = Step(p)
  <2>1. p = [n \in Nat |-> p[n]] /\ Step(p) = [n \in Nat |-> Step(p)[n]]
    OBVIOUS
  <2> HIDE DEF p
  <2> QED
    BY <1>2, <2>1
<1> HIDE DEF p
<1>4. PowerOfTen = Step(PowerOfTen)
  <2>1. \E g : g = Step(g)
    BY <1>3
  <2> QED
    BY <2>1 DEF PowerOfTen
<1>5. PowerOfTen[0] = 1
  BY <1>4
<1>s. ASSUME NEW n \in Nat PROVE PowerOfTen[n + 1] = 10 * PowerOfTen[n]
  <2>1. n + 1 \in Nat /\ n + 1 # 0 /\ (n + 1) - 1 = n
    OBVIOUS
  <2> QED
    BY <1>4, <2>1
<1> DEFINE T == {n \in Nat : PowerOfTen[n] \in Nat /\ PowerOfTen[n] > 0}
<1>6. ASSUME NEW n \in T PROVE n + 1 \in T
  <2>1. n \in Nat /\ n + 1 \in Nat
    BY <1>6
  <2>2. PowerOfTen[n + 1] = 10 * PowerOfTen[n]
    BY <1>s, <2>1
  <2>3. PowerOfTen[n] \in Nat /\ PowerOfTen[n] > 0
    BY <1>6
  <2>4. 10 * PowerOfTen[n] \in Nat /\ 10 * PowerOfTen[n] > 0
    BY <2>3
  <2> QED
    BY <2>1, <2>2, <2>4
<1>7. 0 \in T
  BY <1>5
<1> HIDE DEF T
<1>8. T = Nat
  BY <1>6, <1>7, NatSetInduction DEF T
<1> QED
  BY <1>5, <1>s, <1>8 DEF T

LEMMA PowersMultiply ==
    ASSUME NEW a \in Nat, NEW b \in Nat
    PROVE  PowerOfTen[b + a] = PowerOfTen[b] * PowerOfTen[a]
<1> DEFINE T == {n \in Nat : PowerOfTen[n + a] = PowerOfTen[n] * PowerOfTen[a]}
<1>1. 0 \in T
  <2>1. 0 + a = a /\ 1 * PowerOfTen[a] = PowerOfTen[a]
    BY PowersOfTen
  <2> QED
    BY <2>1, PowersOfTen
<1>2. ASSUME NEW n \in T PROVE n + 1 \in T
  <2>1. n \in Nat /\ n + a \in Nat /\ (n + 1) + a = (n + a) + 1
    BY <1>2
  <2> DEFINE x == PowerOfTen[n]
             y == PowerOfTen[a]
  <2>2. /\ PowerOfTen[(n + 1) + a] = 10 * PowerOfTen[n + a]
        /\ PowerOfTen[n + 1] = 10 * x
    BY <2>1, PowersOfTen
  <2>3. PowerOfTen[n + a] = x * y /\ x \in Nat /\ y \in Nat
    BY <1>2, <2>1, PowersOfTen
  <2> HIDE DEF x, y
  <2>4. 10 * (x * y) = (10 * x) * y
    BY <2>3
  <2>5. PowerOfTen[(n + 1) + a] = PowerOfTen[n + 1] * y
    BY <2>2, <2>3, <2>4
  <2> QED
    BY <2>1, <2>5 DEF y
<1> HIDE DEF T
<1>3. T = Nat
  BY <1>1, <1>2, NatSetInduction DEF T
<1> QED
  BY <1>3 DEF T

-----------------------------------------------------------------------------
(* Amounts *)

LEMMA Units ==
    ASSUME NEW t \in Tokens
    PROVE  RawUnit(Decimals[t]) \in Nat /\ RawUnit(Decimals[t]) > 0
<1>1. Digits - Decimals[t] \in Nat
  BY TokenAssumption DEF Digits, Tokens
<1> QED
  BY <1>1, PowersOfTen DEF RawUnit

LEMMA DivMod ==
    ASSUME NEW n \in Nat, NEW unit \in Nat, unit > 0
    PROVE  /\ n \div unit \in Nat
           /\ n % unit \in Nat
           /\ n - (n % unit) \in Nat
           /\ (n * unit) % unit = 0
           /\ (n * unit) \div unit = n
<1>1. n \div unit \in Nat /\ n % unit \in Nat /\ n = unit * (n \div unit) + (n % unit)
  <2> DEFINE d == n \div unit
             m == n % unit
  <2>1. d \in Int /\ m \in 0..(unit - 1) /\ n = unit * d + m
    OBVIOUS
  <2> HIDE DEF d, m
  <2>2. CASE d <= -1
    <3>1. unit * d <= -unit
      BY <2>1, <2>2
    <3> QED
      BY <2>1, <3>1
  <2>3. d \in Nat /\ m \in Nat
    BY <2>1, <2>2
  <2> QED
    BY <2>1, <2>3 DEF d, m
<1>2. unit * (n \div unit) \in Nat
  BY <1>1
<1>3. n - (n % unit) \in Nat
  BY <1>1, <1>2
<1> DEFINE m == n * unit
           q == m \div unit
           r == m % unit
<1>4. m \in Nat /\ q \in Int /\ r \in 0..(unit - 1) /\ m = unit * q + r
  OBVIOUS
<1>5. r = unit * (n - q)
  <2>1. m = unit * n
    OBVIOUS
  <2>2. unit * (n - q) = unit * n - unit * q
    BY <1>4
  <2> QED
    BY <1>4, <2>1, <2>2
<1> HIDE DEF q, r, m
<1>6. n - q = 0
  <2>1. CASE n - q >= 1
    <3>1. unit * (n - q) >= unit
      BY <1>4, <2>1
    <3> QED
      BY <1>4, <1>5, <3>1
  <2>2. CASE n - q <= -1
    <3>1. unit * (n - q) <= -unit
      BY <1>4, <2>2
    <3> QED
      BY <1>4, <1>5, <3>1
  <2> QED
    BY <1>4, <2>1, <2>2
<1>7. r = 0 /\ q = n
  BY <1>4, <1>5, <1>6
<1> QED
  BY <1>1, <1>3, <1>7 DEF q, r, m

\* What is typed stays a natural, and has a raw amount or none.
LEMMA TypedIsNat ==
    ASSUME NEW text \in Nat, NEW t \in Tokens
    PROVE  /\ SanitizeDecimalInput(text, Decimals[t]) \in Nat
           /\ DecimalToRawAmount(text, Decimals[t]) \in Nat
BY Units, DivMod DEF SanitizeDecimalInput, DecimalToRawAmount, NoAmount

\* With all its digits, a raw amount survives the way to the form and back.
LEMMA RawThereAndBack ==
    ASSUME NEW raw \in Nat, NEW t \in Tokens
    PROVE  LET text == RawToDecimalAmount(raw, Decimals[t], Decimals[t])
           IN  text \in Nat /\ DecimalToRawAmount(text, Decimals[t]) = raw
<1> DEFINE unit == RawUnit(Decimals[t])
<1>1. unit \in Nat /\ unit > 0
  BY Units
<1>2. Decimals[t] - Decimals[t] = 0
  BY TokenAssumption
<1>3. RawToDecimalAmount(raw, Decimals[t], Decimals[t]) = raw * unit
  <2>1. raw \div 1 = raw
    OBVIOUS
  <2> QED
    BY <1>2, <2>1, PowersOfTen DEF RawToDecimalAmount
<1>4. (raw * unit) % unit = 0 /\ (raw * unit) \div unit = raw
  BY <1>1, DivMod
<1>5. raw * unit \in Nat
  BY <1>1
<1> QED
  BY <1>3, <1>4, <1>5 DEF DecimalToRawAmount

-----------------------------------------------------------------------------
(* The relay's answers *)

ParamsType ==
    {p \in [inputMint : Tokens, outputMint : Tokens, amount : Nat,
            slippageBps : 0..MAX_SLIPPAGE_BPS] : p.inputMint # p.outputMint}

\* The quotes that answer p.
QuotesFor(p) ==
    {q \in [inputMint : {p.inputMint}, outputMint : {p.outputMint}, inAmount : {p.amount},
            outAmount : Nat, otherAmountThreshold : Nat, slippageBps : 0..MAX_SLIPPAGE_BPS] :
        p.slippageBps > 0 => q.slippageBps = p.slippageBps}

LEMMA ThresholdIsNat ==
    ASSUME NEW amount \in Nat, NEW bps \in 0..MAX_SLIPPAGE_BPS
    PROVE  AfterSlippage(amount, bps) \in Nat
<1>1. 10000 - bps \in Nat
  BY DEF MAX_SLIPPAGE_BPS
<1>2. amount * (10000 - bps) \in Nat
  BY <1>1
<1> QED
  BY <1>2 DEF AfterSlippage

\* Jupiter and its mock quote what they were asked, at a slippage given to them or
\* of their own choice.
LEMMA JupiterQuotesWhatIsAsked ==
    ASSUME NEW e, NEW p \in ParamsType
    PROVE  JupiterQuotes(e, p) \subseteq QuotesFor(p)
<1>1. /\ p.inputMint \in Tokens /\ p.outputMint \in Tokens /\ p.amount \in Nat
      /\ p.slippageBps \in 0..MAX_SLIPPAGE_BPS
  BY DEF ParamsType
<1>2. MockQuote(p) \in QuotesFor(p)
  <2>1. (p.amount * 99) \div 100 \in Nat
    BY <1>1
  <2>2. AfterSlippage(p.amount, p.slippageBps) \in Nat
    BY <1>1, ThresholdIsNat
  <2> QED
    BY <1>1, <2>1, <2>2 DEF MockQuote, QuotesFor
<1>3. ASSUME NEW price \in Prices PROVE JupiterBuild(p, price) \in QuotesFor(p)
  <2> DEFINE out == IF p.inputMint = "USDC" THEN p.amount * price ELSE p.amount \div price
             bps == IF p.slippageBps > 0 THEN p.slippageBps ELSE RtseBps
  <2>1. price \in Nat /\ price > 0
    BY RelayApiAssumption
  <2>2. out \in Nat
    <3>1. \A a \in Nat, q \in Nat : a * q \in Nat /\ (q > 0 => a \div q \in Nat)
      OBVIOUS
    <3>2. p.amount * price \in Nat /\ p.amount \div price \in Nat
      BY <1>1, <2>1, <3>1, Zenon
    <3> QED
      BY <3>2
  <2>3. bps \in 0..MAX_SLIPPAGE_BPS /\ (p.slippageBps > 0 => bps = p.slippageBps)
    <3>1. RtseBps \in 0..MAX_SLIPPAGE_BPS
      BY RelayApiAssumption DEF MAX_SLIPPAGE_BPS
    <3> QED
      BY <1>1, <3>1, Zenon
  <2>4. JupiterBuild(p, price) =
          [inputMint |-> p.inputMint, outputMint |-> p.outputMint, inAmount |-> p.amount,
           outAmount |-> out, otherAmountThreshold |-> AfterSlippage(out, bps),
           slippageBps |-> bps]
    BY DEF JupiterBuild
  <2> HIDE DEF out, bps
  <2>5. AfterSlippage(out, bps) \in Nat
    BY <2>2, <2>3, ThresholdIsNat
  <2> QED
    BY <2>2, <2>3, <2>4, <2>5 DEF QuotesFor
<1> QED
  BY <1>2, <1>3 DEF JupiterQuotes

LEMMA QuoteAnswersAre ==
    ASSUME NEW e, NEW p \in ParamsType, NEW a \in Fetched(QuoteAnswers(e, p)), a.status = 200
    PROVE  a.quote \in QuotesFor(p)
<1>1. a.quote \in JupiterQuotes(e, p)
  BY DEF Fetched, QuoteAnswers, Answers, RateLimited, Outages, Refusal
<1> QED
  BY <1>1, JupiterQuotesWhatIsAsked

LEMMA PrepareAnswersAre ==
    ASSUME NEW e, NEW r, NEW a \in Fetched(PrepareAnswers(e, r)), a.status = 200
    PROVE  a.swap.request = r /\ a.swap.instructions = Instructions(e, r)
<1>1. PICK build : a.swap = PreparedSwap(e, r, build)
  BY DEF Fetched, PrepareAnswers, Answers, RateLimited, Outages, Refusal
<1> QED
  BY <1>1 DEF PreparedSwap

\* Native SOL is wrapped by one instruction, the first, or by none.
Wraps(instructions) == {i \in DOMAIN instructions : instructions[i] = "wrap"}

LEMMA WrapsOnce ==
    ASSUME NEW e \in Environments, NEW r
    PROVE  LET wraps == Cardinality(Wraps(Instructions(e, r)))
           IN  /\ e.mockJupiter /\ ~e.mockJito => Wraps(Instructions(e, r)) = {}
               /\ ~e.mockJupiter \/ e.mockJito => wraps = IF r.inputMint = "SOL" THEN 1 ELSE 0
<1> DEFINE by == If(JupiterWraps(e, r.inputMint), "wrap") \o If(RelayWraps(e, r.inputMint), "wrap")
           middle == <<IF e.mockJupiter THEN "memo" ELSE "guarded swap">>
           u1 == If(JupiterWraps(e, r.outputMint), "unwrap")
           u2 == If(RelayWraps(e, r.outputMint), "unwrap")
           s == Instructions(e, r)
           Rest == {"memo", "guarded swap", "unwrap"}
<1>1. middle \in Seq(Rest) /\ u1 \in Seq(Rest) /\ u2 \in Seq(Rest)
  <2>1. /\ <<"memo">> \in Seq(Rest) /\ <<"guarded swap">> \in Seq(Rest)
        /\ <<"unwrap">> \in Seq(Rest)
    OBVIOUS
  <2>2. <<>> \in Seq(Rest)
    BY EmptySeq
  <2> HIDE DEF Rest
  <2>3. middle \in {<<"memo">>, <<"guarded swap">>}
    OBVIOUS
  <2>4. u1 \in {<<"unwrap">>, <<>>} /\ u2 \in {<<"unwrap">>, <<>>}
    BY DEF If
  <2> QED
    BY <2>1, <2>2, <2>3, <2>4
<1>2. e.mockJupiter \in BOOLEAN /\ e.mockJito \in BOOLEAN
  BY SwapFormAssumption
<1>3. \/ by = <<"wrap">> /\ r.inputMint = "SOL" /\ (~e.mockJupiter \/ e.mockJito)
      \/ by = <<>> /\ (r.inputMint # "SOL" \/ (e.mockJupiter /\ ~e.mockJito))
  <2>1. /\ <<"wrap">> \o <<>> = <<"wrap">> /\ <<>> \o <<"wrap">> = <<"wrap">>
        /\ <<>> \o <<>> = <<>>
    OBVIOUS
  <2>2. CASE r.inputMint = "SOL" /\ e.mockJito
    <3>1. by = <<>> \o <<"wrap">>
      BY <1>2, <2>2 DEF If, JupiterWraps, RelayWraps
    <3> QED
      BY <2>1, <2>2, <3>1
  <2>3. CASE r.inputMint = "SOL" /\ ~e.mockJito /\ ~e.mockJupiter
    <3>1. by = <<"wrap">> \o <<>>
      BY <1>2, <2>3 DEF If, JupiterWraps, RelayWraps
    <3> QED
      BY <2>1, <2>3, <3>1
  <2>4. CASE r.inputMint # "SOL" \/ (~e.mockJito /\ e.mockJupiter)
    <3>1. by = <<>> \o <<>>
      BY <1>2, <2>4 DEF If, JupiterWraps, RelayWraps
    <3> QED
      BY <2>1, <2>4, <3>1
  <2> QED
    BY <1>2, <2>2, <2>3, <2>4
<1>4. s = by \o middle \o u1 \o u2
  BY DEF Instructions
<1> DEFINE rest == middle \o u1 \o u2
<1> HIDE DEF middle, u1, u2, by, s, Rest
<1>5. rest \in Seq(Rest)
  BY <1>1
<1>6. CASE by = <<"wrap">>
  <2>1. s = <<"wrap">> \o rest
    BY <1>1, <1>4, <1>6
  <2> HIDE DEF rest
  <2>2. \A i \in DOMAIN rest : rest[i] # "wrap"
    <3>1. \A i \in DOMAIN rest : rest[i] \in Rest
      BY <1>5, ElementOfSeq
    <3> QED
      BY <3>1 DEF Rest
  <2>3. Wraps(s) = {1}
    BY <1>5, <2>1, <2>2 DEF Wraps
  <2>4. Cardinality(Wraps(s)) = 1
    BY <2>3, FS_Singleton
  <2> QED
    BY <1>2, <1>3, <1>6, <2>4 DEF s
<1>7. CASE by = <<>>
  <2>1. s = rest
    BY <1>1, <1>4, <1>7
  <2> HIDE DEF rest
  <2>2. \A i \in DOMAIN rest : rest[i] # "wrap"
    <3>1. \A i \in DOMAIN rest : rest[i] \in Rest
      BY <1>5, ElementOfSeq
    <3> QED
      BY <3>1 DEF Rest
  <2>3. Wraps(s) = {}
    BY <2>1, <2>2 DEF Wraps
  <2>4. Cardinality(Wraps(s)) = 0
    BY <2>3, FS_EmptySet
  <2> QED
    BY <1>2, <1>3, <1>7, <2>3, <2>4 DEF s
<1> QED
  BY <1>3, <1>6, <1>7

-----------------------------------------------------------------------------
(* The form *)

FormType ==
    /\ env \in Environments
    /\ direction \in {"buy", "sell"}
    /\ amountIn \in Nat
    /\ slippage \in {AutoSlippage} \cup (SlippageMin..SlippageMax)
    /\ balances \in [loading : BOOLEAN, values : [Tokens -> Nat]]
    /\ debounce \in BOOLEAN

\* A quote is shown for parameters it answers; QuoteFollowsForm says for which.
QuoteInv ==
    /\ quoteState.status \in {"idle", "loading", "ready", "error"}
    /\ quoteState.status = "ready" =>
        /\ quoteState.of \in ParamsType
        /\ quoteState.quote \in QuotesFor(quoteState.of)

\* While a flip is pending the direction stays that of its deal.
FlipInv ==
    /\ flip.amount \in Nat
    /\ flip.deal # <<>> =>
        /\ flip.pending
        /\ flip.deal.inputMint = inputToken /\ flip.deal.outputMint = outputToken
        /\ flip.deal.outAmount \in Nat
        /\ flip.amount = RawToDecimalAmount(flip.deal.outAmount,
                             Decimals[outputToken], Decimals[outputToken])

SwapInv ==
    /\ swap.stage \in {"idle", "preparing", "signing", "simulating", "submitted"}
    /\ swap.stage # "idle" =>
        /\ swap = [stage |-> swap.stage, form |-> swap.form, atRest |-> swap.atRest,
                   quote |-> swap.quote, prepared |-> swap.prepared, request |-> swap.request]
        /\ ValidPrepareBody(swap.request)
        /\ swap.request.inputMint = swap.form.inputMint
        /\ swap.request.outputMint = swap.form.outputMint
        /\ swap.request.inputAmount = swap.form.amount
        /\ swap.atRest =>
            /\ swap.quote.inputMint = swap.form.inputMint
            /\ swap.quote.outputMint = swap.form.outputMint
            /\ ~env.fork => swap.request.maxSlippageBps = swap.quote.slippageBps
    /\ swap.stage \in {"signing", "simulating", "submitted"} =>
        /\ swap.prepared.request = swap.request
        /\ swap.prepared.instructions = Instructions(env, swap.request)

\* The inductive invariant of the card.
FormInv == FormType /\ QuoteFollowsForm /\ QuoteInv /\ FlipInv /\ SwapInv

LEMMA TokensAre ==
    FormType => /\ inputToken \in Tokens /\ outputToken \in Tokens
                /\ inputToken # outputToken
                /\ amountRaw \in Nat
                /\ slippageBps \in 0..MAX_SLIPPAGE_BPS
                /\ Params \in ParamsType
<1> SUFFICES ASSUME FormType
             PROVE  /\ inputToken \in Tokens /\ outputToken \in Tokens
                    /\ inputToken # outputToken
                    /\ amountRaw \in Nat
                    /\ slippageBps \in 0..MAX_SLIPPAGE_BPS
                    /\ Params \in ParamsType
  OBVIOUS
<1>1. inputToken \in Tokens /\ outputToken \in Tokens /\ inputToken # outputToken
  BY DEF FormType, inputToken, outputToken, InputTokenForDirection,
         OutputTokenForDirection, Tokens
<1>2. amountRaw \in Nat
  BY <1>1, TypedIsNat DEF FormType, amountRaw
<1>3. slippageBps \in 0..MAX_SLIPPAGE_BPS
  BY SwapFormAssumption DEF FormType, slippageBps, AutoSlippage, AUTO_SLIPPAGE_BPS,
     MAX_SLIPPAGE_BPS
<1> QED
  BY <1>1, <1>2, <1>3 DEF Params, ParamsType

LEMMA InitForm == Init => FormInv
<1> SUFFICES ASSUME Init PROVE FormInv
  OBVIOUS
<1>1. Digits \in Nat
  BY TokenAssumption DEF Digits, Tokens
<1>2. FormType
  BY <1>1, PowersOfTen DEF Init, FormType, NoBalances
\* The "1" of a new form is an amount, of either token.
<1>3. amountRaw # NoAmount
  <2> DEFINE d == Decimals[inputToken]
             unit == RawUnit(d)
             one == PowerOfTen[d]
  <2>1. inputToken \in Tokens /\ amountIn = PowerOfTen[Digits]
    BY <1>2, TokensAre DEF Init
  <2>2. d \in Nat /\ Digits - d \in Nat /\ d + (Digits - d) = Digits
    BY <1>1, <2>1, TokenAssumption DEF Digits, Tokens
  <2>3. unit \in Nat /\ unit > 0
    BY <2>1, Units
  <2>4. one \in Nat /\ one > 0
    BY <2>2, PowersOfTen
  <2>5. amountIn = one * unit
    BY <2>1, <2>2, PowersMultiply DEF RawUnit
  <2> HIDE DEF unit, one
  <2>6. (one * unit) % unit = 0 /\ (one * unit) \div unit = one
    BY <2>3, <2>4, DivMod
  <2> QED
    BY <2>4, <2>5, <2>6 DEF amountRaw, DecimalToRawAmount, NoAmount, unit
<1>4. QuoteFollowsForm /\ QuoteInv
  BY <1>3 DEF Init, QuoteFollowsForm, QuoteInv, Idle
<1>5. FlipInv /\ SwapInv
  BY DEF Init, FlipInv, SwapInv, NoFlip, NotSwapping, NoAmount
<1> QED
  BY <1>2, <1>4, <1>5 DEF FormInv

\* A step that edits the form: the quote effect runs with what it asks for now.
LEMMA EffectKeepsQuote ==
    ASSUME FormInv, QuoteEffect, amountRaw' \in Nat
    PROVE  QuoteFollowsForm' /\ QuoteInv' /\ debounce' \in BOOLEAN
<1>1. CASE Params' = Params
  <2>1. UNCHANGED <<quoteState, debounce, fetches>>
    BY <1>1 DEF QuoteEffect, RunEffect, quoting
  <2>2. amountRaw' = amountRaw
    BY <1>1 DEF Params
  <2> QED
    BY <1>1, <2>1, <2>2
       DEF FormInv, FormType, QuoteFollowsForm, QuoteInv, ValidQuoteQuery
<1>2. CASE Params' # Params
  <2>1. /\ fetches' = {}
        /\ debounce' = (amountRaw' # NoAmount)
        /\ quoteState' = IF amountRaw' = NoAmount THEN Idle ELSE quoteState
    BY <1>2 DEF QuoteEffect, RunEffect
  <2>2. debounce' \in BOOLEAN /\ (debounce' <=> amountRaw' # NoAmount)
    BY <2>1
  <2>3. QuoteFollowsForm'
    BY <2>1, <2>2 DEF QuoteFollowsForm
  <2>4. QuoteInv'
    BY <2>1 DEF FormInv, QuoteInv, Idle
  <2> QED
    BY <2>2, <2>3, <2>4
<1> QED
  BY <1>1, <1>2

\* A step that leaves the form and its quote alone.
LEMMA FormUntouched ==
    ASSUME FormInv, UNCHANGED <<direction, amountIn, slippage, quoteState, debounce, fetches>>
    PROVE  QuoteFollowsForm' /\ QuoteInv'
<1>1. Params' = Params /\ amountRaw' = amountRaw
  BY DEF Params, amountRaw, slippageBps, inputToken, outputToken
<1> QED
  BY <1>1 DEF FormInv, QuoteFollowsForm, QuoteInv, ValidQuoteQuery

LEMMA EditsKeepForm ==
    ASSUME FormInv, TypeAmount \/ SetMax \/ SetSlippage \/ StartFlip \/ FlipFires
    PROVE  FormInv'
<1>0. /\ FormType /\ inputToken \in Tokens /\ outputToken \in Tokens
      /\ FlipInv /\ SwapInv
  BY TokensAre DEF FormInv
<1>s. ASSUME UNCHANGED <<env, swap>> PROVE SwapInv'
  BY <1>0, <1>s DEF SwapInv
<1>f. ASSUME UNCHANGED <<direction, flip>> PROVE FlipInv'
  BY <1>0, <1>f DEF FlipInv, inputToken, outputToken
<1>t. ASSUME UNCHANGED <<env, balances>>, direction' \in {"buy", "sell"}, amountIn' \in Nat,
             slippage' \in {AutoSlippage} \cup (SlippageMin..SlippageMax), QuoteEffect
      PROVE  FormType' /\ QuoteFollowsForm' /\ QuoteInv'
  <2>1. inputToken' \in Tokens
    BY <1>t DEF inputToken, InputTokenForDirection, Tokens
  <2>2. amountRaw' \in Nat
    BY <1>t, <2>1, TypedIsNat DEF amountRaw
  <2> QED
    BY <1>0, <1>t, <2>2, EffectKeepsQuote DEF FormType
<1>1. CASE TypeAmount
  <2>1. amountIn' \in Nat
    <3>1. PICK text \in TypedAmounts :
             amountIn' = SanitizeDecimalInput(text, Decimals[inputToken])
      BY <1>1 DEF TypeAmount, Typed
    <3> QED
      BY <1>0, <3>1, TypedIsNat, SwapFormAssumption
  <2>2. /\ UNCHANGED <<env, swap, balances, direction, flip, slippage>> /\ QuoteEffect
    BY <1>1 DEF TypeAmount, Edit, funds
  <2> QED
    BY <1>0, <1>s, <1>f, <1>t, <2>1, <2>2 DEF FormInv, FormType
<1>2. CASE SetMax
  <2>1. amountIn' \in Nat
    <3>1. Spendable(inputToken) \in Nat
      <4>1. balances.values[inputToken] \in Nat
        BY <1>0 DEF FormType
      <4> QED
        BY <4>1, SwapFormAssumption DEF Spendable
    <3> QED
      BY <1>0, <1>2, <3>1, RawThereAndBack DEF SetMax, Typed
  <2>2. /\ UNCHANGED <<env, swap, balances, direction, flip, slippage>> /\ QuoteEffect
    BY <1>2 DEF SetMax, Edit, funds
  <2> QED
    BY <1>0, <1>s, <1>f, <1>t, <2>1, <2>2 DEF FormInv, FormType
<1>3. CASE SetSlippage
  <2>1. slippage' \in {AutoSlippage} \cup (SlippageMin..SlippageMax)
    BY <1>3, SwapFormAssumption DEF SetSlippage, ClampSlippage
  <2>2. /\ UNCHANGED <<env, swap, balances, direction, flip, amountIn>> /\ QuoteEffect
    BY <1>3 DEF SetSlippage, Edit, funds
  <2> QED
    BY <1>0, <1>s, <1>f, <1>t, <2>1, <2>2 DEF FormInv, FormType
<1>4. CASE StartFlip
  <2>1. /\ UNCHANGED <<env, swap, balances, direction, amountIn, slippage,
                       quoteState, debounce, fetches>>
        /\ flip' = [amount |-> FlippedAmount, pending |-> TRUE,
                    deal |-> IF quoteState.status = "ready"
                                /\ quoteState.of.inputMint = inputToken
                             THEN quoteState.quote ELSE <<>>]
    BY <1>4 DEF StartFlip, Edit, quoting, funds
  <2>2. QuoteFollowsForm' /\ QuoteInv' /\ SwapInv' /\ FormType'
    BY <1>0, <1>s, <2>1, FormUntouched DEF FormType
  <2>3. FlipInv'
    <3>1. inputToken' = inputToken /\ outputToken' = outputToken
      BY <2>1 DEF inputToken, outputToken
    <3>2. CASE quoteState.status # "ready"
      BY <2>1, <3>2 DEF FlipInv, FlippedAmount, NoAmount
    <3>3. CASE quoteState.status = "ready"
      <4> DEFINE q == quoteState.quote
      <4>1. /\ quoteState.of \in ParamsType
            /\ q.inputMint = quoteState.of.inputMint
            /\ q.outputMint = quoteState.of.outputMint
            /\ q.outAmount \in Nat
        BY <3>3 DEF FormInv, QuoteInv, QuotesFor
      <4>o. /\ quoteState.of.outputMint \in Tokens
            /\ quoteState.of.inputMint # quoteState.of.outputMint
        BY <4>1 DEF ParamsType
      <4>m. q.inputMint = inputToken => q.outputMint = outputToken
        BY <1>0, <4>1, <4>o, TokensAre DEF Tokens
      <4>2. flip'.amount \in Nat
            /\ flip'.amount = RawToDecimalAmount(q.outAmount, Decimals[outputToken],
                                                 Decimals[outputToken])
        BY <1>0, <2>1, <3>3, <4>1, RawThereAndBack DEF FlippedAmount
      <4> QED
        BY <2>1, <3>1, <3>3, <4>1, <4>m, <4>2 DEF FlipInv
    <3> QED
      BY <3>2, <3>3
  <2> QED
    BY <2>2, <2>3 DEF FormInv
<1>5. CASE FlipFires
  <2>1. /\ UNCHANGED <<env, swap, balances, slippage>> /\ QuoteEffect
        /\ flip' = NoFlip /\ amountIn' = flip.amount
        /\ direction' \in {"buy", "sell"}
    BY <1>5 DEF FlipFires, Typed, funds
  <2>2. amountIn' \in Nat
    BY <1>0, <2>1 DEF FlipInv
  <2>3. FlipInv'
    BY <2>1 DEF FlipInv, NoFlip, NoAmount
  <2> QED
    BY <1>0, <1>s, <1>t, <2>1, <2>2, <2>3 DEF FormInv, FormType
<1> QED
  BY <1>1, <1>2, <1>3, <1>4, <1>5

LEMMA QuotesKeepForm ==
    ASSUME FormInv, DebounceFires \/ QuoteArrives
    PROVE  FormInv'
<1>1. UNCHANGED <<env, wallet, direction, amountIn, slippage, flip, balances, swap>>
  BY DEF DebounceFires, QuoteArrives, form, funds, action
<1>2. /\ Params' = Params /\ amountRaw' = amountRaw
      /\ inputToken' = inputToken /\ outputToken' = outputToken
  BY <1>1 DEF Params, amountRaw, slippageBps, inputToken, outputToken
<1>3. FlipInv' /\ SwapInv'
  BY <1>1, <1>2 DEF FormInv, FlipInv, SwapInv
<1>4. debounce' \in BOOLEAN
  BY DEF FormInv, FormType, DebounceFires, QuoteArrives
<1>5. FormType'
  BY <1>1, <1>4 DEF FormInv, FormType
<1>6. FormType /\ Params \in ParamsType
  BY TokensAre DEF FormInv
<1>7. CASE DebounceFires
  <2>1. /\ debounce /\ ~debounce' /\ fetches' = fetches \cup {Params}
        /\ quoteState' = [status |-> "loading"]
    BY <1>7 DEF DebounceFires
  <2>2. fetches = {} /\ amountRaw # NoAmount
    BY <2>1 DEF FormInv, QuoteFollowsForm
  <2>3. ValidQuoteQuery(Params)
    BY <1>6, <2>2, TokensAre DEF ValidQuoteQuery, Params, NoAmount
  <2>4. QuoteFollowsForm' /\ QuoteInv'
    BY <1>2, <2>1, <2>2, <2>3 DEF QuoteFollowsForm, QuoteInv
  <2> QED
    BY <1>3, <1>5, <2>4 DEF FormInv
<1>8. CASE QuoteArrives
  <2>p. PICK p \in fetches :
           /\ fetches' = fetches \ {p} /\ UNCHANGED debounce
           /\ \E a \in Fetched(QuoteAnswers(env, p)) : quoteState' = Answered(p, a)
    BY <1>8 DEF QuoteArrives
  <2>1. PICK a \in Fetched(QuoteAnswers(env, p)) : quoteState' = Answered(p, a)
    BY <2>p
  <2>2. /\ p = Params /\ fetches = {Params} /\ fetches' = {}
        /\ ~debounce /\ amountRaw # NoAmount
    <3>1. p = Params /\ fetches = {Params}
      BY <2>p DEF FormInv, QuoteFollowsForm
    <3>2. ~debounce
      BY <3>1 DEF FormInv, QuoteFollowsForm
    <3>3. amountRaw # NoAmount
      BY <1>6, <3>1, TokensAre DEF FormInv, QuoteFollowsForm, ValidQuoteQuery, Params, NoAmount
    <3> QED
      BY <2>p, <3>1, <3>2, <3>3
  <2>3. /\ quoteState'.status \in {"ready", "error"} /\ quoteState'.of = Params
        /\ quoteState'.status = "ready" => quoteState'.quote \in QuotesFor(Params)
    <3>1. CASE a.status = 200
      BY <1>6, <2>1, <2>2, <3>1, QuoteAnswersAre DEF Answered, Ready
    <3>2. CASE a.status # 200
      BY <2>1, <2>2, <3>2 DEF Answered, QuoteError
    <3> QED
      BY <3>1, <3>2
  <2>4. QuoteFollowsForm' /\ QuoteInv'
    BY <1>2, <1>6, <2>p, <2>2, <2>3 DEF QuoteFollowsForm, QuoteInv
  <2> QED
    BY <1>3, <1>5, <2>4 DEF FormInv
<1> QED
  BY <1>7, <1>8

LEMMA BalancesKeepForm ==
    ASSUME FormInv, Connect \/ Disconnect \/ BalancesArrive
    PROVE  FormInv'
<1>1. UNCHANGED <<env, direction, amountIn, slippage, flip, quoteState, debounce, fetches, swap>>
  BY DEF Connect, Disconnect, BalancesArrive, Edit, form, quoting, action
<1>2. QuoteFollowsForm' /\ QuoteInv'
  BY <1>1, FormUntouched
<1>3. FlipInv' /\ SwapInv'
  BY <1>1 DEF FormInv, FlipInv, SwapInv, inputToken, outputToken
<1>4. balances' \in [loading : BOOLEAN, values : [Tokens -> Nat]]
  <2>1. CASE Connect
    <3>1. balances' = [balances EXCEPT !.loading = TRUE]
      BY <2>1 DEF Connect, Refresh
    <3> QED
      BY <3>1 DEF FormInv, FormType
  <2>2. CASE Disconnect
    BY <2>2 DEF Disconnect, NoBalances
  <2>3. CASE BalancesArrive
    <3>1. PICK v \in [Tokens -> UNION {Holdings[t] : t \in Tokens} \cup {0}] :
             /\ \A t \in Tokens : v[t] \in Holdings[t] \cup {0}
             /\ balances' = [loading |-> FALSE, values |-> v]
      BY <2>3 DEF BalancesArrive
    <3>2. v \in [Tokens -> Nat]
      BY <3>1, SwapFormAssumption
    <3> QED
      BY <3>1, <3>2
  <2> QED
    BY <2>1, <2>2, <2>3
<1>5. FormType'
  BY <1>1, <1>4 DEF FormInv, FormType
<1> QED
  BY <1>2, <1>3, <1>5 DEF FormInv

\* The button takes the quote shown; what it asks of the relay is well formed, and,
\* with nothing pending, the quote is one of the form's own tokens and slippage.
LEMMA PressKeepsSwap ==
    ASSUME FormInv, Press
    PROVE  SwapInv'
<1>1. CASE UNCHANGED <<env, swap>>
  BY <1>1 DEF FormInv, SwapInv
<1>2. CASE ~UNCHANGED <<env, swap>>
  <2> DEFINE q == quoteState.quote
             r == [user |-> wallet, inputMint |-> inputToken, outputMint |-> outputToken,
                   inputAmount |-> q.inAmount, minOutputAmount |-> q.otherAmountThreshold,
                   maxSlippageBps |-> ExecSlippageBps]
  <2>1. /\ env' = env /\ amountRaw # NoAmount /\ quoteState.status = "ready"
        /\ q.inAmount = amountRaw
        /\ swap' = [stage |-> "preparing", form |-> Params, atRest |-> ~debounce,
                    quote |-> q, prepared |-> <<>>, request |-> r]
    BY <1>2 DEF Press, form, QuoteIsStale
  <2>2. /\ FormType /\ amountRaw \in Nat /\ slippageBps \in 0..MAX_SLIPPAGE_BPS
        /\ debounce \in BOOLEAN /\ env.fork \in BOOLEAN
    BY TokensAre, SwapFormAssumption DEF FormInv, FormType
  <2>3. /\ quoteState.of \in ParamsType
        /\ q \in QuotesFor(quoteState.of)
    BY <2>1 DEF FormInv, QuoteInv
  <2>4. /\ q.otherAmountThreshold \in Nat /\ q.slippageBps \in 0..MAX_SLIPPAGE_BPS
        /\ q.inputMint = quoteState.of.inputMint /\ q.outputMint = quoteState.of.outputMint
        /\ quoteState.of.slippageBps > 0 => q.slippageBps = quoteState.of.slippageBps
    BY <2>3 DEF QuotesFor
  <2> HIDE DEF q
  <2>5. ExecSlippageBps \in 0..MAX_SLIPPAGE_BPS
    BY <2>2, <2>4, SwapFormAssumption DEF ExecSlippageBps, q
  <2>6. ValidPrepareBody(r)
    BY <2>1, <2>2, <2>4, <2>5 DEF ValidPrepareBody, NoAmount
  <2>7. ASSUME ~debounce
        PROVE  /\ q.inputMint = inputToken /\ q.outputMint = outputToken
               /\ ~env.fork => ExecSlippageBps = q.slippageBps
    <3>1. quoteState.of = Params
      BY <2>1, <2>7 DEF FormInv, QuoteFollowsForm
    <3>2. /\ quoteState.of.inputMint = inputToken /\ quoteState.of.outputMint = outputToken
          /\ quoteState.of.slippageBps = slippageBps
      BY <3>1 DEF Params
    <3>3. slippage # AutoSlippage => slippageBps > 0
      BY <2>2, SwapFormAssumption DEF FormType, slippageBps
    <3>4. ~env.fork => ExecSlippageBps = q.slippageBps
      BY <2>4, <3>2, <3>3 DEF ExecSlippageBps, q
    <3> QED
      BY <2>4, <3>2, <3>4
  <2>8. /\ Params.inputMint = inputToken /\ Params.outputMint = outputToken
        /\ Params.amount = amountRaw
    BY DEF Params
  <2>9. /\ r.inputMint = inputToken /\ r.outputMint = outputToken
        /\ r.inputAmount = q.inAmount /\ r.maxSlippageBps = ExecSlippageBps
    OBVIOUS
  <2> HIDE DEF r
  <2>10. /\ swap'.stage = "preparing" /\ swap'.form = Params /\ swap'.quote = q
         /\ swap'.request = r /\ (swap'.atRest <=> ~debounce)
    BY <2>1, <2>2
  <2> QED
    BY <2>1, <2>6, <2>7, <2>8, <2>9, <2>10 DEF SwapInv
<1> QED
  BY <1>1, <1>2

LEMMA SwapKeepsForm ==
    ASSUME FormInv, Press \/ PrepareArrives \/ Sign \/ Simulate \/ SwapEnds
    PROVE  FormInv'
<1>1. UNCHANGED <<env, direction, amountIn, slippage, flip, quoteState, debounce, fetches>>
  BY DEF Press, PrepareArrives, Sign, Simulate, SwapEnds, Ongoing, form, quoting
<1>2. QuoteFollowsForm' /\ QuoteInv'
  BY <1>1, FormUntouched
<1>3. FlipInv'
  BY <1>1 DEF FormInv, FlipInv, inputToken, outputToken
<1>4. FormType'
  <2>1. balances' \in {balances, [balances EXCEPT !.loading = TRUE]}
    BY DEF Press, PrepareArrives, Sign, Simulate, SwapEnds, Ongoing, funds, Refresh
  <2>2. balances' \in [loading : BOOLEAN, values : [Tokens -> Nat]]
    BY <2>1 DEF FormInv, FormType
  <2> QED
    BY <1>1, <2>2 DEF FormInv, FormType
<1>5. SwapInv'
  <2>1. CASE swap' = NotSwapping
    BY <2>1 DEF SwapInv, NotSwapping
  <2>2. CASE Press
    BY <2>2, PressKeepsSwap
  <2>3. CASE PrepareArrives /\ swap' # NotSwapping
    <3>1. PICK a \in Fetched(PrepareAnswers(env, swap.request)) :
             /\ a.status = 200 /\ swap.stage = "preparing"
             /\ swap' = [swap EXCEPT !.stage = "signing", !.prepared = a.swap]
      BY <2>3 DEF PrepareArrives, Ongoing, GiveUp
    <3>2. /\ a.swap.request = swap.request
          /\ a.swap.instructions = Instructions(env, swap.request)
      BY <3>1, PrepareAnswersAre
    <3> QED
      BY <1>1, <3>1, <3>2 DEF FormInv, SwapInv
  <2>4. CASE (Sign \/ Simulate) /\ swap' # NotSwapping
    <3>1. /\ swap.stage \in {"signing", "simulating"}
          /\ \E to \in {"simulating", "submitted"} : swap' = [swap EXCEPT !.stage = to]
      BY <2>4 DEF Sign, Simulate, Ongoing, GiveUp
    <3> QED
      BY <1>1, <3>1 DEF FormInv, SwapInv
  <2>5. CASE SwapEnds
    BY <2>1, <2>5 DEF SwapEnds, GiveUp
  <2> QED
    BY <2>1, <2>2, <2>3, <2>4, <2>5
<1> QED
  BY <1>2, <1>3, <1>4, <1>5 DEF FormInv

LEMMA StepKeepsForm == FormInv /\ [Next]_vars => FormInv'
<1> SUFFICES ASSUME FormInv, [Next]_vars PROVE FormInv'
  OBVIOUS
<1>1. CASE UNCHANGED vars
  <2>1. UNCHANGED <<env, direction, amountIn, slippage, flip, quoteState, debounce,
                    fetches, balances, swap>>
    BY <1>1 DEF vars, form, quoting, funds, action
  <2>2. QuoteFollowsForm' /\ QuoteInv'
    BY <2>1, FormUntouched
  <2> QED
    BY <2>1, <2>2
       DEF FormInv, FormType, FlipInv, SwapInv, inputToken, outputToken
<1> QED
  BY <1>1, EditsKeepForm, QuotesKeepForm, BalancesKeepForm, SwapKeepsForm DEF Next

LEMMA SiteKeepsForm == SiteSpec => []FormInv
<1>1. SiteInit => FormInv
  BY InitForm DEF SiteInit
<1>2. [SiteNext]_siteVars => [Next]_vars
  BY DEF SiteNext, VisitLanding, OpenSwapPage, OnSwapPage, siteVars
<1> QED
  BY <1>1, <1>2, StepKeepsForm, PTL DEF SiteSpec

\* The quote shown answers the form, through every order of edits, timers and
\* answers (swap-card.tsx, the quote effect).
THEOREM QuoteFollowsFormAlways == SiteSpec => []QuoteFollowsForm
<1>1. FormInv => QuoteFollowsForm
  BY DEF FormInv
<1> QED
  BY <1>1, SiteKeepsForm, PTL

\* What the user signs is the swap the form showed when the button was pressed
\* (swap-card.tsx, handleAction; prepare.service.ts).
THEOREM PreparedFromItsQuoteAlways == SiteSpec => []PreparedFromItsQuote
<1>1. FormInv => PreparedFromItsQuote
  <2> SUFFICES ASSUME FormInv PROVE PreparedFromItsQuote
    OBVIOUS
  <2>1. /\ env \in Environments /\ SwapInv
    BY DEF FormInv, FormType
  <2>2. ASSUME swap.stage \in {"signing", "simulating", "submitted"}
        PROVE  /\ swap.stage # "idle"
               /\ swap.prepared.request = swap.request
               /\ swap.prepared.instructions = Instructions(env, swap.request)
    BY <2>1, <2>2 DEF SwapInv
  <2>3. LET wraps == Wraps(Instructions(env, swap.request))
        IN  /\ env.mockJupiter /\ ~env.mockJito => wraps = {}
            /\ ~env.mockJupiter \/ env.mockJito =>
                 Cardinality(wraps) = IF swap.request.inputMint = "SOL" THEN 1 ELSE 0
    BY <2>1, WrapsOnce
  <2> QED
    BY <2>1, <2>2, <2>3 DEF PreparedFromItsQuote, SwapInv, Wraps
<1> QED
  BY <1>1, SiteKeepsForm, PTL

\* A flip offers what the quote promised, to the last raw unit (swap-card.tsx,
\* flipTokens, rawToDecimalAmount).
THEOREM FlipKeepsTheDealAlways == SiteSpec => FlipKeepsTheDeal
<1>1. ASSUME FormInv, FlipFires, flip.deal # <<>>
      PROVE  /\ inputToken' = flip.deal.outputMint /\ outputToken' = flip.deal.inputMint
             /\ amountRaw' = flip.deal.outAmount
  <2>1. /\ FormType /\ outputToken \in Tokens
        /\ flip.deal.inputMint = inputToken /\ flip.deal.outputMint = outputToken
        /\ flip.deal.outAmount \in Nat
        /\ flip.amount = RawToDecimalAmount(flip.deal.outAmount,
                             Decimals[outputToken], Decimals[outputToken])
    BY <1>1, TokensAre DEF FormInv, FlipInv
  <2>2. inputToken' = outputToken /\ outputToken' = inputToken
    BY <1>1, <2>1 DEF FlipFires, FormType, inputToken, outputToken,
       InputTokenForDirection, OutputTokenForDirection
  <2>3. amountRaw' = DecimalToRawAmount(flip.amount, Decimals[outputToken])
    BY <1>1, <2>2 DEF FlipFires, Typed, amountRaw
  <2> QED
    BY <2>1, <2>2, <2>3, RawThereAndBack
<1>2. FormInv /\ [SiteNext]_siteVars =>
        [FlipFires /\ flip.deal # <<>> =>
           /\ inputToken' = flip.deal.outputMint /\ outputToken' = flip.deal.inputMint
           /\ amountRaw' = flip.deal.outAmount]_vars
  BY <1>1
<1> QED
  BY <1>2, SiteKeepsForm, PTL DEF SiteSpec, FlipKeepsTheDeal

-----------------------------------------------------------------------------
\* The two instances of Waitlist are one.
LEMMA SameInit == Landing!Init => Joined!Init
  BY DEF Landing!Init, Joined!Init, Landing!Closed, Joined!Closed, Landing!NotJoined,
         Joined!NotJoined, Landing!Browsers, Joined!Browsers

\* A step of the landing page is a step of the waitlist; leaving the page is a
\* new beginning.
LEMMA SiteStep == [SiteNext]_siteVars => [Landing!Next]_landing \/ Landing!Init'
<1> SUFFICES ASSUME [SiteNext]_siteVars PROVE [Landing!Next]_landing \/ Landing!Init'
  OBVIOUS
<1>1. CASE VisitLanding
  BY <1>1 DEF VisitLanding
<1>2. CASE OpenSwapPage
  BY <1>2 DEF OpenSwapPage, Landing!Init
<1>3. CASE OnSwapPage(Next)
  BY <1>3 DEF OnSwapPage
<1>4. CASE UNCHANGED siteVars
  BY <1>4 DEF siteVars
<1> QED
  BY <1>1, <1>2, <1>3, <1>4 DEF SiteNext

LEMMA SamePromise == Joined!PromisedIsListed => PromisedIsListed
  BY DEF PromisedIsListed, Landing!PromisedIsListed, Joined!PromisedIsListed,
         Landing!NotJoined, Joined!NotJoined, Landing!Rows, Joined!Rows,
         Landing!Cardinality, Joined!Cardinality

LEMMA SameNext == [Landing!Next]_landing => [Joined!Next]_(Joined!vars)
<1> USE DEF Landing!NotJoined, Joined!NotJoined, Landing!NoName, Joined!NoName,
            Landing!Rows, Joined!Rows, Landing!Texts, Joined!Texts,
            Landing!Unanswered, Joined!Unanswered, Landing!Shows, Joined!Shows
<1>1. ASSUME NEW p \in Pages
      PROVE  /\ Landing!Load(p) => Joined!Load(p)
             /\ Landing!CloseDialog(p) => Joined!CloseDialog(p)
             /\ Landing!Refuse(p) => Joined!Refuse(p)
             /\ Landing!Submit(p) => Joined!Submit(p)
             /\ Landing!LookUp(p) => Joined!LookUp(p)
  BY DEF Landing!Load, Joined!Load, Landing!CloseDialog, Joined!CloseDialog,
         Landing!Refuse, Joined!Refuse, Landing!Submit, Joined!Submit,
         Landing!LookUp, Joined!LookUp
<1>2. ASSUME NEW p \in Pages
      PROVE  /\ Landing!Update(p) => Joined!Update(p)
             /\ Landing!Insert(p) => Joined!Insert(p)
  BY DEF Landing!Update, Joined!Update, Landing!Insert, Joined!Insert,
         Landing!Answered, Joined!Answered, Landing!Conflicts, Joined!Conflicts
<1> QED
  BY <1>1, <1>2 DEF Landing!Next, Joined!Next, landing, Joined!vars

\* An address that a page shows is on the list, once (hero.tsx:192,
\* waitlist.service.ts), on every visit to the site.
THEOREM SiteKeepsItsPromise == SiteSpec => []PromisedIsListed
<1>1. SiteInit => Landing!Init
  BY DEF SiteInit
<1> QED
  BY <1>1, SameInit, SiteStep, SameNext, SamePromise, Joined!WaitlistInvInit,
     Joined!WaitlistInvNext, Joined!InvKeepsPromise, PTL DEF SiteSpec
=============================================================================
