---------------------------- MODULE TokenAmounts ----------------------------
(***************************************************************************)
(* The two tokens of the swap form and the conversions between what the    *)
(* user reads and raw amounts (client/src/lib/flowback-relay.ts).  A       *)
(* decimal text is the number it denotes, in units of the last digit       *)
(* either token has; the empty text is 0.                                  *)
(***************************************************************************)
EXTENDS Integers

CONSTANTS
    Decimals,       \* of each token: 9 and 6 in the code
    DisplayDecimals \* the digits shown: 6 and 2 in the code

Tokens == {"SOL", "USDC"}

ASSUME TokenAssumption ==
    /\ Decimals \in [Tokens -> Nat]
    /\ DisplayDecimals \in [Tokens -> Nat]
    /\ \A t \in Tokens : DisplayDecimals[t] <= Decimals[t]

Digits == IF Decimals["SOL"] > Decimals["USDC"] THEN Decimals["SOL"] ELSE Decimals["USDC"]

PowerOfTen[n \in Nat] == IF n = 0 THEN 1 ELSE 10 * PowerOfTen[n - 1]

\* One raw unit of a token with d decimals.
RawUnit(d) == PowerOfTen[Digits - d]

InputTokenForDirection(direction) == IF direction = "buy" THEN "USDC" ELSE "SOL"
OutputTokenForDirection(direction) == IF direction = "buy" THEN "SOL" ELSE "USDC"

\* Digits the token does not have are cut off.
SanitizeDecimalInput(text, d) == text - (text % RawUnit(d))

NoAmount == 0

\* null for zero and for a text with more digits than the token has.
DecimalToRawAmount(text, d) ==
    IF text % RawUnit(d) # 0 THEN NoAmount ELSE text \div RawUnit(d)

\* At most maxFractionDigits are kept, the rest cut off.
RawToDecimalAmount(raw, d, maxFractionDigits) ==
    (raw \div PowerOfTen[d - maxFractionDigits]) * RawUnit(maxFractionDigits)

FormatRawTokenAmount(raw, token) ==
    RawToDecimalAmount(raw, Decimals[token], DisplayDecimals[token])
=============================================================================
