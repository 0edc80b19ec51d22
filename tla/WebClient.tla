------------------------------ MODULE WebClient ------------------------------
(***************************************************************************)
(* A visit to the site (client/src/app): the landing page with its         *)
(* waitlist, then the swap page with its card.                             *)
(***************************************************************************)
EXTENDS SwapForm

CONSTANTS Pages, BrowserOf, AddressOf, Addresses, Names, MaxSubmits

ASSUME WaitlistAssumption ==
    Addresses \subseteq {AddressOf[t] : t \in DOMAIN AddressOf} /\ MaxSubmits \in Nat

VARIABLES
    visiting,   \* "landing", then "swap"
    signups, hero, stored, submits

landing == <<signups, hero, stored, submits>>
siteVars == <<vars, visiting, landing>>

Landing == INSTANCE Waitlist

SiteInit == Init /\ Landing!Init /\ visiting = "landing"

VisitLanding ==
    /\ visiting = "landing"
    /\ Landing!Next
    /\ UNCHANGED <<vars, visiting>>

\* The visitor goes to the swap page, whose card is mounted.  The waitlist is
\* not followed any further: its state is dropped.
OpenSwapPage ==
    /\ visiting = "landing"
    /\ visiting' = "swap"
    /\ signups' = {}
    /\ hero' = [p \in Pages |-> Landing!Closed]
    /\ stored' = [b \in Landing!Browsers |-> Landing!NotJoined]
    /\ submits' = 0
    /\ UNCHANGED vars

OnSwapPage(A) == visiting = "swap" /\ A /\ UNCHANGED <<visiting, landing>>

SiteNext == VisitLanding \/ OpenSwapPage \/ OnSwapPage(Next)

\* Timers fire, and every request is answered or fails.
SiteSpec ==
    /\ SiteInit /\ [][SiteNext]_siteVars
    /\ WF_siteVars(OnSwapPage(DebounceFires))
    /\ WF_siteVars(OnSwapPage(QuoteArrives))
    /\ WF_siteVars(OnSwapPage(FlipFires))

----------------------------------------------------------------------------
\* What the landing page promises to visitors who join the waitlist.
PromisedIsListed == Landing!PromisedIsListed

\* A form left alone comes to rest: with a quote, with a refusal, or without
\* an amount, never on "Fetching...".
QuoteComes == visiting = "swap" ~> []AtRest
=============================================================================
