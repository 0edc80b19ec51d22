------------------------------ MODULE Waitlist ------------------------------
(***************************************************************************)
(* Joining the waitlist: the landing page's dialog                         *)
(* (client/src/components/flowback/hero.tsx), POST /waitlist               *)
(* (controllers/waitlist.controller.ts, services/waitlist.service.ts) and  *)
(* the waitlist_signups table.                                             *)
(*                                                                         *)
(* Several pages are open, in one browser or in several, and the service   *)
(* awaits the database between looking an address up and writing it.  A    *)
(* text is an address as typed; its spellings are one address to the       *)
(* relay.                                                                  *)
(***************************************************************************)
EXTENDS Naturals, FiniteSets

CONSTANTS
    Pages,
    BrowserOf,      \* the browser, with its localStorage, of each page
    AddressOf,      \* each text a visitor may type, trimmed and in lower case
    Addresses,      \* those parseWaitlistRequest accepts
    Names,          \* what a visitor may call himself
    MaxSubmits      \* bound on submissions

VARIABLES
    signups,    \* waitlist_signups
    hero,       \* each page: the form, the request it waits for, what it says
    stored,     \* localStorage's "flowback_waitlist" of each browser
    submits

vars == <<signups, hero, stored, submits>>

Texts == DOMAIN AddressOf
Browsers == {BrowserOf[p] : p \in Pages}

NoName == "no name"
NotJoined == [email |-> "none", alreadyJoined |-> FALSE]
Closed == [at |-> "closed", says |-> "nothing", result |-> NotJoined]

Init ==
    /\ signups = {}
    /\ hero = [p \in Pages |-> Closed]
    /\ stored = [b \in Browsers |-> NotJoined]
    /\ submits = 0

----------------------------------------------------------------------------
(* The page *)

Unanswered(p) == hero[p].at \in {"sent", "absent", "present"}

Shows(p, says, result) ==
    hero' = [hero EXCEPT ![p] = [at |-> "open", says |-> says, result |-> result]]

\* A page that loads, or is loaded again, shows what the browser has stored.
Load(p) ==
    /\ ~Unanswered(p)
    /\ Shows(p, "nothing", stored[BrowserOf[p]])
    /\ UNCHANGED <<signups, stored, submits>>

\* handleSubmit: the form is there unless the page knows a result.
Submit(p) ==
    /\ hero[p].at = "open" /\ hero[p].result = NotJoined
    /\ submits < MaxSubmits /\ submits' = submits + 1
    /\ \E text \in Texts, name \in Names \cup {NoName} :
        hero' = [hero EXCEPT ![p] =
            [at |-> "sent", says |-> "joining", result |-> NotJoined,
             email |-> AddressOf[text], name |-> name]]
    /\ UNCHANGED <<signups, stored>>

\* The error is cleared with the dialog.
CloseDialog(p) ==
    /\ hero[p].says = "error"
    /\ Shows(p, "nothing", hero[p].result)
    /\ UNCHANGED <<signups, stored, submits>>

\* The answer arrives, or not; storage that is full or denied makes an error
\* of an answer.
Answered(p, row) ==
    LET answer == [email |-> row.email, alreadyJoined |-> row.alreadyJoined]
    IN  \/ Shows(p, "joined", answer) /\ stored' = [stored EXCEPT ![BrowserOf[p]] = answer]
        \/ Shows(p, "error", NotJoined) /\ UNCHANGED stored

\* A malformed address, the rate limit, a query that failed, or a request that
\* did not reach the relay.
Refuse(p) ==
    /\ Unanswered(p)
    /\ Shows(p, "error", NotJoined)
    /\ UNCHANGED <<signups, stored, submits>>

----------------------------------------------------------------------------
(* The relay *)

Rows(email) == {row \in signups : row.email = email}

\* joinWaitlist's first query; the row it found is kept for the update.
LookUp(p) ==
    /\ hero[p].at = "sent"
    /\ hero[p].email \in Addresses
    /\ IF Rows(hero[p].email) = {} THEN hero' = [hero EXCEPT ![p].at = "absent"]
       ELSE \E row \in Rows(hero[p].email) :
            hero' = [hero EXCEPT ![p].at = "present",
                                 ![p].name = IF @ = NoName THEN row.name ELSE @]
    /\ UNCHANGED <<signups, stored, submits>>

\* The update of an address that was there.
Update(p) ==
    /\ hero[p].at = "present"
    /\ signups' = (signups \ Rows(hero[p].email)) \cup
                    {[row EXCEPT !.name = hero[p].name] : row \in Rows(hero[p].email)}
    /\ Answered(p, [email |-> hero[p].email, alreadyJoined |-> TRUE])
    /\ UNCHANGED submits

ConflictsWithNothing(email) == FALSE

\* The email column is unique.
Conflicts(email) == Rows(email) # {}

\* The insert, under an id of its own; when another request was faster it
\* throws, and the answer is 500.
Insert(p) ==
    /\ hero[p].at = "absent"
    /\ IF Conflicts(hero[p].email)
       THEN Shows(p, "error", NotJoined) /\ UNCHANGED <<signups, stored>>
       ELSE /\ signups' = signups \cup {[id |-> p, email |-> hero[p].email, name |-> hero[p].name]}
            /\ Answered(p, [email |-> hero[p].email, alreadyJoined |-> FALSE])
    /\ UNCHANGED submits

Next ==
    \E p \in Pages :
        \/ Load(p) \/ Submit(p) \/ CloseDialog(p) \/ Refuse(p)
        \/ LookUp(p) \/ Update(p) \/ Insert(p)

Spec == Init /\ [][Next]_vars

----------------------------------------------------------------------------
\* "We'll reach out at ... when access opens" (hero.tsx:192): an address a page
\* shows is on the list, once, however many pages and browsers joined with it
\* at the same time or again; and one browser at most was told it is new there.
PromisedIsListed ==
    \A p \in Pages :
        hero[p].result # NotJoined =>
            /\ Cardinality(Rows(hero[p].result.email)) = 1
            /\ \A q \in Pages :
                /\ hero[q].result = hero[p].result /\ ~hero[p].result.alreadyJoined
                => BrowserOf[q] = BrowserOf[p]
=============================================================================
