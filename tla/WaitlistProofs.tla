--------------------------- MODULE WaitlistProofs ---------------------------
(***************************************************************************)
(* The landing page keeps its promise for any pages, browsers and          *)
(* addresses, although the relay looks an address up and writes it in two  *)
(* steps: the unique column decides between two inserts, and a row that    *)
(* was found is never deleted.                                             *)
(***************************************************************************)
EXTENDS Waitlist, FiniteSetTheorems, TLAPS

Emails == {AddressOf[t] : t \in Texts} \cup {"none"}
Results == [email : Emails, alreadyJoined : BOOLEAN]
Says == {"nothing", "joining", "joined", "error"}
CalledNames == Names \cup {NoName}

WaitlistType ==
    /\ signups \subseteq [id : Pages, email : Emails, name : CalledNames]
    /\ hero \in [Pages ->
            [at : {"closed", "open"}, says : Says, result : Results] \cup
            [at : {"sent", "absent", "present"}, says : Says, result : {NotJoined},
             email : Emails, name : CalledNames]]
    /\ stored \in [Browsers -> Results]

OneRowEach == \A r, s \in signups : r.email = s.email => r = s

IsListed(email) == \E row \in signups : row.email = email

\* Nobody knows of a result whose address is not on the list.
ResultsListed ==
    /\ \A p \in Pages : hero[p].result # NotJoined => IsListed(hero[p].result.email)
    /\ \A b \in Browsers : stored[b] # NotJoined => IsListed(stored[b].email)
    /\ \A p \in Pages : hero[p].at = "present" => IsListed(hero[p].email)

Knows(b, result) ==
    \/ stored[b] = result
    \/ \E p \in Pages : BrowserOf[p] = b /\ hero[p].result = result

\* One browser knows of the answer to an insert.
ToldOnce ==
    \A result \in Results \ {NotJoined} : \A b, c \in Browsers :
        ~result.alreadyJoined /\ Knows(b, result) /\ Knows(c, result) => b = c

WaitlistInv == WaitlistType /\ OneRowEach /\ ResultsListed /\ ToldOnce

\* Nobody has joined yet.
LEMMA WaitlistInvInit == Init => WaitlistInv
<1> SUFFICES ASSUME Init PROVE WaitlistInv
  OBVIOUS
<1>1. NotJoined \in Results
  BY DEF NotJoined, Results, Emails
<1>2. \A p \in Pages : hero[p] = Closed
  BY DEF Init
<1>3. \A b \in Browsers : stored[b] = NotJoined
  BY DEF Init
<1>4. WaitlistType
  BY <1>1 DEF Init, WaitlistType, Closed, Says
<1>5. OneRowEach /\ ResultsListed
  BY <1>2, <1>3 DEF Init, OneRowEach, ResultsListed, Closed
<1>6. ToldOnce
  BY <1>2, <1>3 DEF ToldOnce, Knows, Closed
<1> QED
  BY <1>4, <1>5, <1>6 DEF WaitlistInv

\* A page that shows what its browser knows, or nothing, while rows stay,
\* breaks no promise.
LEMMA NothingNew ==
    ASSUME WaitlistInv, NEW p \in Pages, signups' = signups, stored' = stored,
           WaitlistType',
           \A q \in Pages \ {p} : hero'[q] = hero[q],
           hero'[p].result \in {NotJoined, hero[p].result, stored[BrowserOf[p]]},
           hero'[p].at = "present" => IsListed(hero'[p].email)
    PROVE  WaitlistInv'
<1>1. OneRowEach'
  BY DEF WaitlistInv, OneRowEach
<1>2. BrowserOf[p] \in Browsers
  BY DEF Browsers
<1>3. ResultsListed'
  BY <1>2 DEF WaitlistInv, ResultsListed, IsListed
<1>4. \A result \in Results \ {NotJoined} : \A b \in Browsers :
        Knows(b, result)' => Knows(b, result)
  BY <1>2 DEF Knows
<1>5. ToldOnce'
  BY <1>4 DEF WaitlistInv, ToldOnce
<1> QED
  BY <1>1, <1>3, <1>5 DEF WaitlistInv

\* Types of what Shows leaves.
LEMMA ShowsTypes ==
    ASSUME WaitlistType, NEW p \in Pages, NEW says \in Says, NEW result \in Results,
           Shows(p, says, result)
    PROVE  /\ hero' \in [Pages ->
                [at : {"closed", "open"}, says : Says, result : Results] \cup
                [at : {"sent", "absent", "present"}, says : Says, result : {NotJoined},
                 email : Emails, name : CalledNames]]
           /\ hero'[p].result = result /\ hero'[p].at = "open"
           /\ \A q \in Pages \ {p} : hero'[q] = hero[q]
  BY DEF WaitlistType, Shows

\* What is on the page or in storage is a result.
LEMMA ResultTypes ==
    ASSUME WaitlistType
    PROVE  /\ NotJoined \in Results
           /\ \A p \in Pages : hero[p].result \in Results
           /\ \A p \in Pages : BrowserOf[p] \in Browsers /\ stored[BrowserOf[p]] \in Results
           /\ \A p \in Pages : Unanswered(p) =>
                hero[p].email \in Emails /\ hero[p].name \in CalledNames
           /\ \A p \in Pages : Unanswered(p) => hero[p].result = NotJoined
<1>1. NotJoined \in Results
  BY DEF NotJoined, Results, Emails
<1>2. \A p \in Pages : BrowserOf[p] \in Browsers
  BY DEF Browsers
<1> QED
  BY <1>1, <1>2 DEF WaitlistType, Unanswered

\* A page that asks, is refused, or shows again what was known.
LEMMA QuietPage ==
    ASSUME WaitlistInv, NEW p \in Pages,
           \/ Load(p) \/ Submit(p) \/ CloseDialog(p) \/ Refuse(p) \/ LookUp(p)
    PROVE  WaitlistInv'
<1>t. WaitlistType
  BY DEF WaitlistInv
<1>0. "nothing" \in Says /\ "error" \in Says /\ "joining" \in Says
  BY DEF Says
<1>1. CASE Load(p)
  <2>1. WaitlistType'
    BY <1>t, <1>0, <1>1, ResultTypes, ShowsTypes DEF Load, WaitlistType
  <2> QED
    BY <1>t, <1>0, <1>1, <2>1, ResultTypes, ShowsTypes, NothingNew DEF Load
<1>2. CASE Submit(p)
  <2>1. PICK text \in Texts, name \in CalledNames :
            hero' = [hero EXCEPT ![p] =
                [at |-> "sent", says |-> "joining", result |-> NotJoined,
                 email |-> AddressOf[text], name |-> name]]
    BY <1>2 DEF Submit, CalledNames
  <2>2. AddressOf[text] \in Emails
    BY DEF Emails
  <2>3. WaitlistType'
    BY <1>t, <1>0, <1>2, <2>1, <2>2 DEF Submit, WaitlistType
  <2>4. hero'[p].result = NotJoined /\ hero'[p].at = "sent"
        /\ \A q \in Pages \ {p} : hero'[q] = hero[q]
    BY <1>t, <2>1 DEF WaitlistType
  <2> QED
    BY <1>2, <2>3, <2>4, NothingNew DEF Submit
<1>3. CASE CloseDialog(p)
  <2>1. WaitlistType'
    BY <1>t, <1>0, <1>3, ResultTypes, ShowsTypes DEF CloseDialog, WaitlistType
  <2> QED
    BY <1>t, <1>0, <1>3, <2>1, ResultTypes, ShowsTypes, NothingNew DEF CloseDialog
<1>4. CASE Refuse(p)
  <2>1. WaitlistType'
    BY <1>t, <1>0, <1>4, ResultTypes, ShowsTypes DEF Refuse, WaitlistType
  <2> QED
    BY <1>t, <1>0, <1>4, <2>1, ResultTypes, ShowsTypes, NothingNew DEF Refuse
<1>5. CASE LookUp(p)
  <2>1. /\ hero[p].at = "sent" /\ Unanswered(p)
        /\ signups' = signups /\ stored' = stored
    BY <1>5 DEF LookUp, Unanswered
  <2>2. hero[p] \in [at : {"sent", "absent", "present"}, says : Says, result : {NotJoined},
                     email : Emails, name : CalledNames]
    BY <1>t, <2>1 DEF WaitlistType
  <2>3. CASE Rows(hero[p].email) = {}
    <3>1. hero' = [hero EXCEPT ![p].at = "absent"]
      BY <1>5, <2>3 DEF LookUp
    <3>2. /\ WaitlistType' /\ hero'[p].at = "absent" /\ hero'[p].result = hero[p].result
          /\ \A q \in Pages \ {p} : hero'[q] = hero[q]
      BY <1>t, <2>1, <2>2, <3>1 DEF WaitlistType
    <3> QED
      BY <2>1, <3>2, NothingNew
  <2>4. CASE Rows(hero[p].email) # {}
    <3>1. PICK row \in Rows(hero[p].email) :
            hero' = [hero EXCEPT ![p].at = "present",
                                 ![p].name = IF @ = NoName THEN row.name ELSE @]
      BY <1>5, <2>4 DEF LookUp
    <3>2. row \in signups /\ row.email = hero[p].email /\ row.name \in CalledNames
      BY <1>t DEF Rows, WaitlistType
    <3>3. /\ WaitlistType' /\ hero'[p].result = hero[p].result /\ hero'[p].email = hero[p].email
          /\ \A q \in Pages \ {p} : hero'[q] = hero[q]
      BY <1>t, <2>1, <2>2, <3>1, <3>2 DEF WaitlistType
    <3> QED
      BY <2>1, <3>2, <3>3, NothingNew DEF IsListed
  <2> QED
    BY <2>3, <2>4
<1> QED
  BY <1>1, <1>2, <1>3, <1>4, <1>5

\* An answer that was not told before, or never says the address is new, for an
\* address that is on the list by then.
LEMMA AnswerKeepsInv ==
    ASSUME WaitlistInv, NEW p \in Pages, Unanswered(p), NEW row, Answered(p, row),
           row.email \in Emails, row.alreadyJoined \in BOOLEAN,
           signups' \subseteq [id : Pages, email : Emails, name : CalledNames],
           OneRowEach', \A email : IsListed(email) => IsListed(email)',
           IsListed(row.email)',
           row.alreadyJoined \/ ~IsListed(row.email)
    PROVE  WaitlistInv'
<1> DEFINE answer == [email |-> row.email, alreadyJoined |-> row.alreadyJoined]
<1>t. WaitlistType
  BY DEF WaitlistInv
<1>0. "joined" \in Says /\ "error" \in Says /\ answer \in Results
  BY DEF Says, Results
<1>b. BrowserOf[p] \in Browsers
  BY DEF Browsers
<1>1. CASE Shows(p, "joined", answer) /\ stored' = [stored EXCEPT ![BrowserOf[p]] = answer]
  <2>1. /\ hero'[p].result = answer /\ hero'[p].at = "open"
        /\ \A q \in Pages \ {p} : hero'[q] = hero[q]
    BY <1>t, <1>0, <1>1, ShowsTypes
  <2>2. /\ stored'[BrowserOf[p]] = answer
        /\ \A b \in Browsers \ {BrowserOf[p]} : stored'[b] = stored[b]
    BY <1>t, <1>b, <1>1 DEF WaitlistType
  <2>3. WaitlistType'
    BY <1>t, <1>0, <1>1, ShowsTypes DEF WaitlistType
  <2>4. ResultsListed'
    BY <2>1, <2>2 DEF WaitlistInv, ResultsListed
  <2>5. ToldOnce'
    <3> SUFFICES ASSUME NEW result \in Results \ {NotJoined}, ~result.alreadyJoined,
                        NEW b \in Browsers, NEW c \in Browsers,
                        Knows(b, result)', Knows(c, result)'
                 PROVE  b = c
      BY DEF ToldOnce
    <3>1. CASE result = answer
      <4>1. ~IsListed(result.email)
        BY <3>1
      <4>2. \A d \in Browsers : ~Knows(d, result)
        BY <4>1 DEF WaitlistInv, ResultsListed, Knows
      <4>3. \A d \in Browsers : Knows(d, result)' => d = BrowserOf[p]
        BY <4>2, <2>1, <2>2 DEF Knows
      <4> QED
        BY <4>3
    <3>2. CASE result # answer
      <4>1. \A d \in Browsers : Knows(d, result)' => Knows(d, result)
        BY <3>2, <2>1, <2>2 DEF Knows
      <4> QED
        BY <4>1 DEF WaitlistInv, ToldOnce
    <3> QED
      BY <3>1, <3>2
  <2> QED
    BY <2>3, <2>4, <2>5 DEF WaitlistInv
<1>2. CASE Shows(p, "error", NotJoined) /\ UNCHANGED stored
  <2>1. /\ hero'[p].result = NotJoined /\ hero'[p].at = "open"
        /\ \A q \in Pages \ {p} : hero'[q] = hero[q]
    BY <1>t, <1>0, <1>2, ShowsTypes, ResultTypes
  <2>2. WaitlistType'
    BY <1>t, <1>0, <1>2, ShowsTypes, ResultTypes DEF WaitlistType
  <2>3. ResultsListed'
    BY <1>2, <2>1 DEF WaitlistInv, ResultsListed
  <2>4. \A result \in Results \ {NotJoined} : \A b \in Browsers :
            Knows(b, result)' => Knows(b, result)
    BY <1>2, <2>1 DEF Knows
  <2>5. ToldOnce'
    BY <2>4 DEF WaitlistInv, ToldOnce
  <2> QED
    BY <2>2, <2>3, <2>5 DEF WaitlistInv
<1> QED
  BY <1>1, <1>2 DEF Answered

\* An update renames the rows of its address and keeps every address listed.
LEMMA UpdateKeepsInv ==
    ASSUME WaitlistInv, NEW p \in Pages, Update(p)
    PROVE  WaitlistInv'
<1> PICK email, name : email = hero[p].email /\ name = hero[p].name
  OBVIOUS
<1> DEFINE renamed == {[row EXCEPT !.name = name] : row \in Rows(email)}
           told == [email |-> email, alreadyJoined |-> TRUE]
<1>t. WaitlistType
  BY DEF WaitlistInv
<1>1. /\ hero[p].at = "present" /\ Unanswered(p)
      /\ signups' = (signups \ Rows(email)) \cup renamed
      /\ Answered(p, told)
  BY DEF Update, Unanswered
<1>2. email \in Emails /\ name \in CalledNames
  BY <1>t, <1>1, ResultTypes
<1>3. \A row \in renamed : /\ row \in [id : Pages, email : Emails, name : CalledNames]
                           /\ row.email = email
  BY <1>t, <1>2 DEF Rows, WaitlistType
<1>4. \A r, s \in renamed : r = s
  BY DEF WaitlistInv, OneRowEach, Rows
<1>5. \A row \in signups \ Rows(email) : row.email # email
  BY DEF Rows
<1>6. signups' \subseteq [id : Pages, email : Emails, name : CalledNames]
  BY <1>t, <1>1, <1>3 DEF WaitlistType
<1>7. OneRowEach'
  BY <1>1, <1>3, <1>4, <1>5 DEF WaitlistInv, OneRowEach
<1>8. IsListed(email)
  BY <1>1 DEF WaitlistInv, ResultsListed
<1>9. IsListed(email)'
  <2>1. PICK row \in Rows(email) : TRUE
    BY <1>8 DEF IsListed, Rows
  <2>2. [row EXCEPT !.name = name] \in renamed
    OBVIOUS
  <2> HIDE DEF renamed
  <2> QED
    BY <1>1, <1>3, <2>2 DEF IsListed
<1>10. \A other : IsListed(other) => IsListed(other)'
  BY <1>1, <1>9 DEF IsListed, Rows
<1>11. told.email = email /\ told.alreadyJoined = TRUE
  OBVIOUS
<1> HIDE DEF told, renamed
<1> QED
  BY <1>1, <1>2, <1>6, <1>7, <1>9, <1>10, <1>11, AnswerKeepsInv

\* Of two inserts of one address the second fails; the first is the only one
\* whose answer says the address is new.
LEMMA InsertKeepsInv ==
    ASSUME WaitlistInv, NEW p \in Pages, Insert(p)
    PROVE  WaitlistInv'
<1> PICK email, name : email = hero[p].email /\ name = hero[p].name
  OBVIOUS
<1> DEFINE row == [id |-> p, email |-> email, name |-> name]
           told == [email |-> email, alreadyJoined |-> FALSE]
<1>t. WaitlistType
  BY DEF WaitlistInv
<1>1. hero[p].at = "absent" /\ Unanswered(p)
  BY DEF Insert, Unanswered
<1>2. email \in Emails /\ name \in CalledNames
  BY <1>t, <1>1, ResultTypes
<1>3. CASE Conflicts(email)
  <2>1. Shows(p, "error", NotJoined) /\ signups' = signups /\ stored' = stored
    BY <1>3 DEF Insert
  <2>2. "error" \in Says
    BY DEF Says
  <2>3. WaitlistType'
    BY <1>t, <2>1, <2>2, ResultTypes, ShowsTypes DEF WaitlistType
  <2> QED
    BY <1>t, <2>1, <2>2, <2>3, ResultTypes, ShowsTypes, NothingNew
<1>4. CASE ~Conflicts(email)
  <2>1. signups' = signups \cup {row} /\ Answered(p, told)
    BY <1>4 DEF Insert
  <2>2. ~IsListed(email)
    BY <1>4 DEF Conflicts, Rows, IsListed
  <2>3. row \in [id : Pages, email : Emails, name : CalledNames] /\ row.email = email
    BY <1>2
  <2>4. signups' \subseteq [id : Pages, email : Emails, name : CalledNames]
    BY <1>t, <2>1, <2>3 DEF WaitlistType
  <2>5. OneRowEach'
    BY <2>1, <2>2, <2>3 DEF WaitlistInv, OneRowEach, IsListed
  <2>6. IsListed(email)'
    BY <2>1, <2>3 DEF IsListed
  <2>7. \A other : IsListed(other) => IsListed(other)'
    BY <2>1 DEF IsListed
  <2>8. told.email = email /\ told.alreadyJoined = FALSE
    OBVIOUS
  <2> HIDE DEF told, row
  <2> QED
    BY <1>1, <1>2, <2>1, <2>2, <2>4, <2>5, <2>6, <2>7, <2>8, AnswerKeepsInv
<1> QED
  BY <1>3, <1>4

\* The invariant holds of every step.
LEMMA WaitlistInvNext == WaitlistInv /\ [Next]_vars => WaitlistInv'
<1> SUFFICES ASSUME WaitlistInv, [Next]_vars
             PROVE  WaitlistInv'
  OBVIOUS
<1>1. CASE Next
  <2>1. PICK p \in Pages :
            \/ Load(p) \/ Submit(p) \/ CloseDialog(p) \/ Refuse(p)
            \/ LookUp(p) \/ Update(p) \/ Insert(p)
    BY <1>1 DEF Next
  <2> QED
    BY <2>1, QuietPage, UpdateKeepsInv, InsertKeepsInv
<1>2. CASE UNCHANGED vars
  BY <1>2 DEF vars, WaitlistInv, WaitlistType, OneRowEach, ResultsListed, ToldOnce,
              IsListed, Knows
<1> QED
  BY <1>1, <1>2

\* Listed once, and one browser at most knows the same answer.
LEMMA InvKeepsPromise == WaitlistInv => PromisedIsListed
<1> SUFFICES ASSUME WaitlistInv, NEW p \in Pages, hero[p].result # NotJoined
             PROVE  /\ Cardinality(Rows(hero[p].result.email)) = 1
                    /\ \A q \in Pages :
                        /\ hero[q].result = hero[p].result /\ ~hero[p].result.alreadyJoined
                        => BrowserOf[q] = BrowserOf[p]
  BY DEF PromisedIsListed
<1>1. PICK row \in signups : row.email = hero[p].result.email
  BY DEF WaitlistInv, ResultsListed, IsListed
<1>2. Rows(hero[p].result.email) = {row}
  BY <1>1 DEF WaitlistInv, OneRowEach, Rows
<1>3. \A q \in Pages : BrowserOf[q] \in Browsers
  BY DEF Browsers
<1>4. hero[p].result \in Results
  BY ResultTypes DEF WaitlistInv
<1>5. ASSUME NEW q \in Pages, hero[q].result = hero[p].result, ~hero[p].result.alreadyJoined
      PROVE  BrowserOf[q] = BrowserOf[p]
  BY <1>3, <1>4, <1>5 DEF WaitlistInv, ToldOnce, Knows
<1> QED
  BY <1>2, <1>5, FS_Singleton

\* "We'll reach out at ... when access opens" (hero.tsx:192) is true of every
\* page that says it, and one browser at most was told the address is new.
THEOREM WaitlistKeepsItsPromise == Spec => []PromisedIsListed
  BY WaitlistInvInit, WaitlistInvNext, InvKeepsPromise, PTL DEF Spec
=============================================================================
