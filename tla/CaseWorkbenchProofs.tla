------------------------- MODULE CaseWorkbenchProofs -------------------------
(***************************************************************************)
(* What the case workbench promises, for any officers, customers and       *)
(* ownership structures and any number of presses: CaseWorkbench's safety  *)
(* properties.                                                             *)
(*                                                                         *)
(* Why they are kept: a fetch of an open page is about the selected        *)
(* customer unless the selection has changed since it was sent, a disabled *)
(* button is one such fetch, and a press of a review action is either a    *)
(* request that the service has not seen or one decision it has recorded.  *)
(***************************************************************************)
EXTENDS CaseWorkbench, SequenceTheorems, FiniteSetTheorems, TLAPS

\* A button is disabled just while one fetch works for it.
Working(b) == {c \in calls : c.kind = b /\ c.open}
OneFetchPerButton ==
  \A b \in Buttons :
    IF b \in busy THEN \E c \in calls : Working(b) = {c} ELSE Working(b) = {}

\* The fetches that are about a customer.
AboutCustomers == Checks \cup {"case", "review"}
Sensible(c) ==
  /\ c.kind = "list" => c.about \in Lists
  /\ c.stage = "listing" => c.kind \in Lists
  /\ (c.kind \in Lists /\ c.stage = "sent") => c.kind \notin Empty
  /\ c.kind \in AboutCustomers =>
       /\ c.about \in Customers
       /\ (c.open /\ ~c.crossed) => c.about = selected
CallsAboutSelected ==
  /\ \A check \in Lists : known[check] => check \notin Empty
  /\ \A c \in calls : Sensible(c)

\* What a panel may say of the selected customer.
MayShow(p, about) ==
  \/ about = selected
  \/ p = "ubo" /\ about = Traced(selected)
  \/ p = "case" /\ selected \notin Governed /\ about = TopCase
ShownAboutSelected ==
  \A p \in Panels : shown[p] = NotShown \/ shown[p].crossed \/ MayShow(p, shown[p].about)

\* A press of a review action is kept as the officer meant it.
Recorded(press) == \E i \in DOMAIN decisions : decisions[i].press = press
PressesKept ==
  /\ DOMAIN asked \subseteq 1..presses
  /\ \A n \in DOMAIN asked : asked[n].action = SignOff =>
       /\ asked[n].draft.drafted
       /\ asked[n].draft.about = asked[n].customer \/ asked[n].draft.crossed

\* It is one request, or one decision.
RequestsKept ==
  \A c \in calls : c.kind = "review" =>
    /\ c.press \in DOMAIN asked /\ asked[c.press].customer = c.about
    /\ c.stage = "sent" => ~Recorded(c.press)
    /\ c.stage = "recorded" => Recorded(c.press)
    /\ \A d \in calls : (d.kind = "review" /\ d.press = c.press) => d = c
DecisionsKept ==
  /\ message.text = "recorded" => Recorded(message.press)
  /\ \A i \in DOMAIN decisions :
       LET d == decisions[i] IN
         /\ d.press \in DOMAIN asked
         /\ asked[d.press].customer = d.customer /\ asked[d.press].actor = d.actor
         /\ asked[d.press].action = d.action
         /\ \A j \in DOMAIN decisions : decisions[j].press = d.press => j = i

\* A sign-in is under way only where nobody is signed in, and may open a page.
SigningIn == signing # None => session = None /\ pages < MaxPages

IInv ==
  /\ Typed
  /\ SigningIn
  /\ OneFetchPerButton
  /\ CallsAboutSelected
  /\ ShownAboutSelected
  /\ PressesKept
  /\ RequestsKept
  /\ DecisionsKept

-----------------------------------------------------------------------------
\* The first state.
LEMMA InitInv == Init => IInv
<1> SUFFICES ASSUME Init PROVE IInv
  OBVIOUS
<1>0. SigningIn
  BY DEF Init, SigningIn
<1>1. /\ calls = {} /\ busy = {} /\ DOMAIN asked = {} /\ DOMAIN decisions = {}
      /\ message.text = "none" /\ message.press = 0
      /\ decisions \in Seq(Decision)
  <2>1. asked = <<>> /\ decisions = <<>> /\ message = Saying("none") /\ calls = {} /\ busy = {}
    BY DEF Init
  <2>2. DOMAIN asked = {} /\ DOMAIN decisions = {} /\ decisions \in Seq(Decision)
    BY <2>1
  <2>3. message.text = "none" /\ message.press = 0
    BY <2>1 DEF Saying
  <2> QED BY <2>1, <2>2, <2>3
<1>2. Typed
  <2>1. /\ MaxPresses \in Nat /\ MaxSelections \in Nat /\ MaxPages \in Nat
        /\ 0 \in 0..MaxPresses /\ 0 \in 0..MaxSelections /\ 0 \in 0..MaxPages
    BY BoundsAssumption
  <2>2. message \in [text : {"none", "refused", "failed", "recorded"}, press : 0..MaxPresses]
    BY <2>1 DEF Init, Saying
  <2>3. NotShown \in Shown
    BY DEF NotShown, Shown, Subjects
  <2>4. shown \in [Panels -> Shown] /\ known \in [Lists -> BOOLEAN]
    BY <2>3 DEF Init
  <2>5. DOMAIN asked \subseteq 1..MaxPresses /\ \A n \in DOMAIN asked : asked[n] \in Press
    BY <1>1
  <2> QED BY <1>1, <2>1, <2>2, <2>4, <2>5 DEF Init, Typed
<1>3. OneFetchPerButton
  BY <1>1 DEF OneFetchPerButton, Working
<1>4. CallsAboutSelected
  BY <1>1 DEF Init, CallsAboutSelected
<1>5. ShownAboutSelected
  BY DEF Init, ShownAboutSelected
<1>6. PressesKept /\ RequestsKept /\ DecisionsKept
  BY <1>1 DEF PressesKept, RequestsKept, DecisionsKept
<1> QED BY <1>0, <1>2, <1>3, <1>4, <1>5, <1>6 DEF IInv

-----------------------------------------------------------------------------
\* The counts and their bounds.
LEMMA Counts ==
  ASSUME Typed
  PROVE  /\ MaxPresses \in Nat /\ MaxSelections \in Nat /\ MaxPages \in Nat
         /\ presses \in 0..MaxPresses /\ selections \in 0..MaxSelections
         /\ pages \in 0..MaxPages
BY BoundsAssumption DEF Typed

\* What becomes of a fetch.
LEMMA Altered ==
  ASSUME NEW c \in CallSet
  PROVE  /\ \A crossed \in BOOLEAN :
              /\ [c EXCEPT !.crossed = crossed] \in CallSet
              /\ [c EXCEPT !.crossed = crossed].kind = c.kind
              /\ [c EXCEPT !.crossed = crossed].about = c.about
              /\ [c EXCEPT !.crossed = crossed].stage = c.stage
              /\ [c EXCEPT !.crossed = crossed].press = c.press
              /\ [c EXCEPT !.crossed = crossed].crossed = crossed
              /\ [c EXCEPT !.crossed = crossed].open = c.open
         /\ LET closed == [c EXCEPT !.open = FALSE] IN
              /\ closed \in CallSet
              /\ closed.kind = c.kind /\ closed.about = c.about /\ closed.stage = c.stage
              /\ closed.press = c.press /\ closed.crossed = c.crossed /\ ~closed.open
BY DEF CallSet

\* A fetch takes over whether it is crossed.
LEMMA Crossing ==
  ASSUME NEW c \in CallSet, NEW crossed \in BOOLEAN, NEW e, e = [c EXCEPT !.crossed = crossed]
  PROVE  /\ e \in CallSet /\ e.kind = c.kind /\ e.about = c.about /\ e.stage = c.stage
         /\ e.crossed = crossed
BY DEF CallSet

\* A fetch goes on to another stage.
LEMMA GoneOn ==
  ASSUME NEW c \in CallSet, NEW stage \in Stages, NEW e, e = [c EXCEPT !.stage = stage]
  PROVE  /\ e \in CallSet /\ e.kind = c.kind /\ e.about = c.about /\ e.stage = stage
         /\ e.press = c.press /\ e.crossed = c.crossed /\ e.open = c.open
BY DEF CallSet

\* A new fetch.
LEMMA Made ==
  ASSUME NEW kind \in Buttons \cup {"clients", "list", "case", "verify"},
         NEW about \in Customers \cup Lists \cup {None}, NEW stage \in Stages,
         NEW press \in 0..MaxPresses
  PROVE  LET c == Call(kind, about, stage, press) IN
           /\ c \in CallSet
           /\ c.kind = kind /\ c.about = about /\ c.stage = stage /\ c.press = press
           /\ ~c.crossed /\ c.open
BY DEF CallSet, Call

\* What a page loads is for no button and about no customer.
LEMMA LoadingProperties ==
  ASSUME Typed
  PROVE  /\ Loading \subseteq CallSet
         /\ \A c \in Loading : c.kind \in {"clients", "list"} /\ Sensible(c)'
<1>1. 0 \in 0..MaxPresses
  BY BoundsAssumption
<1>2. LET c == Call("clients", None, "sent", 0) IN c \in CallSet /\ c.kind = "clients" /\ c.stage = "sent"
  BY <1>1, Made DEF Stages
<1>3. ASSUME NEW check \in Lists
      PROVE  LET c == Call("list", check, "sent", 0) IN
               c \in CallSet /\ c.kind = "list" /\ c.about = check /\ c.stage = "sent"
  <2>1. check \in Customers \cup Lists \cup {None} /\ "sent" \in Stages
    BY DEF Stages
  <2> QED BY <1>1, <2>1, Made
<1> QED BY <1>2, <1>3 DEF Loading, Sensible, AboutCustomers, Checks, Lists

-----------------------------------------------------------------------------
\* A fetch has settled, and what follows it is for no button.
LEMMA SettledFreesButton ==
  ASSUME OneFetchPerButton, NEW c \in calls, c.open, NEW more,
         \A d \in more : d.kind \notin Buttons,
         calls' = (calls \ {c}) \cup more, busy' = busy \ {c.kind}
  PROVE  OneFetchPerButton'
<1> SUFFICES ASSUME NEW b \in Buttons
             PROVE  IF b \in busy' THEN \E d \in calls' : Working(b)' = {d} ELSE Working(b)' = {}
  BY DEF OneFetchPerButton
<1>1. Working(b)' = Working(b) \ {c}
  BY DEF Working
<1>2. CASE b = c.kind
  <2>1. c \in Working(b) /\ b \notin busy'
    BY <1>2 DEF Working
  <2>2. Working(b) = {c}
    BY <2>1 DEF OneFetchPerButton
  <2> QED BY <1>1, <2>1, <2>2
<1>3. CASE b # c.kind
  <2>1. Working(b)' = Working(b) /\ (b \in busy' <=> b \in busy)
    BY <1>1, <1>3 DEF Working
  <2>2. \A d \in Working(b) : d \in calls'
    BY <1>3 DEF Working
  <2> QED BY <2>1, <2>2 DEF OneFetchPerButton
<1> QED BY <1>2, <1>3

\* A fetch goes on, for the button it worked for.
LEMMA GoingOnKeepsButton ==
  ASSUME OneFetchPerButton, NEW c \in calls, NEW d, d.kind = c.kind, d.open = c.open,
         calls' = (calls \ {c}) \cup {d}, busy' = busy
  PROVE  OneFetchPerButton'
<1> SUFFICES ASSUME NEW b \in Buttons
             PROVE  IF b \in busy' THEN \E e \in calls' : Working(b)' = {e} ELSE Working(b)' = {}
  BY DEF OneFetchPerButton
<1>1. CASE c \in Working(b)
  <2>1. d \in Working(b)' /\ Working(b)' = (Working(b) \ {c}) \cup {d}
    BY <1>1 DEF Working
  <2>2. b \in busy /\ Working(b) = {c}
    BY <1>1 DEF OneFetchPerButton
  <2> QED BY <2>1, <2>2
<1>2. CASE c \notin Working(b)
  <2>1. Working(b)' = Working(b)
    BY <1>2 DEF Working
  <2>2. \A e \in Working(b) : e \in calls'
    BY <1>2 DEF Working
  <2> QED BY <2>1, <2>2 DEF OneFetchPerButton
<1> QED BY <1>1, <1>2

\* A button is pressed.
LEMMA PressTakesButton ==
  ASSUME OneFetchPerButton, NEW d, d.kind \notin busy, d.open,
         calls' = calls \cup {d}, busy' = busy \cup {d.kind}
  PROVE  OneFetchPerButton'
<1> SUFFICES ASSUME NEW b \in Buttons
             PROVE  IF b \in busy' THEN \E e \in calls' : Working(b)' = {e} ELSE Working(b)' = {}
  BY DEF OneFetchPerButton
<1>1. CASE b = d.kind
  <2>1. Working(b)' = Working(b) \cup {d} /\ Working(b) = {}
    BY <1>1 DEF Working, OneFetchPerButton
  <2> QED BY <1>1, <2>1
<1>2. CASE b # d.kind
  <2>1. Working(b)' = Working(b) /\ (b \in busy' <=> b \in busy)
    BY <1>2 DEF Working
  <2>2. \A e \in Working(b) : e \in calls'
    BY DEF Working
  <2> QED BY <2>1, <2>2 DEF OneFetchPerButton
<1> QED BY <1>1, <1>2

\* Fetches are added that are for no button.
LEMMA LoadingTakesNoButton ==
  ASSUME OneFetchPerButton, NEW more, \A d \in more : d.kind \notin Buttons,
         calls' = calls \cup more, busy' = busy
  PROVE  OneFetchPerButton'
<1> SUFFICES ASSUME NEW b \in Buttons
             PROVE  IF b \in busy' THEN \E e \in calls' : Working(b)' = {e} ELSE Working(b)' = {}
  BY DEF OneFetchPerButton
<1>1. Working(b)' = Working(b)
  BY DEF Working
<1>2. \A e \in Working(b) : e \in calls'
  BY DEF Working
<1> QED BY <1>1, <1>2 DEF OneFetchPerButton

\* No review action is asked for or answered: its requests are what they were.
LEMMA SameRequests ==
  ASSUME RequestsKept, \A d \in calls' : d.kind = "review" => d \in calls,
         UNCHANGED <<asked, decisions>>
  PROVE  RequestsKept'
BY DEF RequestsKept, Recorded

LEMMA SameDecisions ==
  ASSUME DecisionsKept, UNCHANGED <<asked, decisions>>,
         message'.text = "recorded" => message' = message \/ Recorded(message'.press)
  PROVE  DecisionsKept'
BY DEF DecisionsKept, Recorded

LEMMA SamePresses ==
  ASSUME PressesKept, Typed, Typed', UNCHANGED asked, presses' >= presses
  PROVE  PressesKept'
<1>1. presses \in Nat /\ presses' \in Nat
  <2>1. MaxPresses \in Nat
    BY BoundsAssumption
  <2>2. presses \in 0..MaxPresses
    BY DEF Typed
  <2>3. presses' \in 0..MaxPresses
    BY DEF Typed
  <2> QED BY <2>1, <2>2, <2>3
<1> QED BY <1>1 DEF PressesKept

\* What is sensible to fetch goes on being so while the selection stays.
LEMMA StillSensible ==
  ASSUME NEW c, UNCHANGED selected
  PROVE  Sensible(c)' <=> Sensible(c)
BY DEF Sensible

\* A step that touches no fetch, panel, button or decision.
LEMMA Quiet ==
  ASSUME IInv, Typed', SigningIn',
         UNCHANGED <<selected, known, shown, busy, message, calls, decisions, asked, presses>>
  PROVE  IInv'
<1>1. OneFetchPerButton'
  BY DEF IInv, OneFetchPerButton, Working
<1>2. CallsAboutSelected'
  BY StillSensible DEF IInv, CallsAboutSelected
<1>3. ShownAboutSelected'
  BY DEF IInv, ShownAboutSelected, MayShow
<1>4. PressesKept' /\ RequestsKept' /\ DecisionsKept'
  BY DEF IInv, PressesKept, RequestsKept, DecisionsKept, Recorded
<1> QED BY <1>1, <1>2, <1>3, <1>4 DEF IInv

-----------------------------------------------------------------------------
\* Signing in, writing a reason, another client of the service.
LEMMA SignInKeeps ==
  ASSUME IInv, NEW officer \in Officers, SignIn(officer)
  PROVE  IInv'
<1>1. Typed' /\ SigningIn'
  BY DEF SignIn, IInv, Typed, SigningIn, page, service, bounds
<1> QED BY <1>1, Quiet DEF SignIn, page, service, bounds

LEMMA MakeCasesKeeps ==
  ASSUME IInv, MakeCases
  PROVE  IInv'
<1>1. Typed' /\ SigningIn'
  BY DEF MakeCases, IInv, Typed, SigningIn, page, bounds
<1> QED BY <1>1, Quiet DEF MakeCases, page, bounds

LEMMA WriteKeeps ==
  ASSUME IInv, NEW text \in {"", "typed"}, Write(text)
  PROVE  IInv'
<1>1. Typed' /\ SigningIn'
  BY DEF Write, IInv, Typed, SigningIn, service, bounds
<1> QED BY <1>1, Quiet DEF Write, service, bounds

\* The workbench opens, or the sign-in goes on or fails.
LEMMA SignInAnsweredKeeps ==
  ASSUME IInv, NEW ok \in BOOLEAN, SignInAnswered(ok)
  PROVE  IInv'
<1>1. /\ Typed /\ signing # None /\ SigningIn /\ MaxPages \in Nat
      /\ UNCHANGED <<page, service, asked, presses, selections>>
  BY BoundsAssumption DEF IInv, SignInAnswered
<1>2. CASE ok /\ signing.stage = "whoami"
  <2>1. /\ session' = signing.officer /\ signing' = None
        /\ calls' = calls \cup Loading /\ pages' = pages + 1
    BY <1>2 DEF SignInAnswered, Open
  <2>2. signing.officer \in Officers /\ pages' \in 0..MaxPages /\ SigningIn'
    <3>1. signing.officer \in Officers
      BY <1>1 DEF Typed
    <3>2. pages \in 0..MaxPages /\ pages < MaxPages /\ MaxPages \in Nat
      BY <1>1, Counts DEF SigningIn
    <3>3. SigningIn'
      BY <2>1 DEF SigningIn
    <3> QED BY <2>1, <3>1, <3>2, <3>3
  <2>3. Loading \subseteq CallSet /\ \A c \in Loading : c.kind \in {"clients", "list"} /\ Sensible(c)'
    BY <1>1, LoadingProperties
  <2>4. Typed'
    BY <1>1, <2>1, <2>2, <2>3 DEF Typed, page, service
  <2>5. OneFetchPerButton'
    BY <1>1, <2>1, <2>3, LoadingTakesNoButton DEF IInv, page, Buttons, Checks
  <2>6. CallsAboutSelected'
    BY <1>1, <2>1, <2>3, StillSensible DEF IInv, CallsAboutSelected, page
  <2>7. ShownAboutSelected'
    BY <1>1 DEF IInv, ShownAboutSelected, MayShow, page
  <2>8. RequestsKept'
    BY <1>1, <2>1, <2>3, SameRequests DEF IInv, service
  <2>9. DecisionsKept'
    BY <1>1, SameDecisions DEF IInv, service, page
  <2>10. PressesKept'
    BY <1>1 DEF IInv, PressesKept
  <2> QED BY <2>2, <2>4, <2>5, <2>6, <2>7, <2>8, <2>9, <2>10 DEF IInv
<1>3. CASE ~(ok /\ signing.stage = "whoami")
  <2>1. /\ signing' = None \/ signing' = [signing EXCEPT !.stage = "whoami"]
        /\ UNCHANGED <<session, calls, pages>>
    BY <1>3 DEF SignInAnswered
  <2>2. signing' \in [officer : Officers, stage : {"token", "whoami"}] \cup {None}
    BY <1>1, <2>1 DEF Typed
  <2>3. Typed' /\ SigningIn'
    BY <1>1, <2>1, <2>2 DEF Typed, SigningIn, page, service
  <2> QED BY <1>1, <2>1, <2>3, Quiet DEF page, service
<1> QED BY <1>2, <1>3

\* The page is left.
LEMMA LeaveKeeps ==
  ASSUME IInv, NEW reload \in BOOLEAN, Leave(reload)
  PROVE  IInv'
<1> DEFINE more == IF reload THEN Loading ELSE {}
<1>1. /\ Typed /\ session # None /\ MaxPages \in Nat
      /\ selected' = None /\ known' = [check \in Lists |-> FALSE]
      /\ shown' = [p \in Panels |-> NotShown] /\ busy' = {}
      /\ message' = Saying("none")
      /\ calls' = Outlived \cup more
      /\ pages' = IF reload THEN pages + 1 ELSE pages
      /\ session' = IF reload THEN session ELSE None
      /\ listed' = FALSE /\ reason' = "" /\ audit_check' = "none"
      /\ reload => pages < MaxPages
      /\ UNCHANGED <<signing, service, asked, presses, selections>>
  BY BoundsAssumption DEF IInv, Leave
<1>2. more \subseteq CallSet /\ \A c \in more : c.kind \in {"clients", "list"} /\ Sensible(c)'
  BY <1>1, LoadingProperties
<1> HIDE DEF more
<1>3. ASSUME NEW c \in Outlived
      PROVE  /\ c \in CallSet /\ c.kind = "review" /\ ~c.open
             /\ \E d \in calls : d.kind = "review" /\ c = [d EXCEPT !.open = FALSE]
                                 /\ d.about = c.about /\ d.stage = c.stage /\ d.press = c.press
  <2>1. PICK d \in calls : d.kind = "review" /\ c = [d EXCEPT !.open = FALSE]
    BY DEF Outlived
  <2>2. d \in CallSet
    BY <1>1 DEF Typed
  <2>3. /\ c \in CallSet /\ c.kind = d.kind /\ c.about = d.about /\ c.stage = d.stage
        /\ c.press = d.press /\ ~c.open
    BY <2>1, <2>2, Altered
  <2> QED BY <2>1, <2>3
<1>4. SigningIn'
  BY <1>1 DEF IInv, SigningIn
<1>5. Typed'
  <2>1. calls' \subseteq CallSet
    BY <1>1, <1>2, <1>3
  <2>2. NotShown \in Shown
    BY DEF NotShown, Shown, Subjects
  <2>3. shown' \in [Panels -> Shown] /\ known' \in [Lists -> BOOLEAN]
    BY <1>1, <2>2
  <2>4. message' \in [text : {"none", "refused", "failed", "recorded"}, press : 0..MaxPresses]
    <3>1. 0 \in 0..MaxPresses
      BY Counts DEF IInv
    <3>2. message' = [text |-> "none", press |-> 0]
      BY <1>1 DEF Saying
    <3> QED BY <3>1, <3>2
  <2>5. pages' \in 0..MaxPages
    <3>1. pages \in 0..MaxPages /\ MaxPages \in Nat
      BY Counts DEF IInv
    <3>2. pages' = IF reload THEN pages + 1 ELSE pages
      BY <1>1
    <3>3. reload => pages < MaxPages
      BY <1>1
    <3> QED BY <3>1, <3>2, <3>3
  <2> QED BY <1>1, <2>1, <2>3, <2>4, <2>5 DEF Typed, service
<1>6. OneFetchPerButton'
  BY <1>1, <1>2, <1>3 DEF OneFetchPerButton, Working, Buttons, Checks
<1>7. CallsAboutSelected'
  <2>1. ASSUME NEW c \in Outlived PROVE Sensible(c)'
    <3>1. PICK d \in calls : /\ d.kind = "review" /\ d.about = c.about /\ d.stage = c.stage
      BY <1>3
    <3>2. Sensible(d) /\ c.kind = "review" /\ ~c.open
      BY <1>3 DEF IInv, CallsAboutSelected
    <3> QED BY <3>1, <3>2 DEF Sensible, AboutCustomers, Lists
  <2> QED BY <1>1, <1>2, <2>1 DEF CallsAboutSelected
<1>8. ShownAboutSelected'
  BY <1>1 DEF ShownAboutSelected
<1>9. RequestsKept'
  <2> SUFFICES ASSUME NEW c \in calls', c.kind = "review"
               PROVE  /\ c.press \in DOMAIN asked /\ asked[c.press].customer = c.about
                      /\ c.stage = "sent" => ~Recorded(c.press)
                      /\ c.stage = "recorded" => Recorded(c.press)
                      /\ \A d \in calls' : (d.kind = "review" /\ d.press = c.press) => d = c
    BY <1>1 DEF RequestsKept, Recorded, service
  <2>1. c \in Outlived
    BY <1>1, <1>2
  <2>2. PICK b \in calls : /\ b.kind = "review" /\ c = [b EXCEPT !.open = FALSE]
                           /\ b.about = c.about /\ b.stage = c.stage /\ b.press = c.press
    BY <1>3, <2>1
  <2>3. ASSUME NEW d \in calls', d.kind = "review", d.press = c.press PROVE d = c
    <3>1. d \in Outlived
      BY <1>1, <1>2, <2>3
    <3>2. PICK a \in calls : /\ a.kind = "review" /\ d = [a EXCEPT !.open = FALSE]
                             /\ a.press = d.press
      BY <1>3, <3>1
    <3>3. a = b
      BY <2>2, <2>3, <3>2 DEF IInv, RequestsKept
    <3> QED BY <2>2, <3>2, <3>3
  <2> QED BY <2>2, <2>3 DEF IInv, RequestsKept
<1>10. DecisionsKept'
  <2>1. message'.text = "none"
    BY <1>1 DEF Saying
  <2> QED BY <1>1, <2>1, SameDecisions DEF IInv, service
<1>11. PressesKept'
  BY <1>1 DEF IInv, PressesKept
<1> QED BY <1>4, <1>5, <1>6, <1>7, <1>8, <1>9, <1>10, <1>11 DEF IInv

\* A new selection: every fetch under way has been crossed, and the panels are empty.
LEMMA ReselectKeeps ==
  ASSUME IInv, NEW c \in Customers, NEW others \in SUBSET calls,
         \A d \in calls \ others : d.kind \notin Buttons \cup {"review"},
         Reselect(c, others), UNCHANGED <<known, busy, asked, decisions>>
  PROVE  /\ selected' \in Customers /\ shown' \in [Panels -> Shown] /\ calls' \subseteq CallSet
         /\ OneFetchPerButton' /\ CallsAboutSelected' /\ ShownAboutSelected' /\ RequestsKept'
<1> DEFINE Crossed(d) == [d EXCEPT !.crossed = TRUE]
<1> PICK fetch : fetch = Call("case", c, "sent", 0)
  OBVIOUS
<1>1. /\ selected' = c /\ shown' = [p \in Panels |-> NotShown]
      /\ calls' = {Crossed(d) : d \in others} \cup {fetch}
  BY DEF Reselect, Cleared
<1>2. /\ fetch \in CallSet /\ fetch.kind = "case" /\ fetch.about = c /\ fetch.stage = "sent"
  <2>1. 0 \in 0..MaxPresses /\ "sent" \in Stages
    BY Counts DEF IInv, Stages
  <2> QED BY <2>1, Made
<1>3. ASSUME NEW d \in calls
      PROVE  /\ Crossed(d) \in CallSet /\ Crossed(d).kind = d.kind /\ Crossed(d).about = d.about
             /\ Crossed(d).stage = d.stage /\ Crossed(d).press = d.press /\ Crossed(d).crossed
             /\ Crossed(d).open = d.open
  <2>1. d \in CallSet
    BY DEF IInv, Typed
  <2> QED BY <2>1, Altered
<1> HIDE DEF Crossed
<1>4. selected' \in Customers /\ calls' \subseteq CallSet
  BY <1>1, <1>2, <1>3
<1>5. shown' \in [Panels -> Shown]
  <2>1. NotShown \in Shown
    BY DEF NotShown, Shown, Subjects
  <2> QED BY <1>1, <2>1
<1>6. OneFetchPerButton'
  <2> SUFFICES ASSUME NEW b \in Buttons
               PROVE  IF b \in busy' THEN \E e \in calls' : Working(b)' = {e}
                      ELSE Working(b)' = {}
    BY DEF OneFetchPerButton
  <2>1. b # "case"
    BY DEF Buttons, Checks
  <2>2. \A d \in Working(b) : d \in others
    BY DEF Working
  <2>3. Working(b)' = {Crossed(d) : d \in Working(b)}
    <3>1. ASSUME NEW e \in Working(b)' PROVE \E d \in Working(b) : e = Crossed(d)
      <4>1. e \in calls' /\ e.kind = b /\ e.open
        BY DEF Working
      <4>2. PICK d \in others : e = Crossed(d)
        BY <1>1, <1>2, <2>1, <4>1
      <4> QED BY <1>3, <4>1, <4>2 DEF Working
    <3>2. ASSUME NEW d \in Working(b) PROVE Crossed(d) \in Working(b)'
      <4>1. d \in others /\ d \in calls /\ d.kind = b /\ d.open
        BY <2>2 DEF Working
      <4> QED BY <1>1, <1>3, <4>1 DEF Working
    <3> QED BY <3>1, <3>2
  <2>4. CASE b \in busy
    <3>1. PICK e \in calls : Working(b) = {e}
      BY <2>4 DEF IInv, OneFetchPerButton
    <3>2. Working(b)' = {Crossed(e)}
      BY <2>3, <3>1
    <3>3. Crossed(e) \in calls'
      BY <1>1, <2>2, <3>1
    <3> QED BY <2>4, <3>2, <3>3
  <2>5. CASE b \notin busy
    BY <2>3, <2>5 DEF IInv, OneFetchPerButton
  <2> QED BY <2>4, <2>5
<1>7. CallsAboutSelected'
  <2>1. Sensible(fetch)'
    BY <1>1, <1>2 DEF Sensible, Lists
  <2>2. ASSUME NEW d \in others PROVE Sensible(Crossed(d))'
    <3>1. Sensible(d)
      BY DEF IInv, CallsAboutSelected
    <3> QED BY <1>3, <3>1 DEF Sensible
  <2> QED BY <1>1, <2>1, <2>2 DEF IInv, CallsAboutSelected
<1>8. ShownAboutSelected'
  BY <1>1 DEF ShownAboutSelected
<1>9. RequestsKept'
  <2> SUFFICES ASSUME NEW e \in calls', e.kind = "review"
               PROVE  /\ e.press \in DOMAIN asked /\ asked[e.press].customer = e.about
                      /\ e.stage = "sent" => ~Recorded(e.press)
                      /\ e.stage = "recorded" => Recorded(e.press)
                      /\ \A d \in calls' : (d.kind = "review" /\ d.press = e.press) => d = e
    BY DEF RequestsKept, Recorded
  <2>1. PICK b \in others : e = Crossed(b)
    BY <1>1, <1>2
  <2>2. b.kind = "review" /\ b.about = e.about /\ b.stage = e.stage /\ b.press = e.press
    BY <1>3, <2>1
  <2>3. ASSUME NEW d \in calls', d.kind = "review", d.press = e.press PROVE d = e
    <3>1. PICK a \in others : d = Crossed(a)
      BY <1>1, <1>2, <2>3
    <3>2. a.kind = "review" /\ a.press = b.press
      BY <1>3, <2>2, <2>3, <3>1
    <3>3. a = b
      BY <2>2, <3>2 DEF IInv, RequestsKept
    <3> QED BY <2>1, <3>1, <3>3
  <2> QED BY <2>2, <2>3 DEF IInv, RequestsKept
<1> QED BY <1>4, <1>5, <1>6, <1>7, <1>8, <1>9

LEMMA SelectKeeps ==
  ASSUME IInv, NEW c \in Customers, Select(c)
  PROVE  IInv'
<1>1. /\ Typed /\ selections' = selections + 1 /\ selections < MaxSelections
      /\ Reselect(c, calls)
      /\ UNCHANGED <<session, signing, listed, known, busy, reason, message, audit_check,
                     service, asked, presses, pages>>
  BY DEF IInv, Select
<1>2. /\ selected' \in Customers /\ shown' \in [Panels -> Shown] /\ calls' \subseteq CallSet
      /\ OneFetchPerButton' /\ CallsAboutSelected' /\ ShownAboutSelected' /\ RequestsKept'
  BY <1>1, ReselectKeeps DEF service
<1>3. selections' \in 0..MaxSelections
  <2>1. selections \in 0..MaxSelections /\ MaxSelections \in Nat
    BY <1>1, Counts
  <2> QED BY <1>1, <2>1
<1>4. Typed'
  BY <1>1, <1>2, <1>3 DEF Typed, service
<1>5. SigningIn' /\ PressesKept' /\ DecisionsKept'
  BY <1>1, SameDecisions DEF IInv, SigningIn, PressesKept, service
<1> QED BY <1>2, <1>4, <1>5 DEF IInv

\* A press of a button, within its bound.
LEMMA Pressed ==
  ASSUME Typed, presses < MaxPresses, presses' = presses + 1
  PROVE  presses' \in 1..MaxPresses /\ presses' \in 0..MaxPresses /\ presses' >= presses
<1>1. presses \in 0..MaxPresses /\ MaxPresses \in Nat
  BY Counts
<1> QED BY <1>1

LEMMA PressCheckKeeps ==
  ASSUME IInv, NEW check \in Checks, PressCheck(check)
  PROVE  IInv'
<1> PICK stage : stage = IF check \in Lists /\ ~known[check] THEN "listing" ELSE "sent"
  OBVIOUS
<1> PICK press : press = presses'
  OBVIOUS
<1> PICK fetch : fetch = Call(check, selected, stage, press)
  OBVIOUS
<1>1. /\ Typed /\ selected # None /\ check \notin busy /\ presses < MaxPresses
      /\ presses' = presses + 1 /\ busy' = busy \cup {check}
      /\ calls' = calls \cup {fetch}
      /\ UNCHANGED <<session, signing, listed, selected, known, shown, reason, message,
                     audit_check, service, asked, selections, pages>>
  BY DEF IInv, PressCheck
<1>2. press \in 0..MaxPresses /\ presses' \in 0..MaxPresses /\ presses' >= presses
  BY <1>1, Pressed
<1>3. selected \in Customers /\ check \in Buttons /\ check \notin {"list", "review", "case"}
  BY <1>1 DEF Typed, Buttons, Checks
<1>4. /\ fetch \in CallSet /\ fetch.kind = check /\ fetch.about = selected
      /\ fetch.stage = stage /\ fetch.open
  <2>1. stage \in Stages
    BY DEF Stages
  <2> QED BY <1>2, <1>3, <2>1, Made
<1>5. Typed'
  BY <1>1, <1>2, <1>3, <1>4 DEF Typed, service
<1>6. OneFetchPerButton'
  BY <1>1, <1>4, PressTakesButton DEF IInv
<1>7. CallsAboutSelected'
  <2>1. Sensible(fetch)
    BY <1>3, <1>4 DEF IInv, CallsAboutSelected, Sensible
  <2> QED BY <1>1, <2>1, StillSensible DEF IInv, CallsAboutSelected
<1>8. ShownAboutSelected'
  BY <1>1 DEF IInv, ShownAboutSelected, MayShow
<1>9. RequestsKept' /\ DecisionsKept'
  BY <1>1, <1>3, <1>4, SameRequests, SameDecisions DEF IInv, service
<1>10. PressesKept'
  BY <1>1, <1>2, <1>5, SamePresses DEF IInv
<1>11. SigningIn'
  BY <1>1 DEF IInv, SigningIn
<1> QED BY <1>5, <1>6, <1>7, <1>8, <1>9, <1>10, <1>11 DEF IInv

LEMMA PressAuditKeeps ==
  ASSUME IInv, PressAudit
  PROVE  IInv'
<1> PICK press : press = presses'
  OBVIOUS
<1> PICK fetch : fetch = Call("audit", None, "sent", press)
  OBVIOUS
<1>1. /\ Typed /\ "audit" \notin busy /\ presses < MaxPresses
      /\ presses' = presses + 1 /\ busy' = busy \cup {"audit"}
      /\ calls' = calls \cup {fetch}
      /\ UNCHANGED <<session, signing, listed, selected, known, shown, reason, message,
                     audit_check, service, asked, selections, pages>>
  BY DEF IInv, PressAudit
<1>2. press \in 0..MaxPresses /\ presses' \in 0..MaxPresses /\ presses' >= presses
  BY <1>1, Pressed
<1>3. "audit" \in Buttons
  BY DEF Buttons
<1>4. fetch \in CallSet /\ fetch.kind = "audit" /\ fetch.stage = "sent" /\ fetch.open
  <2>1. "sent" \in Stages
    BY DEF Stages
  <2> QED BY <1>2, <1>3, <2>1, Made
<1>5. Typed'
  BY <1>1, <1>2, <1>3, <1>4 DEF Typed, service
<1>6. OneFetchPerButton'
  BY <1>1, <1>4, PressTakesButton DEF IInv
<1>7. CallsAboutSelected'
  <2>1. Sensible(fetch)
    BY <1>4 DEF Sensible, AboutCustomers, Checks, Lists
  <2> QED BY <1>1, <2>1, StillSensible DEF IInv, CallsAboutSelected
<1>8. ShownAboutSelected'
  BY <1>1 DEF IInv, ShownAboutSelected, MayShow
<1>9. RequestsKept' /\ DecisionsKept'
  BY <1>1, <1>4, SameRequests, SameDecisions DEF IInv, service
<1>10. PressesKept'
  BY <1>1, <1>2, <1>5, SamePresses DEF IInv
<1>11. SigningIn'
  BY <1>1 DEF IInv, SigningIn
<1> QED BY <1>5, <1>6, <1>7, <1>8, <1>9, <1>10, <1>11 DEF IInv

\* A press of a review action is refused, or becomes a request that keeps what the
\* officer saw.
LEMMA PressReviewKeeps ==
  ASSUME IInv, NEW action \in Decisions, PressReview(action)
  PROVE  IInv'
<1> PICK press : press = presses'
  OBVIOUS
<1>1. /\ Typed /\ session # None /\ "review" \notin busy /\ presses < MaxPresses
      /\ action = SignOff => shown["investigation"].drafted
      /\ presses' = presses + 1
      /\ UNCHANGED <<session, signing, listed, selected, known, shown, reason, audit_check,
                     service, selections, pages>>
  BY DEF IInv, PressReview, Acts, Offered
<1>2. /\ press \in 1..MaxPresses /\ press \in 0..MaxPresses /\ presses' = press
      /\ presses' \in 0..MaxPresses /\ presses' >= presses
      /\ press \notin 1..presses /\ 1..presses \subseteq 1..press
      /\ 0 \in 0..MaxPresses
  <2>1. presses \in 0..MaxPresses /\ MaxPresses \in Nat
    BY <1>1, Counts
  <2> QED BY <1>1, <2>1
<1>3. SigningIn' /\ ShownAboutSelected'
  BY <1>1 DEF IInv, SigningIn, ShownAboutSelected, MayShow
<1>4. CASE selected = None \/ reason = ""
  <2>1. message' = Saying("refused") /\ UNCHANGED <<asked, busy, calls>>
    BY <1>4 DEF PressReview
  <2>2. /\ message'.text = "refused"
        /\ message' \in [text : {"none", "refused", "failed", "recorded"}, press : 0..MaxPresses]
    BY <1>2, <2>1 DEF Saying
  <2>3. Typed'
    BY <1>1, <1>2, <2>1, <2>2 DEF Typed, service
  <2>4. OneFetchPerButton'
    BY <2>1 DEF IInv, OneFetchPerButton, Working
  <2>5. CallsAboutSelected'
    BY <1>1, <2>1, StillSensible DEF IInv, CallsAboutSelected
  <2>6. RequestsKept' /\ DecisionsKept'
    BY <1>1, <2>1, <2>2, SameRequests, SameDecisions DEF IInv, service
  <2>7. PressesKept'
    BY <1>1, <1>2, <2>1, <2>3, SamePresses DEF IInv
  <2> QED BY <1>3, <2>3, <2>4, <2>5, <2>6, <2>7 DEF IInv
<1>5. CASE ~(selected = None \/ reason = "")
  <2> PICK fetch : fetch = Call("review", selected, "sent", press)
    OBVIOUS
  <2> PICK seen : seen = [customer |-> selected, actor |-> session, action |-> action,
                          reason |-> reason, draft |-> shown["investigation"]]
    OBVIOUS
  <2>1. /\ message' = Saying("none") /\ busy' = busy \cup {"review"}
        /\ calls' = calls \cup {fetch}
        /\ asked' = [n \in DOMAIN asked \cup {press} |-> IF n = press THEN seen ELSE asked[n]]
    BY <1>5 DEF PressReview
  <2>2. /\ message'.text = "none"
        /\ message' \in [text : {"none", "refused", "failed", "recorded"}, press : 0..MaxPresses]
    BY <1>2, <2>1 DEF Saying
  <2>3. selected \in Customers /\ session \in Officers /\ reason = "typed"
        /\ shown["investigation"] \in Shown
    BY <1>1, <1>5 DEF Typed, Panels, Checks
  <2>4. seen \in Press
    BY <2>3 DEF Press
  <2>5. /\ seen.customer = selected /\ seen.action = action
        /\ seen.draft = shown["investigation"]
    OBVIOUS
  <2>6. /\ fetch \in CallSet /\ fetch.kind = "review" /\ fetch.about = selected
        /\ fetch.stage = "sent" /\ fetch.press = press /\ fetch.open
    <3>1. "sent" \in Stages /\ "review" \in Buttons
      BY DEF Stages, Buttons
    <3> QED BY <1>2, <2>3, <3>1, Made
  <2>7. /\ DOMAIN asked \subseteq 1..presses /\ press \notin DOMAIN asked
        /\ DOMAIN asked' = DOMAIN asked \cup {press}
        /\ asked'[press] = seen /\ \A n \in DOMAIN asked : asked'[n] = asked[n]
    BY <1>2, <2>1 DEF IInv, PressesKept
  <2>8. Typed'
    <3>1. DOMAIN asked' \subseteq 1..MaxPresses /\ \A n \in DOMAIN asked' : asked'[n] \in Press
      BY <1>1, <1>2, <2>4, <2>7 DEF Typed
    <3>2. calls' \subseteq CallSet /\ busy' \subseteq Buttons
      BY <1>1, <2>1, <2>6 DEF Typed, Buttons
    <3> QED BY <1>1, <1>2, <2>2, <3>1, <3>2 DEF Typed, service
  <2>9. OneFetchPerButton'
    BY <1>1, <2>1, <2>6, PressTakesButton DEF IInv
  <2>10. CallsAboutSelected'
    <3>1. Sensible(fetch)
      BY <2>3, <2>6 DEF Sensible, Lists
    <3> QED BY <1>1, <2>1, <3>1, StillSensible DEF IInv, CallsAboutSelected
  <2>11. PressesKept'
    <3>1. action = SignOff => seen.draft.drafted /\ (seen.draft.about = selected \/ seen.draft.crossed)
      <4> SUFFICES ASSUME action = SignOff
                   PROVE  seen.draft.drafted /\ (seen.draft.about = selected \/ seen.draft.crossed)
        OBVIOUS
      <4>1. shown["investigation"].drafted /\ shown["investigation"] # NotShown
        BY <1>1 DEF NotShown
      <4>2. "investigation" \in Panels
        BY DEF Panels, Checks
      <4>3. shown["investigation"].crossed \/ MayShow("investigation", shown["investigation"].about)
        BY <4>1, <4>2 DEF IInv, ShownAboutSelected
      <4> QED BY <2>5, <4>1, <4>3 DEF MayShow
    <3>2. ASSUME NEW n \in DOMAIN asked', asked'[n].action = SignOff
          PROVE  /\ asked'[n].draft.drafted
                 /\ asked'[n].draft.about = asked'[n].customer \/ asked'[n].draft.crossed
      <4>1. CASE n = press
        BY <2>5, <2>7, <3>1, <3>2, <4>1
      <4>2. CASE n # press
        BY <2>7, <3>2, <4>2 DEF IInv, PressesKept
      <4> QED BY <4>1, <4>2
    <3>3. DOMAIN asked' \subseteq 1..presses'
      BY <1>2, <2>7
    <3> QED BY <3>2, <3>3 DEF PressesKept
  <2>12. \A i \in DOMAIN decisions : decisions[i].press \in DOMAIN asked
    BY DEF IInv, DecisionsKept
  <2>13. RequestsKept'
    <3> SUFFICES ASSUME NEW c \in calls', c.kind = "review"
                 PROVE  /\ c.press \in DOMAIN asked' /\ asked'[c.press].customer = c.about
                        /\ c.stage = "sent" => ~Recorded(c.press)
                        /\ c.stage = "recorded" => Recorded(c.press)
                        /\ \A d \in calls' : (d.kind = "review" /\ d.press = c.press) => d = c
      BY <1>1 DEF RequestsKept, Recorded, service
    <3>1. \A d \in calls : d.kind = "review" => d.press \in DOMAIN asked
      BY DEF IInv, RequestsKept
    <3>2. CASE c = fetch
      <4>1. ~Recorded(press)
        BY <2>7, <2>12 DEF Recorded
      <4>2. \A d \in calls' : (d.kind = "review" /\ d.press = c.press) => d = c
        BY <2>1, <2>6, <2>7, <3>1, <3>2
      <4> QED BY <2>5, <2>6, <2>7, <3>2, <4>1, <4>2
    <3>3. CASE c # fetch
      <4>1. c \in calls /\ c.press \in DOMAIN asked /\ c.press # press
        BY <2>1, <2>7, <3>1, <3>3
      <4>2. \A d \in calls' : (d.kind = "review" /\ d.press = c.press) => d = c
        BY <2>1, <2>6, <4>1 DEF IInv, RequestsKept
      <4> QED BY <2>7, <4>1, <4>2 DEF IInv, RequestsKept
    <3> QED BY <3>2, <3>3
  <2>14. DecisionsKept'
    BY <1>1, <2>2, <2>7, <2>12 DEF IInv, DecisionsKept, Recorded, service
  <2> QED BY <1>3, <2>8, <2>9, <2>10, <2>11, <2>13, <2>14 DEF IInv
<1> QED BY <1>4, <1>5

-----------------------------------------------------------------------------
\* The service records a request: the press is a decision now.
LEMMA RecordKeeps ==
  ASSUME IInv, NEW c \in calls, Record(c)
  PROVE  IInv'
<1> PICK d : d = [press |-> c.press, customer |-> c.about, actor |-> asked[c.press].actor,
                  action |-> asked[c.press].action]
  OBVIOUS
<1> PICK done : done = [c EXCEPT !.stage = "recorded"]
  OBVIOUS
<1> PICK n : n = Len(decisions) + 1
  OBVIOUS
<1>1. /\ Typed /\ c.kind = "review" /\ c.stage = "sent"
      /\ decisions' = Append(decisions, d) /\ calls' = (calls \ {c}) \cup {done}
      /\ UNCHANGED <<session, signing, page, case_cache, asked, bounds>>
  BY DEF IInv, Record
<1>2. /\ c.press \in DOMAIN asked /\ asked[c.press].customer = c.about
      /\ ~Recorded(c.press)
      /\ \A b \in calls : (b.kind = "review" /\ b.press = c.press) => b = c
  BY <1>1 DEF IInv, RequestsKept
<1>3. c.press \in 1..MaxPresses /\ asked[c.press] \in Press /\ c \in CallSet
  BY <1>1, <1>2 DEF Typed
<1>4. d \in Decision
  BY <1>2, <1>3 DEF Decision, Press
<1>5. /\ d.press = c.press /\ d.customer = c.about /\ d.actor = asked[c.press].actor
      /\ d.action = asked[c.press].action
  OBVIOUS
<1>6. /\ done \in CallSet /\ done.kind = "review" /\ done.about = c.about
      /\ done.stage = "recorded" /\ done.press = c.press /\ done.crossed = c.crossed
      /\ done.open = c.open
  <2>1. "recorded" \in Stages
    BY DEF Stages
  <2> QED BY <1>1, <1>3, <2>1, GoneOn
<1>7. /\ decisions' \in Seq(Decision)
      /\ DOMAIN decisions' = DOMAIN decisions \cup {n} /\ n \notin DOMAIN decisions
      /\ \A i \in DOMAIN decisions : decisions'[i] = decisions[i]
      /\ decisions'[n] = d
  <2>1. decisions \in Seq(Decision)
    BY <1>1 DEF Typed
  <2>2. DOMAIN decisions = 1..Len(decisions) /\ Len(decisions) \in Nat
    BY <2>1, LenProperties
  <2>3. /\ Append(decisions, d) \in Seq(Decision) /\ Len(Append(decisions, d)) = n
        /\ \A i \in 1..Len(decisions) : Append(decisions, d)[i] = decisions[i]
        /\ Append(decisions, d)[n] = d
    BY <1>4, <2>1, AppendProperties
  <2>4. DOMAIN Append(decisions, d) = 1..n
    BY <2>3, LenProperties
  <2> QED BY <1>1, <2>2, <2>3, <2>4
<1>8. Typed'
  <2>1. calls' \subseteq CallSet
    BY <1>1, <1>6 DEF Typed
  <2> QED BY <1>1, <1>7, <2>1 DEF Typed, page, bounds
<1>9. OneFetchPerButton'
  BY <1>1, <1>6, GoingOnKeepsButton DEF IInv, page
<1>10. CallsAboutSelected'
  <2>1. Sensible(c)
    BY DEF IInv, CallsAboutSelected
  <2>2. Sensible(done)
    BY <1>1, <1>6, <2>1 DEF Sensible, Lists, AboutCustomers
  <2> QED BY <1>1, <2>2, StillSensible DEF IInv, CallsAboutSelected, page
<1>11. ShownAboutSelected' /\ SigningIn' /\ PressesKept'
  BY <1>1 DEF IInv, ShownAboutSelected, MayShow, SigningIn, PressesKept, page, bounds
<1>12. \A press : Recorded(press)' <=> Recorded(press) \/ press = c.press
  BY <1>5, <1>7 DEF Recorded
<1>13. RequestsKept'
  <2> SUFFICES ASSUME NEW e \in calls', e.kind = "review"
               PROVE  /\ e.press \in DOMAIN asked /\ asked[e.press].customer = e.about
                      /\ e.stage = "sent" => ~Recorded(e.press)'
                      /\ e.stage = "recorded" => Recorded(e.press)'
                      /\ \A b \in calls' : (b.kind = "review" /\ b.press = e.press) => b = e
    BY <1>1 DEF RequestsKept
  <2>1. CASE e = done
    <3>1. \A b \in calls' : (b.kind = "review" /\ b.press = e.press) => b = e
      BY <1>1, <1>2, <1>6, <2>1
    <3> QED BY <1>2, <1>6, <1>12, <2>1, <3>1
  <2>2. CASE e # done
    <3>1. e \in calls /\ e # c /\ e.press # c.press
      BY <1>1, <1>2, <2>2
    <3>2. \A b \in calls' : (b.kind = "review" /\ b.press = e.press) => b = e
      BY <1>1, <1>6, <3>1 DEF IInv, RequestsKept
    <3> QED BY <1>12, <3>1, <3>2 DEF IInv, RequestsKept
  <2> QED BY <2>1, <2>2
<1>14. DecisionsKept'
  <2>1. (message.text = "recorded" => Recorded(message.press))'
    <3>1. message' = message
      BY <1>1 DEF page
    <3>2. message.text = "recorded" =>
            \E i \in DOMAIN decisions : decisions[i].press = message.press
      BY DEF IInv, DecisionsKept, Recorded
    <3>3. message.text = "recorded" =>
            \E i \in DOMAIN decisions' : decisions'[i].press = message.press
      BY <1>7, <3>2
    <3> QED BY <3>1, <3>3 DEF Recorded
  <2>2. \A i \in DOMAIN decisions : decisions[i].press # c.press
    BY <1>2 DEF Recorded
  <2>3. ASSUME NEW i \in DOMAIN decisions'
        PROVE  LET f == decisions'[i] IN
                 /\ f.press \in DOMAIN asked
                 /\ asked[f.press].customer = f.customer /\ asked[f.press].actor = f.actor
                 /\ asked[f.press].action = f.action
                 /\ \A j \in DOMAIN decisions' : decisions'[j].press = f.press => j = i
    <3>1. CASE i = n
      BY <1>2, <1>5, <1>7, <2>2, <3>1
    <3>2. CASE i # n
      BY <1>5, <1>7, <2>2, <3>2 DEF IInv, DecisionsKept
    <3> QED BY <3>1, <3>2
  <2>4. asked' = asked
    BY <1>1
  <2> QED BY <2>1, <2>3, <2>4 DEF DecisionsKept
<1> QED BY <1>8, <1>9, <1>10, <1>11, <1>13, <1>14 DEF IInv

-----------------------------------------------------------------------------
\* A fetch of an open page has settled, and was all there was to it.
LEMMA SettledKeeps ==
  ASSUME IInv, Typed', ShownAboutSelected', NEW c \in calls, c.open,
         calls' = calls \ {c}, busy' = busy \ {c.kind},
         \A check \in Lists : known'[check] => check \notin Empty,
         message'.text = "recorded" => message' = message,
         UNCHANGED <<session, signing, selected, decisions, asked, presses, pages>>
  PROVE  IInv'
<1>1. OneFetchPerButton'
  <2> PICK more : more = {}
    OBVIOUS
  <2>1. calls' = (calls \ {c}) \cup more /\ \A d \in more : d.kind \notin Buttons
    OBVIOUS
  <2> QED BY <2>1, SettledFreesButton DEF IInv
<1>2. CallsAboutSelected'
  BY StillSensible DEF IInv, CallsAboutSelected
<1>3. RequestsKept' /\ DecisionsKept'
  BY SameRequests, SameDecisions DEF IInv
<1>4. PressesKept' /\ SigningIn'
  BY DEF IInv, PressesKept, SigningIn
<1> QED BY <1>1, <1>2, <1>3, <1>4 DEF IInv

\* A fetch that is not for a decision goes on to another stage.
LEMMA GoingOnKeeps ==
  ASSUME IInv, Typed', NEW c \in calls, c.kind # "review",
         NEW e, e.kind = c.kind, e.open = c.open, Sensible(e),
         calls' = (calls \ {c}) \cup {e},
         \A check \in Lists : known'[check] => check \notin Empty,
         UNCHANGED <<session, signing, selected, shown, busy, message, decisions, asked,
                     presses, pages>>
  PROVE  IInv'
<1>1. OneFetchPerButton'
  BY GoingOnKeepsButton DEF IInv
<1>2. CallsAboutSelected'
  BY StillSensible DEF IInv, CallsAboutSelected
<1>3. RequestsKept' /\ DecisionsKept'
  BY SameRequests, SameDecisions DEF IInv
<1>4. PressesKept' /\ SigningIn'
  BY DEF IInv, PressesKept, SigningIn
<1>5. ShownAboutSelected'
  BY DEF IInv, ShownAboutSelected, MayShow
<1> QED BY <1>1, <1>2, <1>3, <1>4, <1>5 DEF IInv

\* What a panel shows of an answer is about the selected customer, if the answer's
\* fetch was not crossed.
LEMMA ShowKeeps ==
  ASSUME IInv, NEW c \in calls, c.open, c.kind \in Panels, NEW drafted \in BOOLEAN,
         Show(c, drafted), UNCHANGED selected
  PROVE  shown' \in [Panels -> Shown] /\ ShownAboutSelected'
<1> PICK told : told = [about |-> Subject(c), drafted |-> drafted, crossed |-> c.crossed]
  OBVIOUS
<1> PICK kind : kind = c.kind
  OBVIOUS
<1>1. shown \in [Panels -> Shown] /\ c \in CallSet /\ kind \in Panels
  BY DEF IInv, Typed
<1>2. shown' = [shown EXCEPT ![kind] = told]
  BY DEF Show
<1>3. told.about = Subject(c) /\ told.crossed = c.crossed
  OBVIOUS
<1>4. kind \in AboutCustomers
  BY <1>1 DEF Panels, AboutCustomers
<1>5. /\ c.about \in Customers
      /\ ~c.crossed => c.about = selected
      /\ (kind = "ubo" /\ c.stage = "sent") => "ubo" \notin Empty
  BY <1>4 DEF IInv, CallsAboutSelected, Sensible, Lists
<1>6. Subject(c) \in Subjects /\ (~c.crossed => MayShow(kind, Subject(c)))
  <2>1. CASE kind = "ubo" /\ c.stage = "sent"
    <3>1. Subject(c) = Traced(c.about)
      BY <2>1 DEF Subject
    <3>2. Structures # <<>>
      BY <1>5, <2>1 DEF Empty, Lists
    <3>3. Subject(c) \in Subjects
      BY <1>5, <3>1, <3>2 DEF Subjects
    <3>4. ~c.crossed => MayShow(kind, Subject(c))
      BY <1>5, <2>1, <3>1 DEF MayShow
    <3> QED BY <3>3, <3>4
  <2>2. CASE kind = "case"
    <3>1. Subject(c) = CaseOf(c.about)
      BY <2>2 DEF Subject
    <3> QED BY <1>5, <2>2, <3>1 DEF CaseOf, Subjects, MayShow
  <2>3. CASE kind # "case" /\ ~(kind = "ubo" /\ c.stage = "sent")
    <3>1. Subject(c) = c.about
      BY <2>3 DEF Subject
    <3> QED BY <1>5, <3>1 DEF Subjects, MayShow
  <2> QED BY <2>1, <2>2, <2>3
<1>7. told \in Shown
  BY <1>1, <1>6 DEF Shown, CallSet
<1>8. ShownAboutSelected'
  <2> SUFFICES ASSUME NEW p \in Panels
               PROVE  shown'[p] = NotShown \/ shown'[p].crossed \/ MayShow(p, shown'[p].about)
    BY DEF ShownAboutSelected, MayShow
  <2>1. CASE p = kind
    BY <1>1, <1>2, <1>3, <1>6, <2>1
  <2>2. CASE p # kind
    BY <1>1, <1>2, <2>2 DEF IInv, ShownAboutSelected
  <2> QED BY <2>1, <2>2
<1> QED BY <1>1, <1>2, <1>7, <1>8

-----------------------------------------------------------------------------
\* The answers that are no decision's.
LEMMA ListAnsweredKeeps ==
  ASSUME IInv, NEW c \in calls, c.open, ListAnswered(c),
         UNCHANGED <<session, signing, service, asked, bounds>>
  PROVE  IInv'
<1>1. /\ Typed /\ c.kind = "list" /\ c.about \in Lists
      /\ known' = [known EXCEPT ![c.about] = c.about \notin Empty]
      /\ calls' = calls \ {c}
      /\ UNCHANGED <<listed, selected, shown, busy, reason, message, audit_check>>
  BY DEF IInv, ListAnswered, Others, CallsAboutSelected, Sensible
<1>2. busy' = busy \ {c.kind}
  BY <1>1 DEF Typed, Buttons, Checks
<1>3. known' \in [Lists -> BOOLEAN] /\ \A check \in Lists : known'[check] => check \notin Empty
  <2>1. known \in [Lists -> BOOLEAN]
    BY <1>1 DEF Typed
  <2> QED BY <1>1, <2>1 DEF IInv, CallsAboutSelected
<1>4. Typed'
  BY <1>1, <1>3 DEF Typed, service, bounds
<1>5. ShownAboutSelected'
  BY <1>1 DEF IInv, ShownAboutSelected, MayShow
<1> QED BY <1>1, <1>2, <1>3, <1>4, <1>5, SettledKeeps DEF service, bounds

LEMMA ClientsAnsweredKeeps ==
  ASSUME IInv, NEW c \in calls, c.open, ClientsAnswered(c),
         UNCHANGED <<session, signing, service, asked, bounds>>
  PROVE  IInv'
<1> PICK others : others = calls \ {c}
  OBVIOUS
<1>1. /\ Typed /\ c.kind = "clients" /\ listed' = TRUE
      /\ Reselect(First, others)
      /\ UNCHANGED <<known, busy, reason, message, audit_check>>
  BY DEF IInv, ClientsAnswered, Others
<1>2. others \in SUBSET calls /\ \A d \in calls \ others : d.kind \notin Buttons \cup {"review"}
  BY <1>1 DEF Buttons, Checks
<1>3. First \in Customers
  BY CustomersAssumption
<1>4. /\ selected' \in Customers /\ shown' \in [Panels -> Shown] /\ calls' \subseteq CallSet
      /\ OneFetchPerButton' /\ CallsAboutSelected' /\ ShownAboutSelected' /\ RequestsKept'
  BY <1>1, <1>2, <1>3, ReselectKeeps DEF service
<1>5. Typed'
  BY <1>1, <1>4 DEF Typed, service, bounds
<1>6. SigningIn' /\ PressesKept' /\ DecisionsKept'
  BY <1>1, SameDecisions DEF IInv, SigningIn, PressesKept, service, bounds
<1> QED BY <1>4, <1>5, <1>6 DEF IInv

LEMMA CaseAnsweredKeeps ==
  ASSUME IInv, NEW c \in calls, c.open, CaseAnswered(c),
         UNCHANGED <<session, signing, service, asked, bounds>>
  PROVE  IInv'
<1>1. /\ Typed /\ c.kind = "case" /\ Show(c, FALSE) /\ calls' = calls \ {c}
      /\ UNCHANGED <<listed, selected, known, busy, reason, message, audit_check>>
  BY DEF IInv, CaseAnswered, Others
<1>2. busy' = busy \ {c.kind}
  BY <1>1 DEF Typed, Buttons, Checks
<1>3. c.kind \in Panels
  BY <1>1 DEF Panels
<1>4. shown' \in [Panels -> Shown] /\ ShownAboutSelected'
  BY <1>1, <1>3, ShowKeeps
<1>5. Typed'
  BY <1>1, <1>4 DEF Typed, service, bounds
<1>6. \A check \in Lists : known'[check] => check \notin Empty
  BY <1>1 DEF IInv, CallsAboutSelected
<1> QED BY <1>1, <1>2, <1>4, <1>5, <1>6, SettledKeeps DEF service, bounds

LEMMA ListingAnsweredKeeps ==
  ASSUME IInv, NEW c \in calls, c.open, ListingAnswered(c),
         UNCHANGED <<session, signing, service, asked, bounds>>
  PROVE  IInv'
<1>1. /\ Typed /\ c.stage = "listing" /\ c.kind \in Lists /\ c \in CallSet
      /\ UNCHANGED <<listed, selected, reason, message, audit_check>>
  BY DEF IInv, ListingAnswered, CallsAboutSelected, Sensible, Typed
<1>2. c.kind # "review" /\ c.kind \in Panels
  BY <1>1 DEF Lists, Panels, Checks
<1>3. CASE c.kind \notin Empty
  <2> PICK e : e = [c EXCEPT !.stage = "sent"]
    OBVIOUS
  <2>1. /\ known' = [known EXCEPT ![c.kind] = TRUE]
        /\ calls' = (calls \ {c}) \cup {e} /\ UNCHANGED <<shown, busy>>
    BY <1>3 DEF ListingAnswered, Others
  <2>2. /\ e \in CallSet /\ e.kind = c.kind /\ e.about = c.about /\ e.stage = "sent"
        /\ e.crossed = c.crossed /\ e.open = c.open
    <3>1. "sent" \in Stages
      BY DEF Stages
    <3>2. c \in CallSet
      BY <1>1
    <3> QED BY <3>1, <3>2 DEF CallSet
  <2>3. known' \in [Lists -> BOOLEAN] /\ \A check \in Lists : known'[check] => check \notin Empty
    <3>1. known \in [Lists -> BOOLEAN]
      BY <1>1 DEF Typed
    <3> QED BY <1>1, <1>3, <2>1, <3>1 DEF IInv, CallsAboutSelected
  <2>4. Typed'
    <3>1. calls' \subseteq CallSet
      BY <1>1, <2>1, <2>2 DEF Typed
    <3> QED BY <1>1, <2>1, <2>3, <3>1 DEF Typed, service, bounds
  <2>5. Sensible(e)
    <3>1. Sensible(c)
      BY DEF IInv, CallsAboutSelected
    <3> QED BY <1>1, <1>3, <2>2, <3>1 DEF Sensible, Lists
  <2> QED BY <1>1, <1>2, <2>1, <2>2, <2>3, <2>4, <2>5, GoingOnKeeps DEF service, bounds
<1>4. CASE c.kind \in Empty
  <2>1. /\ Show(c, FALSE) /\ busy' = busy \ {c.kind} /\ calls' = calls \ {c}
        /\ UNCHANGED known
    BY <1>4 DEF ListingAnswered, Others
  <2>2. shown' \in [Panels -> Shown] /\ ShownAboutSelected'
    BY <1>1, <1>2, <2>1, ShowKeeps
  <2>3. Typed'
    BY <1>1, <2>1, <2>2 DEF Typed, service, bounds
  <2>4. \A check \in Lists : known'[check] => check \notin Empty
    BY <2>1 DEF IInv, CallsAboutSelected
  <2> QED BY <1>1, <2>1, <2>2, <2>3, <2>4, SettledKeeps DEF service, bounds
<1> QED BY <1>3, <1>4

LEMMA CheckAnsweredKeeps ==
  ASSUME IInv, NEW c \in calls, c.open, CheckAnswered(c),
         UNCHANGED <<session, signing, service, asked, bounds>>
  PROVE  IInv'
<1>1. /\ Typed /\ c.kind \in Panels /\ busy' = busy \ {c.kind} /\ calls' = calls \ {c}
      /\ UNCHANGED <<listed, selected, known, reason, message, audit_check>>
  BY DEF IInv, CheckAnswered, Others, Panels
<1>2. PICK drafted \in BOOLEAN : Show(c, drafted)
  BY DEF CheckAnswered
<1>3. shown' \in [Panels -> Shown] /\ ShownAboutSelected'
  BY <1>1, <1>2, ShowKeeps
<1>4. Typed'
  BY <1>1, <1>3 DEF Typed, service, bounds
<1>5. \A check \in Lists : known'[check] => check \notin Empty
  BY <1>1 DEF IInv, CallsAboutSelected
<1> QED BY <1>1, <1>3, <1>4, <1>5, SettledKeeps DEF service, bounds

LEMMA AuditAnsweredKeeps ==
  ASSUME IInv, NEW c \in calls, c.open, AuditAnswered(c),
         UNCHANGED <<session, signing, service, asked, bounds>>
  PROVE  IInv'
<1>1. /\ Typed /\ c.kind \in {"audit", "verify"} /\ calls' = calls \ {c}
      /\ audit_check' \in {"none", "governance", "entity", "error"}
      /\ busy' = IF c.kind = "audit" THEN busy \ {"audit"} ELSE busy
      /\ UNCHANGED <<listed, selected, known, shown, reason, message>>
  BY DEF IInv, AuditAnswered, Others
<1>2. busy' = busy \ {c.kind}
  BY <1>1 DEF Typed, Buttons, Checks
<1>3. Typed'
  BY <1>1, <1>2 DEF Typed, service, bounds
<1>4. ShownAboutSelected' /\ \A check \in Lists : known'[check] => check \notin Empty
  BY <1>1 DEF IInv, ShownAboutSelected, MayShow, CallsAboutSelected
<1> QED BY <1>1, <1>2, <1>3, <1>4, SettledKeeps DEF service, bounds

\* A decision's answer says that it is recorded, which it is.
LEMMA ReviewAnsweredKeeps ==
  ASSUME IInv, NEW c \in calls, c.open, ReviewAnswered(c),
         UNCHANGED <<session, signing, service, asked, bounds>>
  PROVE  IInv'
<1> PICK sent : sent = Call("case", c.about, "sent", c.press)
  OBVIOUS
<1> PICK again : again = [sent EXCEPT !.crossed = c.crossed]
  OBVIOUS
<1> PICK verify : verify = Call("verify", None, "sent", c.press)
  OBVIOUS
<1>1. /\ Typed /\ c.kind = "review" /\ c.stage = "recorded"
      /\ message' = [text |-> "recorded", press |-> c.press] /\ reason' = ""
      /\ busy' = busy \ {c.kind} /\ calls' = (calls \ {c}) \cup {again, verify}
      /\ UNCHANGED <<listed, selected, known, shown, audit_check>>
  BY DEF IInv, ReviewAnswered, Others
<1>2. c \in CallSet /\ c.press \in 0..MaxPresses /\ c.crossed \in BOOLEAN /\ Sensible(c)
  BY <1>1 DEF Typed, CallSet, IInv, CallsAboutSelected
<1>3. c.about \in Customers /\ (~c.crossed => c.about = selected)
  BY <1>1, <1>2 DEF Sensible, AboutCustomers
<1>4. "sent" \in Stages
  BY DEF Stages
<1>5. /\ again \in CallSet /\ again.kind = "case" /\ again.about = c.about
      /\ again.stage = "sent" /\ again.crossed = c.crossed
  <2>1. sent \in CallSet /\ sent.kind = "case" /\ sent.about = c.about /\ sent.stage = "sent"
    BY <1>2, <1>3, <1>4, Made
  <2>2. c.crossed \in BOOLEAN
    BY <1>2
  <2> QED BY <2>1, <2>2, Crossing
<1>6. verify \in CallSet /\ verify.kind = "verify" /\ verify.stage = "sent"
  BY <1>2, <1>4, Made
<1>7. message' \in [text : {"none", "refused", "failed", "recorded"}, press : 0..MaxPresses]
  BY <1>1, <1>2
<1>8. Typed'
  <2>1. calls' \subseteq CallSet /\ busy' \subseteq Buttons
    BY <1>1, <1>5, <1>6 DEF Typed
  <2> QED BY <1>1, <1>7, <2>1 DEF Typed, service, bounds
<1>9. OneFetchPerButton'
  <2> PICK more : more = {again, verify}
    OBVIOUS
  <2>1. \A d \in more : d.kind \notin Buttons
    BY <1>5, <1>6 DEF Buttons, Checks
  <2>2. calls' = (calls \ {c}) \cup more
    BY <1>1
  <2> QED BY <1>1, <2>1, <2>2, SettledFreesButton DEF IInv
<1>10. CallsAboutSelected'
  <2>1. Sensible(again) /\ Sensible(verify)
    BY <1>3, <1>5, <1>6 DEF Sensible, AboutCustomers, Checks, Lists
  <2> QED BY <1>1, <2>1, StillSensible DEF IInv, CallsAboutSelected
<1>11. ShownAboutSelected' /\ PressesKept' /\ SigningIn'
  BY <1>1 DEF IInv, ShownAboutSelected, MayShow, PressesKept, SigningIn, bounds
<1>12. RequestsKept'
  BY <1>1, <1>5, <1>6, SameRequests DEF IInv, service
<1>13. DecisionsKept'
  <2>1. message'.text = "recorded" /\ message'.press = c.press
    BY <1>1
  <2>2. Recorded(c.press)
    BY <1>1 DEF IInv, RequestsKept
  <2> QED BY <2>1, <2>2 DEF IInv, DecisionsKept, Recorded, service
<1> QED BY <1>8, <1>9, <1>10, <1>11, <1>12, <1>13 DEF IInv

LEMMA AnsweredKeeps ==
  ASSUME IInv, NEW c \in calls, Answered(c)
  PROVE  IInv'
<1>1. c.open /\ UNCHANGED <<session, signing, service, asked, bounds>>
  BY DEF Answered
<1>2. CASE ListAnswered(c)
  BY <1>1, <1>2, ListAnsweredKeeps
<1>3. CASE ClientsAnswered(c)
  BY <1>1, <1>3, ClientsAnsweredKeeps
<1>4. CASE CaseAnswered(c)
  BY <1>1, <1>4, CaseAnsweredKeeps
<1>5. CASE ListingAnswered(c)
  BY <1>1, <1>5, ListingAnsweredKeeps
<1>6. CASE CheckAnswered(c)
  BY <1>1, <1>6, CheckAnsweredKeeps
<1>7. CASE ReviewAnswered(c)
  BY <1>1, <1>7, ReviewAnsweredKeeps
<1>8. CASE AuditAnswered(c)
  BY <1>1, <1>8, AuditAnsweredKeeps
<1> QED BY <1>2, <1>3, <1>4, <1>5, <1>6, <1>7, <1>8 DEF Answered

\* A failed fetch frees its button, or goes on to the entity service's chain.
LEMMA FailKeeps ==
  ASSUME IInv, NEW c \in calls, Fail(c)
  PROVE  IInv'
<1>1. /\ Typed /\ c.open /\ c \in CallSet
      /\ UNCHANGED <<session, signing, listed, selected, known, shown, reason, service, asked,
                     bounds>>
  BY DEF IInv, Fail, Typed
<1>2. \A check \in Lists : known'[check] => check \notin Empty
  BY <1>1 DEF IInv, CallsAboutSelected
<1>3. CASE c.kind = "audit" /\ c.stage = "sent"
  <2> PICK e : e = [c EXCEPT !.stage = "fallback"]
    OBVIOUS
  <2>1. calls' = (calls \ {c}) \cup {e} /\ UNCHANGED <<audit_check, message, busy>>
    BY <1>3 DEF Fail, Others
  <2>2. e \in CallSet /\ e.kind = c.kind /\ e.stage = "fallback" /\ e.open = c.open
    <3>1. "fallback" \in Stages
      BY DEF Stages
    <3>2. c \in CallSet
      BY <1>1
    <3> QED BY <3>1, <3>2, GoneOn
  <2>3. Typed'
    <3>1. calls' \subseteq CallSet
      BY <1>1, <2>1, <2>2 DEF Typed
    <3> QED BY <1>1, <2>1, <3>1 DEF Typed, service, bounds
  <2>4. Sensible(e)
    BY <1>3, <2>2 DEF Sensible, AboutCustomers, Checks, Lists
  <2> QED BY <1>1, <1>2, <1>3, <2>1, <2>2, <2>3, <2>4, GoingOnKeeps DEF service, bounds
<1>4. CASE ~(c.kind = "audit" /\ c.stage = "sent")
  <2>1. /\ calls' = calls \ {c} /\ busy' = busy \ {c.kind}
        /\ audit_check' = IF c.kind = "audit" THEN "error" ELSE audit_check
        /\ message' = IF c.kind = "review" THEN Saying("failed") ELSE message
    BY <1>4 DEF Fail, Others
  <2>2. /\ message' \in [text : {"none", "refused", "failed", "recorded"}, press : 0..MaxPresses]
        /\ message'.text = "recorded" => message' = message
    <3>1. 0 \in 0..MaxPresses
      BY <1>1, Counts
    <3>2. CASE c.kind = "review"
      BY <2>1, <3>1, <3>2 DEF Saying
    <3>3. CASE c.kind # "review"
      BY <1>1, <2>1, <3>3 DEF Typed
    <3> QED BY <3>2, <3>3
  <2>3. Typed'
    BY <1>1, <2>1, <2>2 DEF Typed, service, bounds
  <2>4. ShownAboutSelected'
    BY <1>1 DEF IInv, ShownAboutSelected, MayShow
  <2> QED BY <1>1, <1>2, <2>1, <2>2, <2>3, <2>4, SettledKeeps DEF service, bounds
<1> QED BY <1>3, <1>4

-----------------------------------------------------------------------------
\* The invariant holds throughout.
LEMMA InductiveInv == Spec => []IInv
<1>1. IInv /\ [Next]_vars => IInv'
  <2> SUFFICES ASSUME IInv, [Next]_vars PROVE IInv'
    OBVIOUS
  <2>1. CASE UNCHANGED vars
    <3>1. UNCHANGED <<session, signing, listed, selected, known, shown, busy, reason, message,
                      audit_check, calls, case_cache, decisions, asked, presses, selections,
                      pages>>
      BY <2>1 DEF vars, page, service, bounds
    <3>2. Typed' /\ SigningIn'
      BY <3>1 DEF IInv, Typed, SigningIn
    <3> QED BY <3>1, <3>2, Quiet
  <2>2. ASSUME NEW officer \in Officers, SignIn(officer) PROVE IInv'
    BY <2>2, SignInKeeps
  <2>3. ASSUME NEW ok \in BOOLEAN, SignInAnswered(ok) PROVE IInv'
    BY <2>3, SignInAnsweredKeeps
  <2>4. ASSUME NEW reload \in BOOLEAN, Leave(reload) PROVE IInv'
    BY <2>4, LeaveKeeps
  <2>5. ASSUME NEW c \in Customers, Select(c) PROVE IInv'
    BY <2>5, SelectKeeps
  <2>6. CASE MakeCases
    BY <2>6, MakeCasesKeeps
  <2>7. ASSUME NEW text \in {"", "typed"}, Write(text) PROVE IInv'
    BY <2>7, WriteKeeps
  <2>8. ASSUME NEW check \in Checks, PressCheck(check) PROVE IInv'
    BY <2>8, PressCheckKeeps
  <2>9. ASSUME NEW action \in Decisions, PressReview(action) PROVE IInv'
    BY <2>9, PressReviewKeeps
  <2>10. CASE PressAudit
    BY <2>10, PressAuditKeeps
  <2>11. ASSUME NEW c \in calls, Settle(c) PROVE IInv'
    BY <2>11, RecordKeeps, AnsweredKeeps, FailKeeps DEF Settle
  <2> QED BY <2>1, <2>2, <2>3, <2>4, <2>5, <2>6, <2>7, <2>8, <2>9, <2>10, <2>11 DEF Next
<1> QED BY InitInv, <1>1, PTL DEF Spec

\* Type correctness; a button is disabled just while one fetch of this page works for
\* it (App.jsx's busy flags).
THEOREM WorkbenchTyped == Spec => []TypeOK
<1>1. IInv => TypeOK
  <2> SUFFICES ASSUME IInv, NEW b \in Buttons
               PROVE  Cardinality({c \in calls : c.kind = b /\ c.open}) = IF b \in busy THEN 1 ELSE 0
    BY DEF IInv, TypeOK
  <2>1. CASE b \in busy
    <3>1. PICK c : Working(b) = {c}
      BY <2>1 DEF IInv, OneFetchPerButton
    <3> QED BY <2>1, <3>1, FS_Singleton DEF Working
  <2>2. CASE b \notin busy
    <3>1. Working(b) = {}
      BY <2>2 DEF IInv, OneFetchPerButton
    <3> QED BY <2>2, <3>1, FS_EmptySet DEF Working
  <2> QED BY <2>1, <2>2
<1> QED BY InductiveInv, <1>1, PTL

\* The governance record is what the officers decided, whatever is lost, left, reloaded
\* or pressed meanwhile (review, submit_review, signoff_sar).
THEOREM DecisionsAreIntended == Spec => []DecisionsIntended
<1>1. IInv => DecisionsIntended
  <2> SUFFICES ASSUME IInv PROVE DecisionsIntended
    OBVIOUS
  <2>1. message.text = "recorded" => \E i \in DOMAIN decisions : decisions[i].press = message.press
    BY DEF IInv, DecisionsKept, Recorded
  <2>2. ASSUME NEW i \in DOMAIN decisions
        PROVE  LET d == decisions[i]
                   press == asked[d.press]
               IN /\ press.customer = d.customer /\ press.actor = d.actor /\ press.action = d.action
                  /\ press.reason = "typed"
                  /\ \A j \in DOMAIN decisions : decisions[j].press = d.press => j = i
                  /\ d.action = SignOff =>
                       /\ press.draft.drafted
                       /\ press.draft.about = d.customer \/ press.draft.crossed
    <3> PICK n : n = decisions[i].press
      OBVIOUS
    <3>1. /\ n \in DOMAIN asked /\ asked[n].customer = decisions[i].customer
          /\ asked[n].actor = decisions[i].actor /\ asked[n].action = decisions[i].action
          /\ \A j \in DOMAIN decisions : decisions[j].press = n => j = i
      BY DEF IInv, DecisionsKept
    <3>2. asked[n].reason = "typed"
      BY <3>1 DEF IInv, Typed, Press
    <3>3. asked[n].action = SignOff =>
            asked[n].draft.drafted
            /\ (asked[n].draft.about = asked[n].customer \/ asked[n].draft.crossed)
      BY <3>1 DEF IInv, PressesKept
    <3> QED BY <3>1, <3>2, <3>3
  <2> QED BY <2>1, <2>2 DEF DecisionsIntended
<1> QED BY InductiveInv, <1>1, PTL

\* A panel is about the selected customer, unless its answer was crossed by a change of
\* the selection (the handlers of App.jsx, which do not look again).
THEOREM OnlyCrossedAnswersAreStale == Spec => []OnlyCrossedIsStale
<1>1. IInv => OnlyCrossedIsStale
  BY DEF IInv, ShownAboutSelected, OnlyCrossedIsStale, MayShow, NotShown
<1> QED BY InductiveInv, <1>1, PTL
=============================================================================
