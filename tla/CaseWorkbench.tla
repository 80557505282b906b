---------------------------- MODULE CaseWorkbench ----------------------------
(***************************************************************************)
(* The case workbench (frontend/src/App.jsx, api.js): an officer signs in, *)
(* selects a customer, runs the checks on it, and records human decisions  *)
(* and SAR sign-offs with the governance service.                          *)
(*                                                                         *)
(* The page is one thread, but it is left and clicked on while its fetches *)
(* are under way; each handler goes on after its await with the selection  *)
(* it began with.  Fetches are answered in any order; one may fail before  *)
(* it reaches its service, or after: then the service did what was asked   *)
(* and the page is told that it failed.  Nothing cancels a fetch: one that *)
(* outlives its page still reaches the service.                            *)
(*                                                                         *)
(* The governance service answers with a case of its own dataset, which is *)
(* not the one the customers are listed from; its list of cases is made at *)
(* the first request for a summary or for the cases.                       *)
(*                                                                         *)
(* What the panels say is not modelled, only whom it is about.  Error      *)
(* texts, the health dots and what the summary says are left out.          *)
(*                                                                         *)
(* A definition named X_Y is the definition X with a plausible bug, Y; no  *)
(* specification uses it.                                                  *)
(***************************************************************************)
EXTENDS Naturals, Sequences, FiniteSets

CONSTANTS
  Officers,       \* accounts that sign in
  Customers,      \* customers the investigation service lists
  First,          \* the one it lists first
  Governed,       \* customers of the governance service's dataset
  TopCase,        \* the one of them with the highest score
  Structures,     \* the ownership structures, each the sequence of its roots
  HasArticles,    \* the entity service has article files
  Decisions,      \* the review actions offered, the sign-off among them
  SignOff,        \* "Sign off SAR"
  MaxPresses,     \* bound: presses of buttons
  MaxSelections,  \* bound: changes of the selection
  MaxPages,       \* bound: times the workbench is opened
  MaxUnderWay,    \* bound: fetches under way when the officer acts
  None

Checks == {"investigation", "entity", "article", "ubo"}
Buttons == Checks \cup {"review", "audit"}
Panels == Checks \cup {"case"}
Lists == {"article", "ubo"}    \* the checks that need a list of files first

ASSUME CustomersAssumption == First \in Customers /\ TopCase \in Governed
ASSUME HasArticlesAssumption == HasArticles \in BOOLEAN
ASSUME SignOffAssumption == SignOff \in Decisions
ASSUME BoundsAssumption ==
  {MaxPresses, MaxSelections, MaxPages, MaxUnderWay} \subseteq Nat
ASSUME NoneAssumption == None \notin Officers \cup Customers

VARIABLES
  session,      \* who is signed in; kept in sessionStorage
  signing,      \* the sign-in under way: [officer, stage]
  listed,       \* the client list has arrived
  selected,     \* selectedId
  known,        \* check |-> its list of files is loaded and not empty
  shown,        \* panel |-> [about, drafted, crossed]
  busy,         \* buttons that are disabled while they work
  reason,       \* the decision reason: "" or "typed"
  message,      \* reviewMessage: [text, press], the press that was recorded
  audit_check,  \* whose chain the verdict on display is about
  calls,        \* fetches under way
  case_cache,   \* the governance service has made its list of cases
  decisions,    \* the governance service's reviews and sign-offs, in order
  asked,        \* ghost: what the officer saw and pressed, for each review press
  presses,
  selections,
  pages

page == <<listed, selected, known, shown, busy, reason, message, audit_check>>
bounds == <<presses, selections, pages>>
service == <<case_cache, decisions>>
vars == <<session, signing, page, calls, service, asked, bounds>>

Saying(text) == [text |-> text, press |-> 0]

NotShown == [about |-> None, drafted |-> FALSE, crossed |-> FALSE]

\* A fetch: what for, about whom (the handler's selection), at what stage; whether
\* the selection has changed since, and whether its page is still open.
Call(kind, about, stage, press) ==
  [kind |-> kind, about |-> about, stage |-> stage, press |-> press,
   crossed |-> FALSE, open |-> TRUE]

\* What the page asks for when it opens.
Loading == {Call("clients", None, "sent", 0)}
             \cup {Call("list", check, "sent", 0) : check \in Lists}

-----------------------------------------------------------------------------
Init ==
  /\ session = None
  /\ signing = None
  /\ listed = FALSE
  /\ selected = None
  /\ known = [check \in Lists |-> FALSE]
  /\ shown = [p \in Panels |-> NotShown]
  /\ busy = {}
  /\ reason = ""
  /\ message = Saying("none")
  /\ audit_check = "none"
  /\ calls = {}
  /\ case_cache = FALSE
  /\ decisions = <<>>
  /\ asked = <<>>
  /\ presses = 0 /\ selections = 0 /\ pages = 0

\* LoginLanding: a token, then the principal it is for.
SignIn(officer) ==
  /\ session = None
  /\ signing = None
  /\ pages < MaxPages
  /\ signing' = [officer |-> officer, stage |-> "token"]
  /\ UNCHANGED <<session, page, calls, service, asked, bounds>>

\* The workbench opens: it loads its lists.
Open ==
  /\ calls' = calls \cup Loading
  /\ pages' = pages + 1

SignInAnswered(ok) ==
  /\ signing # None
  /\ \/ /\ ok /\ signing.stage = "token"
        /\ signing' = [signing EXCEPT !.stage = "whoami"]
        /\ UNCHANGED <<session, calls, pages>>
     \/ /\ ok /\ signing.stage = "whoami"
        /\ session' = signing.officer
        /\ signing' = None
        /\ Open
     \/ /\ ~ok
        /\ signing' = None
        /\ UNCHANGED <<session, calls, pages>>
  /\ UNCHANGED <<page, service, asked, presses, selections>>

\* Fetches that outlive their page; only a decision's still matters to anyone.
Outlived == {[c EXCEPT !.open = FALSE] : c \in {d \in calls : d.kind = "review"}}

\* The page is left: by Sign out, or by a reload, which finds the session.
Leave(reload) ==
  /\ session # None
  /\ reload => pages < MaxPages
  /\ session' = IF reload THEN session ELSE None
  /\ listed' = FALSE
  /\ selected' = None
  /\ known' = [check \in Lists |-> FALSE]
  /\ shown' = [p \in Panels |-> NotShown]
  /\ busy' = {}
  /\ reason' = ""
  /\ message' = Saying("none")
  /\ audit_check' = "none"
  /\ calls' = Outlived \cup IF reload THEN Loading ELSE {}
  /\ pages' = IF reload THEN pages + 1 ELSE pages
  /\ UNCHANGED <<signing, service, asked, presses, selections>>

Cleared_KeepsPipeline == [[p \in Panels |-> NotShown] EXCEPT !["investigation"] = shown["investigation"]]

\* The effect of a new selection: nothing is shown ...
Cleared == [p \in Panels |-> NotShown]

\* ... and the case is fetched, while older fetches go on.
Reselect(c, others) ==
  /\ selected' = c
  /\ shown' = Cleared
  /\ calls' = {[d EXCEPT !.crossed = TRUE] : d \in others}
                \cup {Call("case", c, "sent", 0)}

\* The officer acts, within the bound.
Acts ==
  /\ session # None
  /\ Cardinality(calls) <= MaxUnderWay

Select(c) ==
  /\ Acts
  /\ listed
  /\ c # selected
  /\ selections < MaxSelections
  /\ selections' = selections + 1
  /\ Reselect(c, calls)
  /\ UNCHANGED <<session, signing, listed, known, busy, reason, message, audit_check,
                 service, asked, presses, pages>>

\* The officer writes a reason, or deletes it.
Write(text) ==
  /\ session # None
  /\ reason # text
  /\ reason' = text
  /\ UNCHANGED <<session, signing, listed, selected, known, shown, busy, message,
                 audit_check, calls, service, asked, bounds>>

\* A check is started; without its list of files it fetches that first.
PressCheck(check) ==
  /\ Acts
  /\ selected # None
  /\ check \notin busy
  /\ presses < MaxPresses
  /\ presses' = presses + 1
  /\ busy' = busy \cup {check}
  /\ calls' = calls \cup
       {Call(check, selected,
             IF check \in Lists /\ ~known[check] THEN "listing" ELSE "sent", presses')}
  /\ UNCHANGED <<session, signing, listed, selected, known, shown, reason, message,
                 audit_check, service, asked, selections, pages>>

\* The buttons of the review card are there; the sign-off needs a draft on display.
Offered(action) ==
  /\ "review" \notin busy
  /\ action = SignOff => shown["investigation"].drafted

\* review: refused without a customer or a reason, else sent.
PressReview(action) ==
  /\ Acts
  /\ Offered(action)
  /\ presses < MaxPresses
  /\ presses' = presses + 1
  /\ IF selected = None \/ reason = ""
     THEN /\ message' = Saying("refused")
          /\ asked' = asked
          /\ UNCHANGED <<busy, calls>>
     ELSE /\ message' = Saying("none")
          /\ busy' = busy \cup {"review"}
          /\ calls' = calls \cup {Call("review", selected, "sent", presses')}
          /\ asked' = [n \in DOMAIN asked \cup {presses'} |->
               IF n = presses'
               THEN [customer |-> selected, actor |-> session, action |-> action,
                     reason |-> reason, draft |-> shown["investigation"]]
               ELSE asked[n]]
  /\ UNCHANGED <<session, signing, listed, selected, known, shown, reason, audit_check,
                 service, selections, pages>>

\* verifyAudit.
PressAudit ==
  /\ Acts
  /\ "audit" \notin busy
  /\ presses < MaxPresses
  /\ presses' = presses + 1
  /\ busy' = busy \cup {"audit"}
  /\ calls' = calls \cup {Call("audit", None, "sent", presses')}
  /\ UNCHANGED <<session, signing, listed, selected, known, shown, reason, message,
                 audit_check, service, asked, selections, pages>>

-----------------------------------------------------------------------------
\* submit_review and signoff_sar: the service records what the request says.
Record(c) ==
  /\ c.kind = "review"
  /\ c.stage = "sent"
  /\ decisions' = Append(decisions,
       [press |-> c.press, customer |-> c.about, actor |-> asked[c.press].actor,
        action |-> asked[c.press].action])
  /\ calls' = (calls \ {c}) \cup {[c EXCEPT !.stage = "recorded"]}
  /\ UNCHANGED <<session, signing, page, case_cache, asked, bounds>>

\* summary and cases: whoever asks first, a page that opens or another client of the
\* service, has the list made.
MakeCases ==
  /\ ~case_cache
  /\ case_cache' = TRUE
  /\ UNCHANGED <<session, signing, page, calls, decisions, asked, bounds>>

\* case_detail of a customer the dataset does not have is that of the first case listed.
HasCase(customer) == customer \in Governed \/ case_cache
CaseOf(customer) == IF customer \in Governed THEN customer ELSE TopCase

\* The checks that find no file to go by.
Empty == {check \in Lists : IF check = "ubo" THEN Structures = <<>> ELSE ~HasArticles}

\* Whom the ownership trace is about: the first root of the first structure that has
\* the customer among its roots, or else of the first one.
Traced(customer) ==
  LET own == {i \in DOMAIN Structures : \E j \in DOMAIN Structures[i] : Structures[i][j] = customer}
      preferred == IF own = {} THEN 1 ELSE CHOOSE i \in own : \A k \in own : i <= k
  IN IF Structures[preferred] = <<>> THEN customer ELSE Structures[preferred][1]

\* Whom an answer is about.
Subject(c) ==
  CASE c.kind = "ubo" /\ c.stage = "sent" -> Traced(c.about)
    [] c.kind = "case"                    -> CaseOf(c.about)
    [] OTHER                              -> c.about

\* A panel shows an answer, whatever is selected by now.
Show(c, drafted) ==
  shown' = [shown EXCEPT ![c.kind] =
              [about |-> Subject(c), drafted |-> drafted, crossed |-> c.crossed]]

\* What is left of an open page's fetches once c has settled.
Others(c) == calls \ {c}

ListAnswered(c) ==
  /\ c.kind = "list"
  /\ known' = [known EXCEPT ![c.about] = c.about \notin Empty]
  /\ calls' = Others(c)
  /\ UNCHANGED <<listed, selected, shown, busy, reason, message, audit_check>>

ClientsAnswered(c) ==
  /\ c.kind = "clients"
  /\ listed' = TRUE
  /\ Reselect(First, Others(c))
  /\ UNCHANGED <<known, busy, reason, message, audit_check>>

CaseAnswered(c) ==
  /\ c.kind = "case"
  /\ HasCase(c.about)
  /\ Show(c, FALSE)
  /\ calls' = Others(c)
  /\ UNCHANGED <<listed, selected, known, busy, reason, message, audit_check>>

\* The list a check fetched: the check goes on, or says there is nothing to check.
ListingAnswered(c) ==
  /\ c.stage = "listing"
  /\ \/ /\ c.kind \notin Empty
        /\ known' = [known EXCEPT ![c.kind] = TRUE]
        /\ calls' = Others(c) \cup {[c EXCEPT !.stage = "sent"]}
        /\ UNCHANGED <<shown, busy>>
     \/ /\ c.kind \in Empty
        /\ Show(c, FALSE)
        /\ busy' = busy \ {c.kind}
        /\ calls' = Others(c)
        /\ UNCHANGED known
  /\ UNCHANGED <<listed, selected, reason, message, audit_check>>

\* A check's answer; an investigation comes with a SAR draft or without.
CheckAnswered(c) ==
  /\ c.kind \in Checks
  /\ c.stage = "sent"
  /\ \E drafted \in IF c.kind = "investigation" THEN BOOLEAN ELSE {FALSE} : Show(c, drafted)
  /\ busy' = busy \ {c.kind}
  /\ calls' = Others(c)
  /\ UNCHANGED <<listed, selected, known, reason, message, audit_check>>

\* A decision is reported recorded; the case and the chain are fetched again.
ReviewAnswered(c) ==
  /\ c.kind = "review"
  /\ c.stage = "recorded"
  /\ message' = [text |-> "recorded", press |-> c.press]
  /\ reason' = ""
  /\ busy' = busy \ {"review"}
  /\ calls' = Others(c) \cup {[Call("case", c.about, "sent", c.press) EXCEPT !.crossed = c.crossed],
                              Call("verify", None, "sent", c.press)}
  /\ UNCHANGED <<listed, selected, known, shown, audit_check>>

\* A verdict on the governance chain, or on the entity service's.
AuditAnswered(c) ==
  /\ c.kind \in {"audit", "verify"}
  /\ audit_check' = IF c.stage = "fallback" THEN "entity" ELSE "governance"
  /\ busy' = IF c.kind = "audit" THEN busy \ {"audit"} ELSE busy
  /\ calls' = Others(c)
  /\ UNCHANGED <<listed, selected, known, shown, reason, message>>

Answered(c) ==
  /\ c.open
  /\ \/ ListAnswered(c)
     \/ ClientsAnswered(c)
     \/ CaseAnswered(c)
     \/ ListingAnswered(c)
     \/ CheckAnswered(c)
     \/ ReviewAnswered(c)
     \/ AuditAnswered(c)
  /\ UNCHANGED <<session, signing, service, asked, bounds>>

\* A failed decision is sent again.
Fail_Retries(c) ==
  /\ c.open
  /\ IF c.kind = "review"
     THEN /\ calls' = Others(c) \cup {[c EXCEPT !.stage = "sent"]}
          /\ UNCHANGED <<audit_check, message, busy>>
     ELSE /\ calls' = Others(c)
          /\ busy' = busy \ {c.kind}
          /\ UNCHANGED <<audit_check, message>>
  /\ UNCHANGED <<session, signing, listed, selected, known, shown, reason, service, asked,
                 bounds>>

\* The button is enabled again on success only.
Fail_KeepsBusy(c) ==
  /\ c.open
  /\ calls' = Others(c)
  /\ message' = IF c.kind = "review" THEN Saying("failed") ELSE message
  /\ UNCHANGED <<session, signing, listed, selected, known, shown, busy, reason, audit_check,
                 service, asked, bounds>>

\* A fetch fails, before or after its service did its part.  The governance chain's
\* verification falls back to the entity service's.
Fail(c) ==
  /\ c.open
  /\ IF c.kind = "audit" /\ c.stage = "sent"
     THEN /\ calls' = Others(c) \cup {[c EXCEPT !.stage = "fallback"]}
          /\ UNCHANGED <<audit_check, message, busy>>
     ELSE /\ calls' = Others(c)
          /\ audit_check' = IF c.kind = "audit" THEN "error" ELSE audit_check
          /\ message' = IF c.kind = "review" THEN Saying("failed") ELSE message
          /\ busy' = busy \ {c.kind}
  /\ UNCHANGED <<session, signing, listed, selected, known, shown, reason, service, asked,
                 bounds>>

Settle(c) == Record(c) \/ Answered(c) \/ Fail(c)

Next ==
  \/ \E officer \in Officers : SignIn(officer)
  \/ \E ok \in BOOLEAN : SignInAnswered(ok)
  \/ \E reload \in BOOLEAN : Leave(reload)
  \/ \E c \in Customers : Select(c)
  \/ MakeCases
  \/ \E text \in {"", "typed"} : Write(text)
  \/ \E check \in Checks : PressCheck(check)
  \/ \E action \in Decisions : PressReview(action)
  \/ PressAudit
  \/ \E c \in calls : Settle(c)

Spec == Init /\ [][Next]_vars

-----------------------------------------------------------------------------
Stages == {"listing", "sent", "recorded", "fallback"}
Subjects == Customers \cup {TopCase, None}
              \cup IF Structures = <<>> THEN {} ELSE {Traced(c) : c \in Customers}
Shown == [about : Subjects, drafted : BOOLEAN, crossed : BOOLEAN]
Press == [customer : Customers, actor : Officers, action : Decisions, reason : {"typed"},
          draft : Shown]
Decision == [press : 1..MaxPresses, customer : Customers, actor : Officers,
             action : Decisions]
CallSet == [kind : Buttons \cup {"clients", "list", "case", "verify"},
            about : Customers \cup Lists \cup {None}, stage : Stages,
            press : 0..MaxPresses, crossed : BOOLEAN, open : BOOLEAN]

Typed ==
  /\ session \in Officers \cup {None}
  /\ signing \in [officer : Officers, stage : {"token", "whoami"}] \cup {None}
  /\ listed \in BOOLEAN
  /\ selected \in Customers \cup {None}
  /\ known \in [Lists -> BOOLEAN]
  /\ shown \in [Panels -> Shown]
  /\ busy \subseteq Buttons
  /\ reason \in {"", "typed"}
  /\ message \in [text : {"none", "refused", "failed", "recorded"}, press : 0..MaxPresses]
  /\ audit_check \in {"none", "governance", "entity", "error"}
  /\ calls \subseteq CallSet
  /\ case_cache \in BOOLEAN
  /\ decisions \in Seq(Decision)
  /\ DOMAIN asked \subseteq 1..MaxPresses /\ \A n \in DOMAIN asked : asked[n] \in Press
  /\ presses \in 0..MaxPresses
  /\ selections \in 0..MaxSelections
  /\ pages \in 0..MaxPages

\* Type invariant.  A button is disabled just while one fetch of this page works for
\* it, so that no two answers of one kind are on their way to one page.
TypeOK ==
  /\ Typed
  /\ \A b \in Buttons :
       Cardinality({c \in calls : c.kind = b /\ c.open}) = IF b \in busy THEN 1 ELSE 0

\* The record is what the officers decided: each decision the service holds was
\* pressed for, once, by the officer it names and for the customer then selected,
\* with a reason typed; and a sign-off, over a draft made for that customer, unless
\* the selection changed while the draft was being made.  No answer that is lost,
\* reload, sign-out or second officer adds one, and the page reports a decision as
\* recorded only if it is.
DecisionsIntended ==
  /\ message.text = "recorded" =>
       \E i \in DOMAIN decisions : decisions[i].press = message.press
  /\ \A i \in DOMAIN decisions :
       LET d == decisions[i]
           press == asked[d.press]
       IN /\ press.customer = d.customer /\ press.actor = d.actor /\ press.action = d.action
          /\ press.reason = "typed"
          /\ \A j \in DOMAIN decisions : decisions[j].press = d.press => j = i
          /\ d.action = SignOff =>
               /\ press.draft.drafted
               /\ press.draft.about = d.customer \/ press.draft.crossed

\* What a panel shows is about the selected customer, unless its answer was still on
\* its way when the selection changed (the handlers do not look); the ownership map,
\* about the root the page would trace for that customer; and the case, about the
\* service's first one if the service does not have that customer.
OnlyCrossedIsStale ==
  \A p \in Panels :
    LET told == shown[p] IN
      (told.about # None /\ told.about # selected) =>
        \/ told.crossed
        \/ p = "ubo" /\ told.about = Traced(selected)
        \/ p = "case" /\ selected \notin Governed /\ told.about = TopCase
=============================================================================
