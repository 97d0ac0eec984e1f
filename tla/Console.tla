------------------------------ MODULE Console ------------------------------
(* The operator console, one tab of it: handlers that send a request, give   *)
(* up the page until the answer comes, show it and go on.  Any number of them *)
(* is under way at once, and answers come in any order.                      *)
(*                                                                         *)
(* A session is the set of the user whose token local storage holds.  What a *)
(* panel shows is the set of users whose data is in it: {} for a prompt to   *)
(* log in, an error, or public data.                                        *)
(***************************************************************************)
EXTENDS Integers, Sequences, Bags

CONSTANTS
    Users,
    Stored,       \* the sessions that local storage may hold from an earlier visit
    MaxGestures,  \* bound: what the person at the page does
    MaxErrors     \* bound: requests with a token that bring no data

Sessions == {{}} \cup {{u} : u \in Users}

ASSUME StoredAssumption == Stored \subseteq Sessions
ASSUME BoundsAssumption == {MaxGestures, MaxErrors} \subseteq Nat

ProtectedPanels == {"positions", "portfolio", "orders", "runs", "reconciliation", "result"}
Panels == ProtectedPanels \cup {"status"}
Cards == {"positions", "portfolio", "reconciliation"}

\* Mutant: an overview makes one more request than it shows.
RequestsOneMore ==
    [login |-> 1, public |-> 1, overview |-> 5, positions |-> 1, orders |-> 1, runs |-> 1,
     history |-> 1, reconcile |-> 1, trade |-> 1]

\* The async functions of the page, and how many requests each sends in turn:
\* root and readiness, sent without a token one after the other, are one here.
Requests ==
    [login |-> 1, public |-> 1, overview |-> 4, positions |-> 1, orders |-> 1, runs |-> 1,
     history |-> 1, reconcile |-> 1, trade |-> 1]
Calls == DOMAIN Requests

\* What login does with its token; what buttons and the trade form do.
LoadAll == <<"overview", "positions", "orders", "runs", "history">>

\* Mutant: after its run the reconciliation button loads the overview only.
ButtonsNoHistory ==
    [loadOverview |-> <<"overview">>, loadOrders |-> <<"orders">>, loadRuns |-> <<"runs">>,
     loadReconciliation |-> <<"history">>, runReconciliation |-> <<"reconcile", "overview">>]
Buttons ==
    [loadOverview |-> <<"overview">>, loadOrders |-> <<"orders">>, loadRuns |-> <<"runs">>,
     loadReconciliation |-> <<"history">>,
     runReconciliation |-> <<"reconcile", "overview", "history">>]
SubmitTrade == <<"trade", "overview", "positions", "orders">>

Suffixes(chain) == {SubSeq(chain, i, Len(chain)) : i \in 1..(Len(chain) + 1)}
Rests == Suffixes(Tail(LoadAll)) \cup Suffixes(Tail(Buttons.runReconciliation))
            \cup Suffixes(Tail(SubmitTrade))
Tasks == [call: Calls, at: 1..4, asker: Sessions, got: SUBSET Users, rest: Rests,
          of_login: BOOLEAN]

VARIABLES
    token,          \* the session of local storage
    panel, card,    \* what panels and summary cards show
    loginDisabled, logoutDisabled,
    tasks,          \* a bag: the handlers that wait for an answer
    disturbed,      \* since the page was loaded, the session changed under an answer
                    \* on its way, or from one user to another
    gestures, errors

pageVars == <<panel, card>>
buttonVars == <<loginDisabled, logoutDisabled>>
vars == <<token, pageVars, buttonVars, tasks, disturbed, gestures, errors>>
-----------------------------------------------------------------------------
(* Handlers under way.                                                     *)

\* Whose token request number at of a call carries, sent now.
TokenFor(call, at, session) ==
    IF call = "public" \/ (call = "overview" /\ at = 1) THEN {} ELSE session

Begin(call, rest, session, of_login) ==
    [call |-> call, at |-> 1, asker |-> TokenFor(call, 1, session), got |-> {}, rest |-> rest,
     of_login |-> of_login]

\* A handler goes on with the calls in rest.  Without a token an overview is the
\* public one and every other load returns at once.
Continue(rest, session, of_login) ==
    IF rest = <<>> THEN {}
    ELSE IF session # {} THEN {Begin(Head(rest), Tail(rest), session, of_login)}
    ELSE IF Head(rest) = "overview" THEN {Begin("public", Tail(rest), session, of_login)}
    ELSE {}

\* The data it will show, or may be sent, is that of its user's session.
CarriesData(k) == k.call # "login" /\ k.asker \cup k.got # {}

Waiting == BagToSet(tasks)
Without(k) == tasks (-) SetToBag({k})

\* The session becomes another one while an answer for the old one is due, or
\* while the old one's data is on the page.
Disturbs(session) ==
    /\ session # token
    /\ \/ token # {} /\ session # {}
       \/ \E k \in Waiting : CarriesData(k)

UpdateAuthUi(session) == loginDisabled' = (session # {}) /\ logoutDisabled' = (session = {})

\* Mutant: the response to the last trade is forgotten.
ResetPanelsButResult == [p \in Panels |-> IF p \in {"status", "result"} THEN panel[p] ELSE {}]

\* resetProtectedPanels, its panels and its cards.
ResetPanels == [p \in Panels |-> IF p = "status" THEN panel[p] ELSE {}]

ResetCards == [c \in Cards |-> {}]

Gesture == gestures < MaxGestures /\ gestures' = gestures + 1 /\ UNCHANGED errors

-----------------------------------------------------------------------------
(* The page and the person.                                                *)

\* What the script starts when it is loaded.
PageTasks(session) ==
    {Begin("public", <<>>, session, FALSE)} \cup
    {Begin(call, <<>>, session, FALSE) :
        call \in IF session = {} THEN {} ELSE {LoadAll[i] : i \in DOMAIN LoadAll}}

\* A first visit, or one with the token of an earlier visit.
Init ==
    /\ token \in Stored
    /\ panel = [p \in Panels |-> {}]
    /\ card = [c \in Cards |-> {}]
    /\ loginDisabled = (token # {})
    /\ logoutDisabled = (token = {})
    /\ tasks = SetToBag(PageTasks(token))
    /\ disturbed = FALSE
    /\ gestures = 0
    /\ errors = 0

\* The page is loaded again: what was under way is gone.
Reload ==
    /\ Gesture
    /\ panel' = [p \in Panels |-> {}]
    /\ card' = [c \in Cards |-> {}]
    /\ UpdateAuthUi(token)
    /\ tasks' = SetToBag(PageTasks(token))
    /\ disturbed' = FALSE
    /\ UNCHANGED token

\* The login button, or Enter in the password field, which no button disables.
Login(u) ==
    /\ Gesture
    /\ loginDisabled' = TRUE
    /\ tasks' = tasks (+) SetToBag({Begin("login", <<>>, {u}, TRUE)})
    /\ UNCHANGED <<token, pageVars, logoutDisabled, disturbed>>

\* Mutant: the logged-out page loads nothing.
LogoutTasksNone == {}
LogoutTasks == {Begin("public", <<>>, {}, FALSE)}

Logout ==
    /\ Gesture
    /\ ~logoutDisabled
    /\ token' = {}
    /\ panel' = ResetPanels
    /\ card' = ResetCards
    /\ UpdateAuthUi({})
    /\ tasks' = tasks (+) SetToBag(LogoutTasks)
    /\ disturbed' = (disturbed \/ Disturbs({}))

\* One of the quick actions; without a token only the overview does anything.
Click(button) ==
    /\ Gesture
    /\ token # {} \/ button = "loadOverview"
    /\ tasks' = tasks (+) SetToBag(Continue(Buttons[button], token, FALSE))
    /\ UNCHANGED <<token, pageVars, buttonVars, disturbed>>

Submit ==
    /\ Gesture
    /\ token # {}
    /\ tasks' = tasks (+) SetToBag(Continue(SubmitTrade, token, FALSE))
    /\ UNCHANGED <<token, pageVars, buttonVars, disturbed>>

-----------------------------------------------------------------------------
(* Answers.  One shows the data of the user who asked, or none: an error of  *)
(* the network, of the role, or of the token.                               *)

\* What the answer to k's request shows.
Shows(k, shown) ==
    \/ shown = k.asker /\ UNCHANGED errors
    \/ /\ k.asker # {} /\ errors < MaxErrors
       /\ shown = {} /\ errors' = errors + 1

\* A call goes on to its next request, with the token there is now.
NextRequest(k) ==
    /\ k.at < Requests[k.call]
    /\ \E shown \in {k.asker, {}} :
        /\ Shows(k, shown)
        /\ tasks' = Without(k) (+) SetToBag({[k EXCEPT
               !.at = @ + 1,
               !.asker = TokenFor(k.call, k.at + 1, token),
               !.got = @ \cup shown]})
    /\ UNCHANGED <<token, pageVars, buttonVars, disturbed, gestures>>

\* Mutant: an error leaves the button of a login as it is.
FinallyNot(k, next) == UNCHANGED loginDisabled

\* The finally block of login.
Finally(k, next) ==
    loginDisabled' = (loginDisabled /\ ~(k.of_login /\ next = {} /\ token = {}))

PanelOf ==
    [positions |-> "positions", orders |-> "orders", runs |-> "runs",
     history |-> "reconciliation", reconcile |-> "reconciliation", trade |-> "result"]

\* A call ends with its last answer: it is shown and the handler goes on.
Render(k) ==
    /\ k.call # "login"
    /\ k.at = Requests[k.call]
    /\ \E shown \in {k.asker, {}} :
        /\ Shows(k, shown)
        /\ \/ /\ k.call = "public"
              /\ panel' = [panel EXCEPT !.status = {}]
              /\ UNCHANGED card
           \/ /\ k.call = "overview"
              /\ panel' = [panel EXCEPT !.status = k.got, !.portfolio = shown]
              /\ card' = [card EXCEPT !.portfolio = shown]
           \/ /\ k.call \in DOMAIN PanelOf
              /\ panel' = [panel EXCEPT ![PanelOf[k.call]] = shown]
              /\ card' = IF k.call \in {"positions", "history"}
                         THEN [card EXCEPT ![PanelOf[k.call]] = shown]
                         ELSE card
    /\ LET next == Continue(k.rest, token, k.of_login)
       IN  tasks' = Without(k) (+) SetToBag(next) /\ Finally(k, next)
    /\ UNCHANGED <<token, logoutDisabled, disturbed, gestures>>

\* The token is stored whatever happened since it was asked for.
LoginSucceeds(k) ==
    /\ k.call = "login"
    /\ token' = k.asker
    /\ panel' = [panel EXCEPT !.status = k.asker]
    /\ UpdateAuthUi(k.asker)
    /\ tasks' = Without(k) (+) SetToBag(Continue(LoadAll, k.asker, TRUE))
    /\ disturbed' = (disturbed \/ Disturbs(k.asker))
    /\ UNCHANGED <<card, gestures, errors>>

LoginFails(k) ==
    /\ k.call = "login"
    /\ panel' = [panel EXCEPT !.status = {}]
    /\ tasks' = Without(k)
    /\ Finally(k, {})
    /\ UNCHANGED <<token, card, logoutDisabled, disturbed, gestures, errors>>

Answer == \E k \in Waiting : NextRequest(k) \/ Render(k) \/ LoginSucceeds(k) \/ LoginFails(k)

Person ==
    \/ Reload
    \/ \E u \in Users : Login(u)
    \/ Logout
    \/ \E button \in DOMAIN Buttons : Click(button)
    \/ Submit

\* The page waits for the person.
AtRest == tasks = EmptyBag /\ UNCHANGED vars

Next == Person \/ Answer \/ AtRest

Spec == Init /\ [][Next]_vars
-----------------------------------------------------------------------------
(* Properties.                                                             *)

\* Every variable stays in its range.
TypeOK ==
    /\ token \in Sessions
    /\ panel \in [Panels -> SUBSET Users]
    /\ card \in [Cards -> SUBSET Users]
    /\ {loginDisabled, logoutDisabled, disturbed} \subseteq BOOLEAN
    /\ Waiting \subseteq Tasks
    /\ gestures \in 0..MaxGestures
    /\ errors \in 0..MaxErrors

\* The buttons never lock the person out: with a session one can log out, and
\* without one log in, at the latest when the logins under way have ended -
\* however logins, logouts and the loads after them overlap.
ButtonsMatchSession ==
    /\ token # {} => loginDisabled /\ ~logoutDisabled
    /\ token = {} => logoutDisabled /\ (loginDisabled => \E k \in Waiting : k.of_login)

\* "A new reconciliation result should appear in the reconciliation panel and
\* history count": runReconciliation puts the result into the panel alone, and
\* the count follows two requests later, if the person is still logged in by
\* then.  Once all is answered within a session, count and panel are of the same
\* user, or of nobody - whatever failed, and whoever logged in or out meanwhile.
CountFollowsResult ==
    tasks = EmptyBag /\ token # {} => card["reconciliation"] = panel["reconciliation"]

\* A session that never changed under an answer on its way, and never from one
\* user to another, leaves no data of anybody else on the page.
QuietPageShowsItsUser == ~disturbed => \A p \in ProtectedPanels : panel[p] \subseteq token

\* Once all is answered after a quiet logout the overview no longer shows the
\* user, nor the token that login has put there.
StatusIsCleared == tasks = EmptyBag /\ token = {} /\ ~disturbed => panel["status"] = {}
=============================================================================
