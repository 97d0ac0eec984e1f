---------------------------- MODULE ConsoleProofs ----------------------------
(* What the page shows and lets one press, for any users, any number of      *)
(* gestures and errors, and answers in any order.                           *)
EXTENDS Console, SequenceTheorems, TLAPS

USE DEF pageVars, buttonVars, vars

-----------------------------------------------------------------------------
(* Bags of tasks.                                                          *)

\* A bag with one more of each of a set.
LEMMA TasksAdd ==
    ASSUME NEW B, IsABag(B), NEW S
    PROVE  /\ BagToSet(B (+) SetToBag(S)) = BagToSet(B) \cup S
           /\ IsABag(B (+) SetToBag(S))
  BY DEF BagToSet, SetToBag, (+), IsABag

\* A bag with one less of one element.
LEMMA TaskEnds ==
    ASSUME NEW B, IsABag(B), NEW k
    PROVE  /\ BagToSet(B (-) SetToBag({k})) \subseteq BagToSet(B)
           /\ BagToSet(B) \ {k} \subseteq BagToSet(B (-) SetToBag({k}))
           /\ IsABag(B (-) SetToBag({k}))
  <1> DEFINE rest == [e \in DOMAIN B |->
                         IF e \in DOMAIN SetToBag({k}) THEN B[e] - SetToBag({k})[e] ELSE B[e]]
             kept == {d \in DOMAIN rest : rest[d] > 0}
  <1>1. B (-) SetToBag({k}) = [e \in kept |-> rest[e]]
    BY DEF (-)
  <1>2. DOMAIN (B (-) SetToBag({k})) = kept /\ \A e \in kept : (B (-) SetToBag({k}))[e] = rest[e]
    BY <1>1
  <1>3. \A e \in DOMAIN B : B[e] \in Nat /\ B[e] > 0
    BY DEF IsABag
  <1>4. \A e \in DOMAIN B : rest[e] = IF e = k THEN B[e] - 1 ELSE B[e]
    BY DEF SetToBag
  <1>5. DOMAIN rest = DOMAIN B
    OBVIOUS
  <1>6. \A e \in kept : rest[e] \in Nat /\ rest[e] > 0
    BY <1>3, <1>4
  <1>7. kept \subseteq DOMAIN B /\ DOMAIN B \ {k} \subseteq kept
    BY <1>3, <1>4
  <1> HIDE DEF rest
  <1>8. [e \in kept |-> rest[e]] \in [kept -> {n \in Nat : n > 0}]
    BY <1>6
  <1> HIDE DEF kept
  <1> QED BY <1>1, <1>2, <1>7, <1>8 DEF BagToSet, IsABag

-----------------------------------------------------------------------------
(* Chains of calls.                                                        *)

\* The calls a handler goes on with: all but login.
Loads == Calls \ {"login"}

\* A handler in the middle of a chain goes on with its next call.
LEMMA SuffixGoesOn ==
    ASSUME NEW chain \in Seq(Loads), NEW rest \in Suffixes(chain), rest # <<>>
    PROVE  Head(rest) \in Loads /\ Tail(rest) \in Suffixes(chain)
  <1>1. PICK i \in 1..(Len(chain) + 1) : rest = SubSeq(chain, i, Len(chain))
    BY DEF Suffixes
  <1>2. Len(chain) \in Nat /\ \A j \in 1..Len(chain) : chain[j] \in Loads
    OBVIOUS
  <1>3. i <= Len(chain)
    BY <1>1, <1>2, SubSeqEmpty
  <1>4. /\ rest \in Seq(Loads) /\ Len(rest) = Len(chain) - i + 1
        /\ \A j \in 1..(Len(chain) - i + 1) : rest[j] = chain[i + j - 1]
    BY <1>1, <1>2, <1>3, SubSeqProperties
  <1>5. /\ Head(rest) \in Loads /\ Tail(rest) \in Seq(Loads) /\ Len(Tail(rest)) = Len(chain) - i
        /\ \A j \in 1..(Len(chain) - i) : Tail(rest)[j] = rest[j + 1]
    BY <1>4, <1>2, <1>3, HeadTailProperties
  <1> DEFINE next == SubSeq(chain, i + 1, Len(chain))
  <1>6. /\ next \in Seq(Loads) /\ Len(next) = Len(chain) - i
        /\ \A j \in 1..(Len(chain) - i) : next[j] = chain[(i + 1) + j - 1]
    <2>1. /\ next \in Seq(Loads)
          /\ Len(next) = IF i + 1 <= Len(chain) THEN Len(chain) - (i + 1) + 1 ELSE 0
          /\ \A j \in 1..(Len(chain) - (i + 1) + 1) : next[j] = chain[(i + 1) + j - 1]
      BY <1>2, <1>3, SubSeqProperties
    <2> HIDE DEF next
    <2> QED BY <2>1, <1>2, <1>3
  <1> HIDE DEF next
  <1>7. Tail(rest) = next
    <2> DEFINE left == Len(chain) - i
               after == Tail(rest)
    <2>1. left \in Nat /\ left + 1 = Len(chain) - i + 1
      BY <1>2, <1>3
    <2>2. /\ after \in Seq(Loads) /\ Len(after) = left
          /\ next \in Seq(Loads) /\ Len(next) = left
      BY <1>5, <1>6
    <2>3. ASSUME NEW j \in 1..left PROVE after[j] = next[j]
      <3>1. after[j] = rest[j + 1] /\ next[j] = chain[(i + 1) + j - 1]
        BY <1>5, <1>6
      <3>2. j + 1 \in 1..(Len(chain) - i + 1)
        BY <2>1
      <3>3. rest[j + 1] = chain[i + (j + 1) - 1]
        BY <1>4, <3>2
      <3>4. i + (j + 1) - 1 = (i + 1) + j - 1
        OBVIOUS
      <3> QED BY <3>1, <3>3, <3>4
    <2> HIDE DEF left, after
    <2>4. after = next
      BY <2>2, <2>3, SeqEqual
    <2> QED BY <2>4 DEF after
  <1>8. i + 1 \in 1..(Len(chain) + 1)
    BY <1>2, <1>3
  <1>9. next \in Suffixes(chain)
    BY <1>8 DEF Suffixes, next
  <1> QED BY <1>5, <1>7, <1>9

\* A chain's suffixes run from all of it to nothing.
LEMMA SuffixesHold ==
    ASSUME NEW chain \in Seq(Loads)
    PROVE  chain \in Suffixes(chain) /\ <<>> \in Suffixes(chain)
  <1> DEFINE n == Len(chain)
             whole == SubSeq(chain, 1, n)
  <1>1. n \in Nat /\ \A i \in 1..n : chain[i] \in Loads
    OBVIOUS
  <1>2. /\ whole \in Seq(Loads) /\ Len(whole) = (IF 1 <= n THEN n - 1 + 1 ELSE 0)
        /\ \A i \in 1..(n - 1 + 1) : whole[i] = chain[1 + i - 1]
    BY <1>1, SubSeqProperties
  <1>3. chain = whole
    <2> HIDE DEF whole
    <2>1. Len(whole) = n /\ \A i \in 1..n : whole[i] = chain[i]
      BY <1>1, <1>2
    <2> QED BY <1>2, <2>1, SeqEqual
  <1>4. SubSeq(chain, n + 1, n) = <<>>
    BY <1>1, SubSeqEmpty
  <1> QED BY <1>1, <1>3, <1>4 DEF Suffixes

\* A chain is at its end, or what is left after its next call is known.
GoesOn(rest) == rest # <<>> => Head(rest) \in Loads /\ Tail(rest) \in Rests

\* What login, the trade form and the buttons start goes on to its end.
LEMMA ChainsGoOn ==
    /\ GoesOn(LoadAll) /\ LoadAll # <<>>
    /\ GoesOn(SubmitTrade)
    /\ \A button \in DOMAIN Buttons : GoesOn(Buttons[button])
    /\ \A rest \in Rests : GoesOn(rest)
    /\ <<>> \in Rests
  <1>1. LoadAll \in Seq(Loads) /\ LoadAll # <<>>
    BY DEF LoadAll, Loads, Calls, Requests
  <1>2. SubmitTrade \in Seq(Loads) /\ SubmitTrade # <<>>
    BY DEF SubmitTrade, Loads, Calls, Requests
  <1>3. Buttons.runReconciliation \in Seq(Loads) /\ Buttons.runReconciliation # <<>>
    BY DEF Buttons, Loads, Calls, Requests
  <1>4. /\ Tail(LoadAll) \in Seq(Loads) /\ Tail(SubmitTrade) \in Seq(Loads)
        /\ Tail(Buttons.runReconciliation) \in Seq(Loads)
        /\ Head(LoadAll) \in Loads /\ Head(SubmitTrade) \in Loads
        /\ Head(Buttons.runReconciliation) \in Loads
    BY <1>1, <1>2, <1>3, HeadTailProperties
  <1>5. /\ Tail(LoadAll) \in Rests /\ Tail(SubmitTrade) \in Rests /\ <<>> \in Rests
        /\ Tail(Buttons.runReconciliation) \in Rests
    BY <1>4, SuffixesHold DEF Rests
  <1>6. \A call \in Loads : <<call>> # <<>> /\ Head(<<call>>) = call /\ Tail(<<call>>) = <<>>
    OBVIOUS
  <1>7. DOMAIN Buttons = {"loadOverview", "loadOrders", "loadRuns", "loadReconciliation",
                          "runReconciliation"}
    BY DEF Buttons
  <1>8. \A button \in DOMAIN Buttons \ {"runReconciliation"} :
            \E call \in Loads : Buttons[button] = <<call>>
    BY <1>7 DEF Buttons, Loads, Calls, Requests
  <1>9. \A button \in DOMAIN Buttons : GoesOn(Buttons[button])
    BY <1>4, <1>5, <1>6, <1>7, <1>8 DEF GoesOn
  <1>10. ASSUME NEW rest \in Rests PROVE GoesOn(rest)
    BY <1>4, <1>10, SuffixGoesOn DEF Rests, GoesOn
  <1> QED
    BY <1>1, <1>4, <1>5, <1>9, <1>10 DEF GoesOn

-----------------------------------------------------------------------------
(* Tasks.                                                                  *)

\* A login asks for somebody's token, and carries no data.
LoginsAsk == \A k \in Waiting : k.call = "login" => k.of_login /\ k.asker # {}

TypeInv == TypeOK /\ IsABag(tasks) /\ LoginsAsk

\* A call that is begun is well-typed, carries no data yet and the token there
\* is, or none.
LEMMA BeginIs ==
    ASSUME NEW call \in Calls, NEW rest \in Rests, NEW session \in Sessions,
           NEW of_login, of_login \in BOOLEAN, NEW k, k = Begin(call, rest, session, of_login)
    PROVE  /\ k \in Tasks /\ k.call = call /\ k.of_login = of_login
           /\ k.got = {} /\ k.asker \subseteq session
           /\ call = "login" => k.asker = session
           /\ call = "public" => k.asker = {}
  <1>1. TokenFor(call, 1, session) \in Sessions /\ TokenFor(call, 1, session) \subseteq session
    BY DEF TokenFor, Sessions
  <1>2. call = "login" => TokenFor(call, 1, session) = session
    BY DEF TokenFor
  <1>3. call = "public" => TokenFor(call, 1, session) = {}
    BY DEF TokenFor
  <1> QED
    BY <1>1, <1>2, <1>3 DEF Begin, Tasks

\* So is what a handler goes on with; with a session it goes on unless it is at
\* its end.
LEMMA ContinueIs ==
    ASSUME NEW rest, GoesOn(rest), NEW session \in Sessions,
           NEW of_login, of_login \in BOOLEAN, NEW k \in Continue(rest, session, of_login)
    PROVE  /\ k \in Tasks /\ k.call # "login" /\ k.of_login = of_login
           /\ k.got = {} /\ k.asker \subseteq session
  <1>1. rest # <<>> /\ Head(rest) \in Loads /\ Tail(rest) \in Rests
    BY DEF Continue, GoesOn
  <1>2. PICK call \in Loads : k = Begin(call, Tail(rest), session, of_login)
    BY <1>1 DEF Continue, Loads, Calls, Requests
  <1>3. call \in Calls /\ call # "login"
    BY DEF Loads
  <1> QED
    BY <1>1, <1>2, <1>3, BeginIs

\* The page starts with loads for its session.
LEMMA PageTasksAre ==
    ASSUME NEW session \in Sessions, NEW k \in PageTasks(session)
    PROVE  k \in Tasks /\ k.call # "login" /\ k.got = {} /\ k.asker \subseteq session
  <1>1. \A i \in DOMAIN LoadAll : LoadAll[i] \in Loads
    BY DEF LoadAll, Loads, Calls, Requests
  <1>2. "public" \in Loads
    BY DEF Loads, Calls, Requests
  <1>3. PICK call \in Loads, of_login \in BOOLEAN : k = Begin(call, <<>>, session, of_login)
    BY <1>1, <1>2 DEF PageTasks
  <1>4. call \in Calls /\ call # "login" /\ <<>> \in Rests
    BY ChainsGoOn DEF Loads
  <1> QED
    BY <1>3, <1>4, BeginIs

\* Tasks that are added, or take the place of one that ends.
Known(S) == \A k \in S : k \in Tasks /\ (k.call = "login" => k.of_login /\ k.asker # {})

LEMMA BeginKnown ==
    ASSUME NEW call \in Calls, NEW rest \in Rests, NEW session \in Sessions,
           NEW of_login \in BOOLEAN, call = "login" => of_login /\ session # {}
    PROVE  Known({Begin(call, rest, session, of_login)})
  BY BeginIs DEF Known

LEMMA TasksAdded ==
    ASSUME TypeInv, NEW S, Known(S), tasks' = tasks (+) SetToBag(S)
    PROVE  /\ IsABag(tasks') /\ Waiting' \subseteq Tasks /\ LoginsAsk'
           /\ Waiting' = Waiting \cup S
  <1>1. IsABag(tasks') /\ Waiting' = Waiting \cup S
    BY TasksAdd DEF TypeInv, Waiting
  <1>2. \A k \in Waiting' : k \in Tasks /\ (k.call = "login" => k.of_login /\ k.asker # {})
    BY <1>1 DEF TypeInv, TypeOK, LoginsAsk, Known
  <1> QED
    BY <1>1, <1>2 DEF LoginsAsk

LEMMA TaskReplaced ==
    ASSUME TypeInv, NEW k, NEW S, Known(S), tasks' = Without(k) (+) SetToBag(S)
    PROVE  /\ IsABag(tasks') /\ Waiting' \subseteq Tasks /\ LoginsAsk'
           /\ Waiting' \subseteq Waiting \cup S
           /\ Waiting \ {k} \subseteq Waiting' /\ S \subseteq Waiting'
  <1>1. /\ IsABag(Without(k)) /\ BagToSet(Without(k)) \subseteq Waiting
        /\ Waiting \ {k} \subseteq BagToSet(Without(k))
    BY TaskEnds DEF TypeInv, Waiting, Without
  <1>2. IsABag(tasks') /\ Waiting' = BagToSet(Without(k)) \cup S
    BY <1>1, TasksAdd DEF Waiting
  <1>3. \A task \in Waiting' :
            task \in Tasks /\ (task.call = "login" => task.of_login /\ task.asker # {})
    BY <1>1, <1>2 DEF TypeInv, TypeOK, LoginsAsk, Known
  <1> QED
    BY <1>1, <1>2, <1>3 DEF LoginsAsk

\* A page that is loaded knows its tasks.
LEMMA PageLoaded ==
    ASSUME NEW session \in Sessions, NEW bag, bag = SetToBag(PageTasks(session))
    PROVE  IsABag(bag) /\ BagToSet(bag) = PageTasks(session) /\ Known(BagToSet(bag))
  <1>1. IsABag(bag) /\ BagToSet(bag) = PageTasks(session)
    BY DEF SetToBag, IsABag, BagToSet
  <1> QED
    BY <1>1, PageTasksAre DEF Known

-----------------------------------------------------------------------------
(* Types.                                                                  *)

LEMMA InitType == Init => TypeInv
  <1> SUFFICES ASSUME Init PROVE TypeInv
    OBVIOUS
  <1>1. token \in Sessions
    BY StoredAssumption DEF Init
  <1>2. IsABag(tasks) /\ Known(Waiting)
    BY <1>1, PageLoaded DEF Init, Waiting
  <1>3. gestures \in 0..MaxGestures /\ errors \in 0..MaxErrors
    BY BoundsAssumption DEF Init
  <1>4. panel \in [Panels -> SUBSET Users] /\ card \in [Cards -> SUBSET Users]
    BY DEF Init
  <1>5. {loginDisabled, logoutDisabled, disturbed} \subseteq BOOLEAN
    BY DEF Init
  <1> QED
    BY <1>1, <1>2, <1>3, <1>4, <1>5 DEF TypeInv, TypeOK, LoginsAsk, Known

\* What the person starts: the tasks it adds are known.
LEMMA PersonAdds ==
    ASSUME TypeInv
    PROVE  /\ \A u \in Users : Known({Begin("login", <<>>, {u}, TRUE)})
           /\ Known(LogoutTasks)
           /\ \A button \in DOMAIN Buttons : Known(Continue(Buttons[button], token, FALSE))
           /\ Known(Continue(SubmitTrade, token, FALSE))
  <1>1. token \in Sessions /\ {} \in Sessions /\ <<>> \in Rests
    BY ChainsGoOn DEF TypeInv, TypeOK, Sessions
  <1>2. "login" \in Calls /\ "public" \in Calls
    BY DEF Calls, Requests
  <1>3. ASSUME NEW u \in Users PROVE Known({Begin("login", <<>>, {u}, TRUE)})
    <2>1. {u} \in Sessions /\ {u} # {}
      BY DEF Sessions
    <2> QED BY <1>1, <1>2, <2>1, BeginKnown, Zenon
  <1>4. Known(LogoutTasks)
    BY <1>1, <1>2, BeginKnown, "login" # "public", Zenon DEF LogoutTasks
  <1>5. ASSUME NEW button \in DOMAIN Buttons PROVE Known(Continue(Buttons[button], token, FALSE))
    <2>1. GoesOn(Buttons[button])
      BY ChainsGoOn
    <2> SUFFICES ASSUME NEW k \in Continue(Buttons[button], token, FALSE)
                 PROVE  k \in Tasks /\ k.call # "login"
      BY DEF Known
    <2>2. PICK of_login \in BOOLEAN : k \in Continue(Buttons[button], token, of_login)
      OBVIOUS
    <2> QED BY <1>1, <2>1, <2>2, ContinueIs
  <1>6. Known(Continue(SubmitTrade, token, FALSE))
    BY <1>1, ChainsGoOn, ContinueIs DEF Known
  <1> QED
    BY <1>3, <1>4, <1>5, <1>6

\* What is left of the page's types when its tasks are known.
Rest == /\ token' \in Sessions
        /\ panel' \in [Panels -> SUBSET Users]
        /\ card' \in [Cards -> SUBSET Users]
        /\ {loginDisabled', logoutDisabled', disturbed'} \subseteq BOOLEAN

LEMMA GestureType ==
    ASSUME TypeInv, Gesture
    PROVE  gestures' \in 0..MaxGestures /\ errors' \in 0..MaxErrors
  BY BoundsAssumption DEF Gesture, TypeInv, TypeOK

LEMMA PersonType == TypeInv /\ Person => TypeInv'
  <1> SUFFICES ASSUME TypeInv, Person PROVE TypeInv'
    OBVIOUS
  <1>0. /\ token \in Sessions /\ {} \in Sessions
        /\ panel \in [Panels -> SUBSET Users] /\ card \in [Cards -> SUBSET Users]
        /\ {loginDisabled, logoutDisabled, disturbed} \subseteq BOOLEAN
    BY DEF TypeInv, TypeOK, Sessions
  <1>1. gestures' \in 0..MaxGestures /\ errors' \in 0..MaxErrors
    BY GestureType DEF Person, Reload, Login, Logout, Click, Submit
  <1>2. CASE Reload
    <2>1. IsABag(tasks') /\ Known(Waiting') /\ token' = token
      BY <1>0, <1>2, PageLoaded DEF Reload, Waiting
    <2>2. Rest
      BY <1>0, <1>2 DEF Reload, UpdateAuthUi, Rest
    <2> QED BY <1>1, <2>1, <2>2 DEF TypeInv, TypeOK, LoginsAsk, Known, Rest
  <1>3. ASSUME NEW u \in Users, Login(u) PROVE TypeInv'
    <2>1. IsABag(tasks') /\ Waiting' \subseteq Tasks /\ LoginsAsk'
      BY <1>3, PersonAdds, TasksAdded DEF Login
    <2>2. Rest
      BY <1>0, <1>3 DEF Login, Rest
    <2> QED BY <1>1, <2>1, <2>2 DEF TypeInv, TypeOK, Rest
  <1>4. CASE Logout
    <2>1. IsABag(tasks') /\ Waiting' \subseteq Tasks /\ LoginsAsk'
      BY <1>4, PersonAdds, TasksAdded DEF Logout
    <2>2. panel' \in [Panels -> SUBSET Users] /\ card' \in [Cards -> SUBSET Users]
      BY <1>0, <1>4 DEF Logout, ResetPanels, ResetCards
    <2>3. {loginDisabled', logoutDisabled', disturbed'} \subseteq BOOLEAN /\ token' \in Sessions
      BY <1>0, <1>4 DEF Logout, UpdateAuthUi, Disturbs
    <2> QED BY <1>1, <2>1, <2>2, <2>3 DEF TypeInv, TypeOK
  <1>5. ASSUME NEW button \in DOMAIN Buttons, Click(button) PROVE TypeInv'
    <2>1. IsABag(tasks') /\ Waiting' \subseteq Tasks /\ LoginsAsk'
      BY <1>5, PersonAdds, TasksAdded DEF Click
    <2>2. Rest
      BY <1>0, <1>5 DEF Click, Rest
    <2> QED BY <1>1, <2>1, <2>2 DEF TypeInv, TypeOK, Rest
  <1>6. CASE Submit
    <2>1. IsABag(tasks') /\ Waiting' \subseteq Tasks /\ LoginsAsk'
      BY <1>6, PersonAdds, TasksAdded DEF Submit
    <2>2. Rest
      BY <1>0, <1>6 DEF Submit, Rest
    <2> QED BY <1>1, <2>1, <2>2 DEF TypeInv, TypeOK, Rest
  <1> QED
    BY <1>2, <1>3, <1>4, <1>5, <1>6 DEF Person

\* How an answer goes on: the call with its next request, or the handler with
\* its next call.
Advanced(k, shown) ==
    [k EXCEPT !.at = @ + 1, !.asker = TokenFor(k.call, k.at + 1, token), !.got = @ \cup shown]

LEMMA AdvancedIs ==
    ASSUME TypeInv, NEW k \in Waiting, k.at < Requests[k.call], NEW shown \in {k.asker, {}}
    PROVE  /\ Known({Advanced(k, shown)})
           /\ Advanced(k, shown).call = k.call /\ Advanced(k, shown).of_login = k.of_login
           /\ Advanced(k, shown).asker \subseteq token
           /\ Advanced(k, shown).got = k.got \cup shown
           /\ k.call \notin {"login", "public"}
  <1>1. k \in Tasks /\ k.call \in Calls /\ k.at \in 1..4 /\ k.asker \in Sessions /\ token \in Sessions
    BY DEF TypeInv, TypeOK, Tasks
  <1>2. k.call \notin {"login", "public"} /\ k.at + 1 \in 1..4
    BY <1>1 DEF Calls, Requests
  <1>3. /\ TokenFor(k.call, k.at + 1, token) \in Sessions
        /\ TokenFor(k.call, k.at + 1, token) \subseteq token
    BY <1>1 DEF TokenFor, Sessions
  <1>4. shown \subseteq Users
    BY <1>1 DEF Sessions
  <1> QED
    BY <1>1, <1>2, <1>3, <1>4 DEF Known, Advanced, Tasks

LEMMA GoesOnWith ==
    ASSUME TypeInv, NEW k \in Waiting, NEW S, S = Continue(k.rest, token, k.of_login)
    PROVE  /\ Known(S)
           /\ \A next \in S : /\ next.call # "login" /\ next.of_login = k.of_login
                             /\ next.got = {} /\ next.asker \subseteq token
  <1>1. token \in Sessions /\ k.rest \in Rests /\ k.of_login \in BOOLEAN
    BY DEF TypeInv, TypeOK, Tasks
  <1>2. GoesOn(k.rest)
    BY <1>1, ChainsGoOn
  <1> QED
    BY <1>1, <1>2, ContinueIs DEF Known

LEMMA LoginGoesOnWith ==
    ASSUME TypeInv, NEW k \in Waiting, NEW S, S = Continue(LoadAll, k.asker, TRUE)
    PROVE  /\ Known(S)
           /\ \A next \in S : next.call # "login" /\ next.got = {} /\ next.asker \subseteq k.asker
  <1>1. k.asker \in Sessions
    BY DEF TypeInv, TypeOK, Tasks
  <1>2. GoesOn(LoadAll)
    BY ChainsGoOn
  <1>3. PICK of_login \in BOOLEAN : S = Continue(LoadAll, k.asker, of_login)
    OBVIOUS
  <1>4. \A next \in S : /\ next \in Tasks /\ next.call # "login"
                        /\ next.got = {} /\ next.asker \subseteq k.asker
    BY <1>1, <1>2, <1>3, ContinueIs
  <1> QED
    BY <1>4 DEF Known

LEMMA AnswerType == TypeInv /\ Answer => TypeInv'
  <1> SUFFICES ASSUME TypeInv, NEW k \in Waiting,
                      NextRequest(k) \/ Render(k) \/ LoginSucceeds(k) \/ LoginFails(k)
               PROVE  TypeInv'
    BY DEF Answer
  <1>0. /\ token \in Sessions /\ k \in Tasks /\ k.asker \in Sessions /\ k.got \subseteq Users
        /\ panel \in [Panels -> SUBSET Users] /\ card \in [Cards -> SUBSET Users]
        /\ {loginDisabled, logoutDisabled, disturbed} \subseteq BOOLEAN
        /\ gestures \in 0..MaxGestures /\ errors \in 0..MaxErrors
    BY DEF TypeInv, TypeOK, Tasks
  <1>1. k.asker \subseteq Users
    BY <1>0 DEF Sessions
  <1>2. ASSUME NEW shown, Shows(k, shown) PROVE errors' \in 0..MaxErrors
    BY <1>0, <1>2, BoundsAssumption DEF Shows
  <1>3. CASE NextRequest(k)
    <2>1. PICK shown \in {k.asker, {}} :
              Shows(k, shown) /\ tasks' = Without(k) (+) SetToBag({Advanced(k, shown)})
      BY <1>3 DEF NextRequest, Advanced
    <2>2. IsABag(tasks') /\ Waiting' \subseteq Tasks /\ LoginsAsk'
      BY <1>3, <2>1, AdvancedIs, TaskReplaced DEF NextRequest
    <2>3. Rest /\ gestures' \in 0..MaxGestures
      BY <1>0, <1>3 DEF NextRequest, Rest
    <2> QED BY <1>2, <2>1, <2>2, <2>3 DEF TypeInv, TypeOK, Rest
  <1>4. CASE Render(k)
    <2>1. IsABag(tasks') /\ Waiting' \subseteq Tasks /\ LoginsAsk'
      BY <1>4, GoesOnWith, TaskReplaced DEF Render
    <2>2. PICK shown \in {k.asker, {}} :
              /\ Shows(k, shown)
              /\ \/ panel' = [panel EXCEPT !.status = {}] /\ UNCHANGED card
                 \/ /\ panel' = [panel EXCEPT !.status = k.got, !.portfolio = shown]
                    /\ card' = [card EXCEPT !.portfolio = shown]
                 \/ /\ panel' = [panel EXCEPT ![PanelOf[k.call]] = shown]
                    /\ \/ card' = [card EXCEPT ![PanelOf[k.call]] = shown]
                       \/ card' = card
      BY <1>4 DEF Render
    <2>3. shown \subseteq Users
      BY <1>1
    <2>4. panel' \in [Panels -> SUBSET Users] /\ card' \in [Cards -> SUBSET Users]
      BY <1>0, <2>2, <2>3
    <2>5. loginDisabled' \in BOOLEAN
      BY <1>4 DEF Render, Finally
    <2>6. UNCHANGED <<token, logoutDisabled, disturbed, gestures>>
      BY <1>4 DEF Render
    <2> QED BY <1>0, <1>2, <2>1, <2>2, <2>4, <2>5, <2>6 DEF TypeInv, TypeOK
  <1>5. CASE LoginSucceeds(k)
    <2>1. IsABag(tasks') /\ Waiting' \subseteq Tasks /\ LoginsAsk'
      BY <1>5, LoginGoesOnWith, TaskReplaced DEF LoginSucceeds
    <2>2. panel' \in [Panels -> SUBSET Users] /\ card' = card /\ token' \in Sessions
      BY <1>0, <1>1, <1>5 DEF LoginSucceeds
    <2>3. {loginDisabled', logoutDisabled', disturbed'} \subseteq BOOLEAN
      BY <1>0, <1>5 DEF LoginSucceeds, UpdateAuthUi, Disturbs
    <2>4. UNCHANGED <<gestures, errors>>
      BY <1>5 DEF LoginSucceeds
    <2> QED BY <1>0, <2>1, <2>2, <2>3, <2>4 DEF TypeInv, TypeOK
  <1>6. CASE LoginFails(k)
    <2>1. IsABag(tasks') /\ Waiting' \subseteq Waiting
      BY <1>6, TaskEnds DEF TypeInv, LoginFails, Without, Waiting
    <2>2. Waiting' \subseteq Tasks /\ LoginsAsk'
      BY <2>1 DEF TypeInv, TypeOK, LoginsAsk
    <2>3. panel' \in [Panels -> SUBSET Users] /\ loginDisabled' \in BOOLEAN
      BY <1>0, <1>6 DEF LoginFails, Finally
    <2>4. UNCHANGED <<token, card, logoutDisabled, disturbed, gestures, errors>>
      BY <1>6 DEF LoginFails
    <2> QED BY <1>0, <2>1, <2>2, <2>3, <2>4 DEF TypeInv, TypeOK
  <1> QED
    BY <1>3, <1>4, <1>5, <1>6

LEMMA NextType == TypeInv /\ [Next]_vars => TypeInv'
  <1>1. TypeInv /\ UNCHANGED vars => TypeInv'
    BY DEF TypeInv, TypeOK, LoginsAsk, Waiting
  <1> QED
    BY <1>1, PersonType, AnswerType DEF Next, AtRest

\* Every variable stays in its range, however many handlers are under way.
THEOREM TypeCorrect == Spec => []TypeOK
  <1>1. TypeInv => TypeOK
    BY DEF TypeInv
  <1> QED
    BY <1>1, InitType, NextType, PTL DEF Spec
-----------------------------------------------------------------------------
(* What the page shows.                                                    *)

\* While the session is quiet every answer due and all that is shown is its
\* user's, and a status left from before a logout is about to be overwritten.
Quiet ==
    ~disturbed =>
        /\ \A k \in Waiting : k.call # "login" => k.asker \cup k.got \subseteq token
        /\ \A p \in ProtectedPanels : panel[p] \subseteq token
        /\ token = {} /\ panel["status"] # {} => \E k \in Waiting : k.call = "public"

PageInv == TypeInv /\ ButtonsMatchSession /\ Quiet

\* A page that has just been loaded shows nothing, and asks as its session.
LEMMA LoadedPage ==
    ASSUME token \in Sessions, IsABag(tasks), Waiting = PageTasks(token),
           panel = [p \in Panels |-> {}], card = [c \in Cards |-> {}],
           loginDisabled = (token # {}), logoutDisabled = (token = {})
    PROVE  ButtonsMatchSession /\ Quiet
  <1>1. ButtonsMatchSession
    BY DEF ButtonsMatchSession
  <1>3. \A k \in Waiting : k.asker \cup k.got \subseteq token
    BY PageTasksAre
  <1>4. \A p \in Panels : panel[p] = {}
    OBVIOUS
  <1>5. "status" \in Panels /\ ProtectedPanels \subseteq Panels
    BY DEF Panels
  <1> QED
    BY <1>1, <1>3, <1>4, <1>5 DEF Quiet

LEMMA InitPage == Init => PageInv
  <1> SUFFICES ASSUME Init PROVE PageInv
    OBVIOUS
  <1>1. TypeInv
    BY InitType
  <1>2. token \in Sessions /\ IsABag(tasks) /\ Waiting = PageTasks(token)
    BY <1>1, PageLoaded DEF Init, TypeInv, TypeOK, Waiting
  <1>3. ButtonsMatchSession /\ Quiet
    BY <1>2, LoadedPage DEF Init
  <1> QED
    BY <1>1, <1>3 DEF PageInv

\* What the person starts for the session there is disturbs nothing.
LEMMA StartsMore ==
    ASSUME PageInv, NEW S, Known(S), tasks' = tasks (+) SetToBag(S),
           \A k \in S : k.call # "login" => k.asker \cup k.got \subseteq token,
           UNCHANGED <<token, pageVars, disturbed>>
    PROVE  Quiet' /\ Waiting' = Waiting \cup S
  <1>1. Waiting' = Waiting \cup S
    BY TasksAdded DEF PageInv
  <1>2. Quiet'
    BY <1>1 DEF PageInv, Quiet
  <1> QED
    BY <1>1, <1>2

LEMMA PersonPage == PageInv /\ Person => PageInv'
  <1> SUFFICES ASSUME PageInv, Person PROVE PageInv'
    OBVIOUS
  <1>0. TypeInv /\ TypeInv' /\ token \in Sessions
    BY PersonType DEF PageInv, TypeInv, TypeOK
  <1>1. CASE Reload
    <2>1. token' \in Sessions /\ IsABag(tasks') /\ Waiting' = PageTasks(token')
      BY <1>0, <1>1, PageLoaded DEF Reload, Waiting
    <2>2. ButtonsMatchSession'
      BY <1>1 DEF Reload, UpdateAuthUi, ButtonsMatchSession
    <2>4. \A k \in Waiting' : k.asker \cup k.got \subseteq token'
      BY <2>1, PageTasksAre
    <2>5. \A p \in Panels : panel'[p] = {}
      BY <1>1 DEF Reload
    <2>6. "status" \in Panels /\ ProtectedPanels \subseteq Panels
      BY DEF Panels
    <2>7. Quiet'
      BY <2>4, <2>5, <2>6 DEF Quiet
    <2> QED BY <1>0, <2>2, <2>7 DEF PageInv
  <1>2. ASSUME NEW u \in Users, Login(u) PROVE PageInv'
    <2> DEFINE S == {Begin("login", <<>>, {u}, TRUE)}
    <2>1. Known(S) /\ tasks' = tasks (+) SetToBag(S)
      BY <1>0, <1>2, PersonAdds DEF Login
    <2>2. \A k \in S : k.call = "login" /\ k.of_login
      BY DEF Begin
    <2> HIDE DEF S
    <2>3. Quiet' /\ Waiting' = Waiting \cup S
      BY <1>2, <2>1, <2>2, StartsMore DEF Login
    <2>4. S # {}
      BY DEF S
    <2>5. ButtonsMatchSession'
      BY <1>2, <2>2, <2>3, <2>4 DEF Login, PageInv, ButtonsMatchSession
    <2> QED BY <1>0, <2>3, <2>5 DEF PageInv
  <1>3. CASE Logout
    <2>1. Known(LogoutTasks) /\ tasks' = tasks (+) SetToBag(LogoutTasks)
      BY <1>0, <1>3, PersonAdds DEF Logout
    <2>2. Waiting' = Waiting \cup LogoutTasks
      BY <1>0, <2>1, TasksAdded
    <2>3. \A k \in LogoutTasks : k.call = "public" /\ k.asker = {} /\ k.got = {}
      BY DEF LogoutTasks, Begin, TokenFor
    <2>4. /\ panel' = ResetPanels /\ card' = ResetCards /\ token' = {}
          /\ loginDisabled' = FALSE /\ logoutDisabled' = TRUE
          /\ disturbed' = (disturbed \/ Disturbs({}))
      BY <1>3 DEF Logout, UpdateAuthUi
    <2>5. token # {}
      BY <1>3 DEF Logout, PageInv, ButtonsMatchSession
    <2>6. ButtonsMatchSession'
      BY <2>4 DEF ButtonsMatchSession
    <2>8. \A p \in ProtectedPanels : panel'[p] = {}
      BY <2>4 DEF ResetPanels, Panels, ProtectedPanels
    <2>9. ASSUME ~disturbed' PROVE \A k \in Waiting' : k.call # "login" => k.asker \cup k.got \subseteq {}
      BY <2>2, <2>3, <2>4, <2>5, <2>9 DEF Disturbs, CarriesData
    <2>10. \E k \in Waiting' : k.call = "public"
      BY <2>2, <2>3 DEF LogoutTasks
    <2>11. Quiet'
      BY <2>4, <2>8, <2>9, <2>10 DEF Quiet
    <2> QED BY <1>0, <2>6, <2>11 DEF PageInv
  <1>4. ASSUME NEW rest, GoesOn(rest), tasks' = tasks (+) SetToBag(Continue(rest, token, FALSE)),
               UNCHANGED <<token, pageVars, buttonVars, disturbed>>
        PROVE  PageInv'
    <2>1. PICK of_login \in BOOLEAN :
              tasks' = tasks (+) SetToBag(Continue(rest, token, of_login))
      BY <1>4
    <2> DEFINE S == Continue(rest, token, of_login)
    <2>2. \A k \in S : /\ k \in Tasks /\ k.call # "login"
                       /\ k.got = {} /\ k.asker \subseteq token
      BY <1>0, <1>4, ContinueIs
    <2> HIDE DEF S
    <2>3. Known(S) /\ tasks' = tasks (+) SetToBag(S)
      BY <2>1, <2>2 DEF Known, S
    <2>4. Quiet' /\ Waiting' = Waiting \cup S
      BY <1>4, <2>2, <2>3, StartsMore
    <2>5. ButtonsMatchSession'
      BY <1>4, <2>4 DEF PageInv, ButtonsMatchSession
    <2> QED BY <1>0, <2>4, <2>5 DEF PageInv
  <1>5. ASSUME NEW button \in DOMAIN Buttons, Click(button) PROVE PageInv'
    BY <1>4, <1>5, ChainsGoOn DEF Click
  <1>6. CASE Submit
    BY <1>4, <1>6, ChainsGoOn DEF Submit
  <1> QED
    BY <1>1, <1>2, <1>3, <1>5, <1>6 DEF Person

\* An answer that leaves the session as it is: the login button stays or is
\* given back, the panels it touches show its user, and it goes on as its user.
LEMMA AnswerLeavesButtons ==
    ASSUME PageInv, NEW k \in Waiting, NEW S, Known(S), tasks' = Without(k) (+) SetToBag(S),
           UNCHANGED <<token, logoutDisabled>>, Finally(k, S),
           \A next \in S : next.of_login = k.of_login
    PROVE  ButtonsMatchSession'
  <1>1. Waiting \ {k} \subseteq Waiting' /\ S \subseteq Waiting'
    BY TaskReplaced DEF PageInv
  <1>2. /\ loginDisabled' => loginDisabled
        /\ token # {} /\ loginDisabled => loginDisabled'
        /\ loginDisabled' /\ token = {} /\ k.of_login => S # {}
    BY DEF Finally, PageInv, TypeInv, TypeOK
  <1>3. token # {} => loginDisabled' /\ ~logoutDisabled'
    BY <1>2 DEF PageInv, ButtonsMatchSession
  <1>4. ASSUME token = {}, loginDisabled' PROVE \E task \in Waiting' : task.of_login
    <2>1. PICK task \in Waiting : task.of_login
      BY <1>2, <1>4 DEF PageInv, ButtonsMatchSession
    <2>2. CASE task = k
      <3>1. PICK next \in S : next.of_login
        BY <1>2, <1>4, <2>1, <2>2
      <3> QED BY <1>1, <3>1
    <2> QED BY <1>1, <2>1, <2>2
  <1>5. token = {} => logoutDisabled'
    BY DEF PageInv, ButtonsMatchSession
  <1> QED
    BY <1>3, <1>4, <1>5 DEF ButtonsMatchSession

LEMMA AnswerStaysQuiet ==
    ASSUME PageInv, NEW k \in Waiting, NEW S, Known(S), tasks' = Without(k) (+) SetToBag(S),
           UNCHANGED <<token, disturbed>>,
           ~disturbed => /\ \A next \in S : next.asker \cup next.got \subseteq token
                         /\ \A p \in ProtectedPanels : panel'[p] \subseteq token
                         /\ token = {} => panel'["status"] \in {panel["status"], {}},
           k.call = "public" => panel'["status"] = {}
    PROVE  Quiet'
  <1> SUFFICES ASSUME ~disturbed'
               PROVE /\ \A task \in Waiting' : task.call # "login" => task.asker \cup task.got \subseteq token'
                     /\ \A p \in ProtectedPanels : panel'[p] \subseteq token'
                     /\ token' = {} /\ panel'["status"] # {} => \E task \in Waiting' : task.call = "public"
    BY DEF Quiet
  <1>1. Waiting' \subseteq Waiting \cup S /\ Waiting \ {k} \subseteq Waiting'
    BY TaskReplaced DEF PageInv
  <1>2. \A task \in Waiting : task.call # "login" => task.asker \cup task.got \subseteq token
    BY DEF PageInv, Quiet
  <1>3. \A task \in Waiting' : task.call # "login" => task.asker \cup task.got \subseteq token'
    BY <1>1, <1>2
  <1>4. ASSUME token = {}, panel'["status"] # {} PROVE \E task \in Waiting' : task.call = "public"
    <2>1. panel["status"] # {} /\ k.call # "public"
      BY <1>4
    <2>2. PICK task \in Waiting : task.call = "public"
      BY <1>4, <2>1 DEF PageInv, Quiet
    <2> QED BY <1>1, <2>1, <2>2
  <1> QED
    BY <1>3, <1>4

\* What an answer puts on the page.
LEMMA RenderShows ==
    ASSUME PageInv, NEW k \in Waiting, Render(k)
    PROVE  /\ k.call = "public" => panel'["status"] = {}
           /\ ~disturbed => /\ \A p \in ProtectedPanels : panel'[p] \subseteq token
                            /\ token = {} => panel'["status"] \in {panel["status"], {}}
  <1>0. panel \in [Panels -> SUBSET Users] /\ card \in [Cards -> SUBSET Users] /\ k.call # "login"
    BY DEF PageInv, TypeInv, TypeOK, Render
  <1>1. ~disturbed => /\ k.asker \subseteq token /\ k.got \subseteq token
                      /\ \A p \in ProtectedPanels : panel[p] \subseteq token
    BY <1>0 DEF PageInv, Quiet
  <1>2. PICK shown \in {k.asker, {}} :
            \/ k.call = "public" /\ panel' = [panel EXCEPT !.status = {}]
            \/ k.call = "overview" /\ panel' = [panel EXCEPT !.status = k.got, !.portfolio = shown]
            \/ k.call \in DOMAIN PanelOf /\ panel' = [panel EXCEPT ![PanelOf[k.call]] = shown]
    BY DEF Render
  <1>3. CASE k.call = "public" /\ panel' = [panel EXCEPT !.status = {}]
    BY <1>0, <1>1, <1>3 DEF Panels, ProtectedPanels
  <1>4. CASE k.call = "overview" /\ panel' = [panel EXCEPT !.status = k.got, !.portfolio = shown]
    BY <1>0, <1>1, <1>4 DEF Panels, ProtectedPanels
  <1>5. CASE k.call \in DOMAIN PanelOf /\ panel' = [panel EXCEPT ![PanelOf[k.call]] = shown]
    <2>1. k.call # "public" /\ PanelOf[k.call] \in ProtectedPanels
      BY <1>5 DEF PanelOf, ProtectedPanels
    <2> DEFINE place == PanelOf[k.call]
    <2>2. \A p \in Panels : panel'[p] = IF p = place THEN shown ELSE panel[p]
      BY <1>0, <1>5
    <2> HIDE DEF place
    <2>3. panel'["status"] = panel["status"]
      BY <2>1, <2>2 DEF place, Panels, ProtectedPanels
    <2>4. ~disturbed => \A p \in ProtectedPanels : panel'[p] \subseteq token
      BY <1>1, <2>2 DEF Panels
    <2> QED BY <2>1, <2>3, <2>4
  <1> QED
    BY <1>2, <1>3, <1>4, <1>5

LEMMA AnswerPage == PageInv /\ Answer => PageInv'
  <1> SUFFICES ASSUME PageInv, NEW k \in Waiting,
                      NextRequest(k) \/ Render(k) \/ LoginSucceeds(k) \/ LoginFails(k)
               PROVE  PageInv'
    BY DEF Answer
  <1>0. /\ TypeInv /\ TypeInv' /\ token \in Sessions
        /\ panel \in [Panels -> SUBSET Users] /\ k \in Tasks
    BY AnswerType DEF PageInv, TypeInv, TypeOK, Answer
  <1>1. "status" \in Panels \ ProtectedPanels /\ ProtectedPanels \subseteq Panels
    BY DEF Panels, ProtectedPanels
  <1>2. CASE NextRequest(k)
    <2>1. PICK shown \in {k.asker, {}} : tasks' = Without(k) (+) SetToBag({Advanced(k, shown)})
      BY <1>2 DEF NextRequest, Advanced
    <2> DEFINE S == {Advanced(k, shown)}
    <2>2. /\ Known(S) /\ k.call \notin {"login", "public"} /\ S # {}
          /\ \A next \in S : /\ next.of_login = k.of_login /\ next.asker \subseteq token
                             /\ next.got = k.got \cup shown
      BY <1>0, <1>2, AdvancedIs DEF NextRequest
    <2>3. tasks' = Without(k) (+) SetToBag(S)
      BY <2>1
    <2> HIDE DEF S
    <2>4. Finally(k, S) /\ UNCHANGED <<token, logoutDisabled, pageVars, disturbed>>
      BY <1>0, <1>2, <2>2 DEF NextRequest, Finally, TypeInv, TypeOK
    <2>5. ButtonsMatchSession'
      BY <2>2, <2>3, <2>4, AnswerLeavesButtons
    <2>7. ~disturbed => /\ k.asker \cup k.got \subseteq token
                        /\ \A p \in ProtectedPanels : panel'[p] \subseteq token
      BY <2>2, <2>4 DEF PageInv, Quiet
    <2>8. Quiet'
      BY <2>2, <2>3, <2>4, <2>7, AnswerStaysQuiet
    <2> QED BY <1>0, <2>5, <2>8 DEF PageInv
  <1>3. CASE Render(k)
    <2> DEFINE S == Continue(k.rest, token, k.of_login)
    <2>1. /\ Known(S)
          /\ \A next \in S : next.of_login = k.of_login /\ next.got = {} /\ next.asker \subseteq token
      BY <1>0, GoesOnWith
    <2>2. tasks' = Without(k) (+) SetToBag(S) /\ Finally(k, S)
      BY <1>3 DEF Render
    <2> HIDE DEF S
    <2>3. UNCHANGED <<token, logoutDisabled, disturbed>>
      BY <1>3 DEF Render
    <2>4. ButtonsMatchSession'
      BY <2>1, <2>2, <2>3, AnswerLeavesButtons
    <2>5. /\ k.call = "public" => panel'["status"] = {}
          /\ ~disturbed => /\ \A p \in ProtectedPanels : panel'[p] \subseteq token
                           /\ token = {} => panel'["status"] \in {panel["status"], {}}
      BY <1>3, RenderShows
    <2>6. Quiet'
      BY <2>1, <2>2, <2>3, <2>5, AnswerStaysQuiet
    <2> QED BY <1>0, <2>4, <2>5, <2>6 DEF PageInv
  <1>4. CASE LoginSucceeds(k)
    <2> DEFINE S == Continue(LoadAll, k.asker, TRUE)
    <2>1. Known(S) /\ \A next \in S : next.got = {} /\ next.asker \subseteq k.asker
      BY <1>0, LoginGoesOnWith
    <2>2. tasks' = Without(k) (+) SetToBag(S)
      BY <1>4 DEF LoginSucceeds
    <2> HIDE DEF S
    <2>3. Waiting' \subseteq Waiting \cup S
      BY <1>0, <2>1, <2>2, TaskReplaced
    <2>4. token' = k.asker /\ token' # {}
      BY <1>0, <1>4 DEF LoginSucceeds, TypeInv, LoginsAsk
    <2>5. ButtonsMatchSession'
      BY <1>4, <2>4 DEF LoginSucceeds, UpdateAuthUi, ButtonsMatchSession
    <2>6. \A p \in ProtectedPanels : panel'[p] = panel[p]
      BY <1>0, <1>1, <1>4 DEF LoginSucceeds
    <2>8. disturbed' = (disturbed \/ Disturbs(token'))
      BY <1>4, <2>4 DEF LoginSucceeds
    <2>9. ASSUME ~disturbed'
          PROVE  /\ \A task \in Waiting : task.call # "login" => task.asker \cup task.got \subseteq token'
                 /\ \A p \in ProtectedPanels : panel[p] \subseteq token'
      <3>1. /\ \A task \in Waiting : task.call # "login" => task.asker \cup task.got \subseteq token
            /\ \A p \in ProtectedPanels : panel[p] \subseteq token
        BY <2>8, <2>9 DEF PageInv, Quiet
      <3>2. ~Disturbs(token')
        BY <2>8, <2>9
      <3>3. token' = token \/ token = {}
        BY <2>4, <3>2 DEF Disturbs
      <3> QED BY <3>1, <3>3
    <2>10. Quiet'
      BY <2>1, <2>3, <2>4, <2>6, <2>9 DEF Quiet
    <2> QED BY <1>0, <2>5, <2>10 DEF PageInv
  <1>5. CASE LoginFails(k)
    <2>1. Waiting' \subseteq Waiting /\ Waiting \ {k} \subseteq Waiting' /\ k.call # "public"
      BY <1>5, <1>0, TaskEnds DEF TypeInv, LoginFails, Without, Waiting
    <2>2. UNCHANGED <<token, card, logoutDisabled, disturbed>> /\ Finally(k, {})
      BY <1>5 DEF LoginFails
    <2>3. panel'["status"] = {} /\ \A p \in ProtectedPanels : panel'[p] = panel[p]
      BY <1>0, <1>1, <1>5 DEF LoginFails
    <2>4. k.of_login
      BY <1>0, <1>5 DEF LoginFails, TypeInv, LoginsAsk
    <2>5. ButtonsMatchSession'
      BY <1>0, <2>2, <2>4 DEF Finally, PageInv, ButtonsMatchSession, TypeInv, TypeOK
    <2>7. Quiet'
      BY <2>1, <2>2, <2>3 DEF PageInv, Quiet
    <2> QED BY <1>0, <2>5, <2>7 DEF PageInv
  <1> QED
    BY <1>2, <1>3, <1>4, <1>5

LEMMA NextPage == PageInv /\ [Next]_vars => PageInv'
  <1>1. PageInv /\ UNCHANGED vars => PageInv'
    BY DEF PageInv, TypeInv, TypeOK, LoginsAsk, ButtonsMatchSession, Quiet, Waiting
  <1> QED
    BY <1>1, PersonPage, AnswerPage DEF Next, AtRest

LEMMA PageHolds == Spec => []PageInv
  BY InitPage, NextPage, PTL DEF Spec

\* However logins, logouts and the loads after them overlap, the buttons lock
\* nobody out.
THEOREM ButtonsLockNobodyOut == Spec => []ButtonsMatchSession
  <1>1. PageInv => ButtonsMatchSession
    BY DEF PageInv
  <1> QED
    BY <1>1, PageHolds, PTL

\* In a session that is not disturbed the page shows its user's data only.
THEOREM QuietPagesShowTheirUser == Spec => []QuietPageShowsItsUser
  <1>1. PageInv => QuietPageShowsItsUser
    BY DEF PageInv, Quiet, QuietPageShowsItsUser
  <1> QED
    BY <1>1, PageHolds, PTL

\* After a quiet logout, once all is answered, the overview shows nobody's token.
THEOREM LogoutClearsTheStatus == Spec => []StatusIsCleared
  <1>1. PageInv => StatusIsCleared
    <2>1. tasks = EmptyBag => Waiting = {}
      BY DEF EmptyBag, SetToBag, Waiting, BagToSet
    <2> QED BY <2>1 DEF PageInv, Quiet, StatusIsCleared
  <1> QED
    BY <1>1, PageHolds, PTL

-----------------------------------------------------------------------------
(* The reconciliation count.                                               *)

\* The history is still to be loaded in a chain, or by a handler: it sets both
\* the count and the panel.
Ahead(rest) == \E i \in DOMAIN rest : rest[i] = "history"
WillCount(k) == k.call = "history" \/ Ahead(k.rest)

\* A result that is on its way has the history behind it, and so has a panel that
\* the count does not agree with, while there is a session.
Counting ==
    /\ \A k \in Waiting : /\ k.call = "reconcile" => WillCount(k)
                          /\ k.call = "login" => k.rest = <<>>
    /\ token # {} /\ card["reconciliation"] # panel["reconciliation"] =>
           \E k \in Waiting : WillCount(k)

Counted(S) == \A k \in S : /\ k.call = "reconcile" => WillCount(k)
                           /\ k.call = "login" => k.rest = <<>>

\* What comes after the first call of a chain.
Later == Loads \ {"reconcile"}

LEMMA RestsAreLater == ASSUME NEW rest \in Rests PROVE rest \in Seq(Later)
  <1>1. /\ Tail(LoadAll) \in Seq(Later) /\ Tail(SubmitTrade) \in Seq(Later)
        /\ Tail(Buttons.runReconciliation) \in Seq(Later)
    BY DEF LoadAll, SubmitTrade, Buttons, Later, Loads, Calls, Requests
  <1>2. PICK chain \in Seq(Later) : rest \in Suffixes(chain)
    BY <1>1 DEF Rests
  <1>3. PICK i \in 1..(Len(chain) + 1) : rest = SubSeq(chain, i, Len(chain))
    BY <1>2 DEF Suffixes
  <1>4. Len(chain) \in Nat /\ \A j \in 1..Len(chain) : chain[j] \in Later
    OBVIOUS
  <1>5. i \in Nat /\ i >= 1
    BY <1>4
  <1> QED
    BY <1>3, <1>4, <1>5, SubSeqProperties

\* A chain with the history ahead, continued within a session, comes to it.
LEMMA ChainCounts ==
    ASSUME NEW rest \in Seq(Loads), Ahead(rest), NEW session, session # {}, NEW of_login
    PROVE  \E k \in Continue(rest, session, of_login) : WillCount(k)
  <1>1. PICK i \in 1..Len(rest) : rest[i] = "history"
    BY DEF Ahead
  <1>2. Len(rest) \in Nat /\ rest # <<>>
    BY <1>1
  <1>3. /\ Head(rest) = rest[1] /\ Len(Tail(rest)) = Len(rest) - 1
        /\ Tail(rest) \in Seq(Loads)
        /\ \A j \in 1..(Len(rest) - 1) : Tail(rest)[j] = rest[j + 1]
    BY <1>2, HeadTailProperties
  <1> DEFINE k == Begin(Head(rest), Tail(rest), session, of_login)
  <1>4. k \in Continue(rest, session, of_login)
    BY <1>2 DEF Continue
  <1>5. k.call = Head(rest) /\ k.rest = Tail(rest)
    BY DEF Begin
  <1> HIDE DEF k
  <1>6. CASE i = 1
    BY <1>1, <1>3, <1>4, <1>5, <1>6 DEF WillCount
  <1>7. CASE i # 1
    <2>1. i - 1 \in 1..(Len(rest) - 1) /\ (i - 1) + 1 = i
      BY <1>2, <1>7
    <2>2. Tail(rest)[i - 1] = "history"
      BY <1>1, <1>3, <2>1
    <2>3. i - 1 \in DOMAIN Tail(rest)
      BY <1>3, <2>1
    <2> QED BY <1>4, <1>5, <2>2, <2>3 DEF WillCount, Ahead
  <1> QED
    BY <1>6, <1>7

\* What a chain goes on with is no result and no login.
LEMMA ContinueCounted ==
    ASSUME NEW rest \in Rests, NEW session, NEW of_login
    PROVE  Counted(Continue(rest, session, of_login))
  <1> SUFFICES ASSUME NEW k \in Continue(rest, session, of_login)
               PROVE  k.call \notin {"reconcile", "login"}
    BY DEF Counted
  <1>1. rest \in Seq(Later) /\ rest # <<>>
    BY RestsAreLater DEF Continue
  <1>2. Head(rest) \in Later
    BY <1>1, HeadTailProperties
  <1>3. k.call = Head(rest) \/ k.call = "public"
    BY <1>1 DEF Continue, Begin
  <1> QED
    BY <1>2, <1>3 DEF Later, Loads

\* The chains login, the form and the buttons start.
LEMMA StartsCounted ==
    ASSUME NEW session, NEW of_login
    PROVE  /\ Counted(Continue(LoadAll, session, of_login))
           /\ session # {} => \E k \in Continue(LoadAll, session, of_login) : WillCount(k)
           /\ Counted(Continue(SubmitTrade, session, of_login))
           /\ \A button \in DOMAIN Buttons : Counted(Continue(Buttons[button], session, of_login))
  <1>1. LoadAll \in Seq(Loads) /\ Head(LoadAll) = "overview" /\ LoadAll[5] = "history"
        /\ 5 \in DOMAIN LoadAll
    BY DEF LoadAll, Loads, Calls, Requests
  <1>2. Head(SubmitTrade) = "trade"
    BY DEF SubmitTrade
  <1>3. ASSUME NEW rest, NEW k \in Continue(rest, session, of_login)
        PROVE  (k.call = Head(rest) /\ k.rest = Tail(rest)) \/ k.call = "public"
    BY <1>3 DEF Continue, Begin
  <1>4. Counted(Continue(LoadAll, session, of_login))
    BY <1>1, <1>3 DEF Counted
  <1>5. session # {} => \E k \in Continue(LoadAll, session, of_login) : WillCount(k)
    BY <1>1, ChainCounts DEF Ahead
  <1>6. Counted(Continue(SubmitTrade, session, of_login))
    BY <1>2, <1>3 DEF Counted
  <1>7. ASSUME NEW button \in DOMAIN Buttons
        PROVE  Counted(Continue(Buttons[button], session, of_login))
    <2>1. DOMAIN Buttons = {"loadOverview", "loadOrders", "loadRuns", "loadReconciliation",
                            "runReconciliation"}
      BY DEF Buttons
    <2>2. button # "runReconciliation" =>
              Head(Buttons[button]) \in {"overview", "orders", "runs", "history"}
      BY <2>1 DEF Buttons
    <2>3. /\ Head(Buttons.runReconciliation) = "reconcile"
          /\ Tail(Buttons.runReconciliation) = <<"overview", "history">>
      BY DEF Buttons
    <2>4. Ahead(<<"overview", "history">>)
      <3>1. 2 \in DOMAIN <<"overview", "history">> /\ <<"overview", "history">>[2] = "history"
        OBVIOUS
      <3> QED BY <3>1 DEF Ahead
    <2>5. CASE button # "runReconciliation"
      BY <1>3, <2>2, <2>5 DEF Counted
    <2>6. CASE button = "runReconciliation"
      BY <1>3, <2>3, <2>4, <2>6 DEF Counted, WillCount
    <2> QED BY <2>5, <2>6
  <1> QED
    BY <1>4, <1>5, <1>6, <1>7

\* A page that has just been loaded.
LEMMA PageCounted == ASSUME NEW session PROVE Counted(PageTasks(session))
  <1>1. \A i \in DOMAIN LoadAll : LoadAll[i] \notin {"reconcile", "login"}
    BY DEF LoadAll
  <1> QED
    BY <1>1 DEF Counted, PageTasks, Begin

LEMMA InitCounting == Init => Counting
  <1> SUFFICES ASSUME Init PROVE Counting
    OBVIOUS
  <1>1. token \in Sessions
    BY StoredAssumption DEF Init
  <1>2. Waiting = PageTasks(token)
    BY <1>1, PageLoaded DEF Init, Waiting
  <1>3. card["reconciliation"] = {} /\ panel["reconciliation"] = {}
    BY DEF Init, Panels, ProtectedPanels, Cards
  <1> QED
    BY <1>2, <1>3, PageCounted DEF Counting, Counted

LEMMA PersonCounting == TypeInv /\ Counting /\ Person => Counting'
  <1> SUFFICES ASSUME TypeInv, Counting, Person PROVE Counting'
    OBVIOUS
  <1>1. CASE Reload
    <2>1. Waiting' = PageTasks(token)
      BY <1>1, PageLoaded DEF Reload, Waiting, TypeInv, TypeOK
    <2>2. card'["reconciliation"] = {} /\ panel'["reconciliation"] = {}
      BY <1>1 DEF Reload, Panels, ProtectedPanels, Cards
    <2> QED BY <2>1, <2>2, PageCounted DEF Counting, Counted
  <1>2. ASSUME NEW S, Known(S), Counted(S), tasks' = tasks (+) SetToBag(S),
               UNCHANGED <<token, pageVars>> \/ token' = {}
        PROVE  Counting'
    <2>1. Waiting' = Waiting \cup S
      BY <1>2, TasksAdded
    <2> QED BY <1>2, <2>1 DEF Counting, Counted
  <1>3. ASSUME NEW u \in Users, Login(u) PROVE Counting'
    <2>1. Counted({Begin("login", <<>>, {u}, TRUE)})
      BY DEF Counted, Begin
    <2> QED BY <1>2, <1>3, <2>1, PersonAdds DEF Login
  <1>4. CASE Logout
    <2>1. Counted(LogoutTasks)
      BY DEF Counted, LogoutTasks, Begin
    <2> QED BY <1>2, <1>4, <2>1, PersonAdds DEF Logout
  <1>5. ASSUME NEW button \in DOMAIN Buttons, Click(button) PROVE Counting'
    <2> DEFINE S == Continue(Buttons[button], token, FALSE)
    <2>1. Known(S)
      BY PersonAdds
    <2>2. Counted(S)
      BY StartsCounted
    <2>3. tasks' = tasks (+) SetToBag(S) /\ UNCHANGED <<token, pageVars>>
      BY <1>5 DEF Click
    <2> HIDE DEF S
    <2> QED BY <1>2, <2>1, <2>2, <2>3
  <1>6. CASE Submit
    <2> DEFINE S == Continue(SubmitTrade, token, FALSE)
    <2>1. Known(S)
      BY PersonAdds
    <2>2. Counted(S)
      BY StartsCounted
    <2>3. tasks' = tasks (+) SetToBag(S) /\ UNCHANGED <<token, pageVars>>
      BY <1>6 DEF Submit
    <2> HIDE DEF S
    <2> QED BY <1>2, <2>1, <2>2, <2>3
  <1> QED
    BY <1>1, <1>3, <1>4, <1>5, <1>6 DEF Person

\* What the last answer of a call does to the reconciliation panel and its count.
LEMMA RenderCounts ==
    ASSUME TypeInv, NEW k, Render(k)
    PROVE  /\ k.call = "history" => card'["reconciliation"] = panel'["reconciliation"]
           /\ k.call \notin {"history", "reconcile"} =>
                  /\ card'["reconciliation"] = card["reconciliation"]
                  /\ panel'["reconciliation"] = panel["reconciliation"]
  <1>1. panel \in [Panels -> SUBSET Users] /\ card \in [Cards -> SUBSET Users]
    BY DEF TypeInv, TypeOK
  <1>2. {"reconciliation", "portfolio", "status"} \subseteq Panels /\ "reconciliation" \in Cards
    BY DEF Panels, ProtectedPanels, Cards
  <1>3. PICK shown \in {k.asker, {}} :
            \/ /\ k.call = "public"
               /\ panel' = [panel EXCEPT !.status = {}]
               /\ UNCHANGED card
            \/ /\ k.call = "overview"
               /\ panel' = [panel EXCEPT !.status = k.got, !.portfolio = shown]
               /\ card' = [card EXCEPT !.portfolio = shown]
            \/ /\ k.call \in DOMAIN PanelOf
               /\ panel' = [panel EXCEPT ![PanelOf[k.call]] = shown]
               /\ card' = IF k.call \in {"positions", "history"}
                          THEN [card EXCEPT ![PanelOf[k.call]] = shown]
                          ELSE card
    BY DEF Render
  <1>4. CASE k.call \in {"public", "overview"}
    <2>1. k.call \notin DOMAIN PanelOf /\ k.call \notin {"history", "reconcile"}
      BY <1>4 DEF PanelOf
    <2>2. card'["reconciliation"] = card["reconciliation"]
          /\ panel'["reconciliation"] = panel["reconciliation"]
      BY <1>1, <1>2, <1>3, <2>1
    <2> QED BY <2>1, <2>2
  <1>5. CASE k.call \in DOMAIN PanelOf
    <2>1. /\ panel' = [panel EXCEPT ![PanelOf[k.call]] = shown]
          /\ card' = IF k.call \in {"positions", "history"}
                     THEN [card EXCEPT ![PanelOf[k.call]] = shown]
                     ELSE card
      BY <1>3, <1>5 DEF PanelOf
    <2>2. CASE k.call = "history"
      BY <1>1, <1>2, <2>1, <2>2 DEF PanelOf
    <2>3. CASE k.call \notin {"history", "reconcile"}
      <3>1. PanelOf[k.call] # "reconciliation"
        BY <1>5, <2>3 DEF PanelOf
      <3> QED BY <1>1, <1>2, <2>1, <2>3, <3>1
    <2> QED BY <2>2, <2>3
  <1> QED
    BY <1>3, <1>4, <1>5

LEMMA AnswerCounting == TypeInv /\ Counting /\ Answer => Counting'
  <1> SUFFICES ASSUME TypeInv, Counting, NEW k \in Waiting,
                      NextRequest(k) \/ Render(k) \/ LoginSucceeds(k) \/ LoginFails(k)
               PROVE  Counting'
    BY DEF Answer
  <1>0. k \in Tasks /\ k.rest \in Rests
    BY DEF TypeInv, TypeOK, Tasks
  <1>1. CASE NextRequest(k)
    <2>1. PICK shown \in {k.asker, {}} : tasks' = Without(k) (+) SetToBag({Advanced(k, shown)})
      BY <1>1 DEF NextRequest, Advanced
    <2> DEFINE next == Advanced(k, shown)
    <2>2. Known({next}) /\ k.at < Requests[k.call]
      BY <1>1, AdvancedIs DEF NextRequest
    <2>3. next.call = k.call /\ next.rest = k.rest
      BY <1>0 DEF Advanced, Tasks
    <2>4. tasks' = Without(k) (+) SetToBag({next})
      BY <2>1
    <2> HIDE DEF next
    <2>5. /\ Waiting' \subseteq Waiting \cup {next}
          /\ Waiting \ {k} \subseteq Waiting' /\ next \in Waiting'
      BY <2>2, <2>4, TaskReplaced
    <2>6. UNCHANGED <<token, pageVars>>
      BY <1>1 DEF NextRequest
    <2>7. WillCount(next) <=> WillCount(k)
      BY <2>3 DEF WillCount
    <2> QED BY <2>3, <2>5, <2>6, <2>7 DEF Counting
  <1>2. CASE Render(k)
    <2> DEFINE S == Continue(k.rest, token, k.of_login)
    <2>1. Known(S)
      BY GoesOnWith
    <2>2. Counted(S)
      BY <1>0, ContinueCounted
    <2>3. Ahead(k.rest) /\ token # {} => \E next \in S : WillCount(next)
      <3>1. k.rest \in Seq(Loads)
        BY <1>0, RestsAreLater DEF Later
      <3> QED BY <3>1, ChainCounts
    <2>4. tasks' = Without(k) (+) SetToBag(S) /\ token' = token
      BY <1>2 DEF Render
    <2> HIDE DEF S
    <2>5. Waiting' \subseteq Waiting \cup S /\ Waiting \ {k} \subseteq Waiting' /\ S \subseteq Waiting'
      BY <2>1, <2>4, TaskReplaced
    <2>6. Counted(Waiting')
      BY <2>2, <2>5 DEF Counting, Counted
    <2>7. ASSUME token # {}, card'["reconciliation"] # panel'["reconciliation"]
          PROVE  \E next \in Waiting' : WillCount(next)
      <3>1. k.call # "history"
        BY <1>2, <2>7, RenderCounts
      <3>2. CASE WillCount(k)
        BY <2>3, <2>5, <2>7, <3>1, <3>2 DEF WillCount
      <3>3. CASE ~WillCount(k)
        <4>1. k.call # "reconcile"
          BY <3>3 DEF Counting
        <4>2. card["reconciliation"] # panel["reconciliation"]
          BY <1>2, <2>7, <3>1, <4>1, RenderCounts
        <4> QED BY <2>5, <2>7, <3>3, <4>2 DEF Counting
      <3> QED BY <3>2, <3>3
    <2> QED BY <2>4, <2>6, <2>7 DEF Counting, Counted
  <1>3. CASE LoginSucceeds(k)
    <2> DEFINE S == Continue(LoadAll, k.asker, TRUE)
    <2>1. Known(S)
      BY LoginGoesOnWith
    <2>2. k.asker # {}
      BY <1>3 DEF LoginSucceeds, TypeInv, LoginsAsk
    <2>3. Counted(S) /\ \E next \in S : WillCount(next)
      BY <2>2, StartsCounted
    <2>4. tasks' = Without(k) (+) SetToBag(S)
      BY <1>3 DEF LoginSucceeds
    <2> HIDE DEF S
    <2>5. Waiting' \subseteq Waiting \cup S /\ S \subseteq Waiting'
      BY <2>1, <2>4, TaskReplaced
    <2> QED BY <2>3, <2>5 DEF Counting, Counted
  <1>4. CASE LoginFails(k)
    <2>1. Waiting' \subseteq Waiting /\ Waiting \ {k} \subseteq Waiting'
      BY <1>4, TaskEnds DEF TypeInv, LoginFails, Without, Waiting
    <2>2. ~WillCount(k)
      BY <1>4 DEF LoginFails, Counting, WillCount, Ahead
    <2>3. token' = token /\ card' = card /\ panel'["reconciliation"] = panel["reconciliation"]
      BY <1>4 DEF LoginFails, TypeInv, TypeOK, Panels, ProtectedPanels
    <2> QED BY <2>1, <2>2, <2>3 DEF Counting
  <1> QED
    BY <1>1, <1>2, <1>3, <1>4

LEMMA NextCounting == TypeInv /\ Counting /\ [Next]_vars => Counting'
  <1>1. Counting /\ UNCHANGED vars => Counting'
    BY DEF Counting, Waiting
  <1> QED
    BY <1>1, PersonCounting, AnswerCounting DEF Next, AtRest

\* The history count comes to agree with the panel a reconciliation result was put
\* into, in any session that lasts, whatever fails and whoever logs in or out.
THEOREM CountsFollowResults == Spec => []CountFollowsResult
  <1>1. Counting => CountFollowsResult
    <2>1. tasks = EmptyBag => Waiting = {}
      BY DEF EmptyBag, SetToBag, Waiting, BagToSet
    <2> QED BY <2>1 DEF Counting, CountFollowsResult
  <1> QED
    BY <1>1, InitType, NextType, InitCounting, NextCounting, PTL DEF Spec
=============================================================================
