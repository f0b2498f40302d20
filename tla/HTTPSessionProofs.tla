------------------------- MODULE HTTPSessionProofs -------------------------
(***************************************************************************)
(* A batch is appended at most once and presented at most twice: the       *)
(* argument is about one call, and no other thread writes what a call      *)
(* keeps of itself.  And while calls come one at a time, no lapse is seen, *)
(* no password is paid twice and no token is left behind: the argument is  *)
(* about the one call running and the token it shares with the client.     *)
(* Both for every number of threads, tokens and calls.                     *)
(***************************************************************************)
EXTENDS HTTPSession, TLAPS

Places == {"idle", "authorize", "sign in", "signed in", "send", "answered", "ending"}
\* The call has not sent this try's request yet.
Asking == {"authorize", "sign in", "signed in", "send"}

\* What each thread keeps of its own call.
CallTypes ==
  /\ pc \in [Threads -> Places]
  /\ answer \in [Threads -> {"none", "200", "400", "401", "503"}]
  /\ retried \in [Threads -> BOOLEAN]
  /\ requests \in [Threads -> Nat]
  /\ landed \in [Threads -> Nat]
  /\ outcome \in [Threads -> {"none", "ok", "400", "401", "503", "lost"}]

\* A call has sent one request for each try it is past, and its batch landed if
\* the last of them was answered 200.
CallSoFar(t) ==
  LET tries == IF retried[t] THEN 1 ELSE 0 IN
  /\ pc[t] \in Asking =>
       requests[t] = tries /\ landed[t] = 0 /\ outcome[t] = "none"
  /\ pc[t] = "answered" =>
       /\ requests[t] = tries + 1 /\ outcome[t] = "none"
       /\ landed[t] = IF answer[t] = "200" THEN 1 ELSE 0

\* The two properties, of one thread.
Once(t) ==
  /\ landed[t] <= 1
  /\ outcome[t] = "ok" => landed[t] = 1
  /\ outcome[t] \in {"400", "401", "503"} => landed[t] = 0
Twice(t) == requests[t] <= 2 /\ (requests[t] = 2 => retried[t])

CallInv(t) == CallSoFar(t) /\ Once(t) /\ Twice(t)

\* The inductive invariant.
IInv == CallTypes /\ \A t \in Threads : CallInv(t)

\* What a call keeps of itself.
Own(t) == <<pc[t], answer[t], retried[t], requests[t], landed[t], outcome[t]>>

\* A thread none of whose own state changed keeps its part of the invariant.
LEMMA OthersKeep ==
  ASSUME NEW u \in Threads, CallInv(u), UNCHANGED Own(u)
  PROVE  CallInv(u)'
  BY DEF CallInv, CallSoFar, Once, Twice, Own

\* So a step of one thread need only keep that thread's part.
LEMMA OneThread ==
  ASSUME IInv, CallTypes', NEW t \in Threads, CallInv(t)',
         \A u \in Threads \ {t} : UNCHANGED Own(u)
  PROVE  IInv'
  BY OthersKeep DEF IInv

THEOREM InitIInv == Init => IInv
  BY DEF Init, IInv, CallTypes, CallInv, CallSoFar, Once, Twice, Places, Asking

THEOREM NextIInv == IInv /\ [Next]_vars => IInv'
  <1> SUFFICES ASSUME IInv, [Next]_vars PROVE IInv'
    OBVIOUS
  <1> USE DEF Goes, Ends, client, node, call
  <1>a. CallTypes
    BY DEF IInv
  <1>1. CASE UNCHANGED vars
    <2>1. CallTypes'
      BY <1>1, <1>a DEF vars, CallTypes
    <2>2. \A u \in Threads : UNCHANGED Own(u)
      BY <1>1 DEF vars, Own
    <2>3. QED
      BY <2>1, <2>2, OthersKeep DEF IInv
  <1>2. ASSUME NEW k \in Tokens, Lapse(k) PROVE IInv'
    <2>1. CallTypes'
      BY <1>2, <1>a DEF Lapse, CallTypes
    <2>2. \A u \in Threads : UNCHANGED Own(u)
      BY <1>2 DEF Lapse, Own
    <2>3. QED
      BY <2>1, <2>2, OthersKeep DEF IInv
  <1>3. CASE DefineUser
    <2>1. CallTypes'
      BY <1>3, <1>a DEF DefineUser, CallTypes
    <2>2. \A u \in Threads : UNCHANGED Own(u)
      BY <1>3 DEF DefineUser, Own
    <2>3. QED
      BY <2>1, <2>2, OthersKeep DEF IInv
  <1>4. ASSUME NEW t \in Threads, Call(t) \/ EndSession(t) \/ Thread(t)
        PROVE  IInv'
    <2>a. CallInv(t)
      BY DEF IInv
    <2>b. /\ pc[t] \in Places /\ requests[t] \in Nat /\ landed[t] \in Nat
          /\ retried[t] \in BOOLEAN
      BY <1>a DEF CallTypes
    <2>1. CASE Call(t)
      <3>1. CallTypes'
        BY <1>a, <2>1 DEF Call, CallTypes, Places
      <3>2. CallInv(t)'
        BY <1>a, <2>a, <2>b, <2>1
        DEF Call, CallTypes, CallInv, CallSoFar, Once, Twice, Asking
      <3>3. \A u \in Threads \ {t} : UNCHANGED Own(u)
        BY <1>a, <2>1 DEF Call, Own, CallTypes
      <3>4. QED
        BY <3>1, <3>2, <3>3, OneThread
    <2>2. CASE EndSession(t)
      <3>1. CallTypes'
        BY <1>a, <2>2 DEF EndSession, CallTypes, Places
      <3>2. CallInv(t)'
        BY <1>a, <2>a, <2>b, <2>2
        DEF EndSession, CallTypes, CallInv, CallSoFar, Once, Twice, Asking
      <3>3. \A u \in Threads \ {t} : UNCHANGED Own(u)
        BY <1>a, <2>2 DEF EndSession, Own, CallTypes
      <3>4. QED
        BY <3>1, <3>2, <3>3, OneThread
    <2>3. CASE Authorize(t)
      <3>1. CallTypes'
        BY <1>a, <2>3 DEF Authorize, CallTypes, Places
      <3>2. CallInv(t)'
        BY <1>a, <2>a, <2>b, <2>3
        DEF Authorize, CallTypes, CallInv, CallSoFar, Once, Twice, Asking
      <3>3. \A u \in Threads \ {t} : UNCHANGED Own(u)
        BY <1>a, <2>3 DEF Authorize, Own, CallTypes
      <3>4. QED
        BY <3>1, <3>2, <3>3, OneThread
    <2>4. CASE SignIn(t)
      <3>1. CallTypes'
        BY <1>a, <2>4 DEF SignIn, CallTypes, Places
      <3>2. CallInv(t)'
        BY <1>a, <2>a, <2>b, <2>4
        DEF SignIn, CallTypes, CallInv, CallSoFar, Once, Twice, Asking
      <3>3. \A u \in Threads \ {t} : UNCHANGED Own(u)
        BY <1>a, <2>4 DEF SignIn, Own, CallTypes
      <3>4. QED
        BY <3>1, <3>2, <3>3, OneThread
    <2>5. CASE StoreToken(t)
      <3>1. CallTypes'
        BY <1>a, <2>5 DEF StoreToken, CallTypes, Places
      <3>2. CallInv(t)'
        BY <1>a, <2>a, <2>b, <2>5
        DEF StoreToken, CallTypes, CallInv, CallSoFar, Once, Twice, Asking
      <3>3. \A u \in Threads \ {t} : UNCHANGED Own(u)
        BY <1>a, <2>5 DEF StoreToken, Own, CallTypes
      <3>4. QED
        BY <3>1, <3>2, <3>3, OneThread
    <2>6. CASE NoSession(t)
      <3>1. CallTypes'
        BY <1>a, <2>6 DEF NoSession, CallTypes, Places
      <3>2. CallInv(t)'
        BY <1>a, <2>a, <2>b, <2>6
        DEF NoSession, CallTypes, CallInv, CallSoFar, Once, Twice, Asking
      <3>3. \A u \in Threads \ {t} : UNCHANGED Own(u)
        BY <1>a, <2>6 DEF NoSession, Own, CallTypes
      <3>4. QED
        BY <3>1, <3>2, <3>3, OneThread
    <2>7. CASE SignInFails(t)
      <3>1. CallTypes'
        BY <1>a, <2>7 DEF SignInFails, CallTypes, Places
      <3>2. CallInv(t)'
        BY <1>a, <2>a, <2>b, <2>7
        DEF SignInFails, CallTypes, CallInv, CallSoFar, Once, Twice, Asking
      <3>3. \A u \in Threads \ {t} : UNCHANGED Own(u)
        BY <1>a, <2>7 DEF SignInFails, Own, CallTypes
      <3>4. QED
        BY <3>1, <3>2, <3>3, OneThread
    <2>8. CASE Send(t)
      <3>1. CallTypes'
        <4>1. requests[t] + 1 \in Nat /\ landed[t] + 1 \in Nat
          BY <2>b
        <4>2. requests' \in [Threads -> Nat] /\ landed' \in [Threads -> Nat]
          BY <1>a, <2>8, <4>1 DEF Send, CallTypes
        <4>3. QED
          BY <1>a, <2>8, <4>2 DEF Send, CallTypes, Places
      <3>2. CallInv(t)'
        BY <1>a, <2>a, <2>b, <2>8
        DEF Send, CallTypes, CallInv, CallSoFar, Once, Twice, Asking
      <3>3. \A u \in Threads \ {t} : UNCHANGED Own(u)
        BY <1>a, <2>8 DEF Send, Own, CallTypes
      <3>4. QED
        BY <3>1, <3>2, <3>3, OneThread
    <2>9. CASE Loses(t)
      <3>1. CallTypes'
        BY <1>a, <2>9 DEF Loses, CallTypes, Places
      <3>2. CallInv(t)'
        BY <1>a, <2>a, <2>b, <2>9
        DEF Loses, CallTypes, CallInv, CallSoFar, Once, Twice, Asking
      <3>3. \A u \in Threads \ {t} : UNCHANGED Own(u)
        BY <1>a, <2>9 DEF Loses, Own, CallTypes
      <3>4. QED
        BY <3>1, <3>2, <3>3, OneThread
    <2>10. CASE Succeeds(t)
      <3>1. CallTypes'
        BY <1>a, <2>10 DEF Succeeds, CallTypes, Places
      <3>2. CallInv(t)'
        BY <1>a, <2>a, <2>b, <2>10
        DEF Succeeds, CallTypes, CallInv, CallSoFar, Once, Twice, Asking
      <3>3. \A u \in Threads \ {t} : UNCHANGED Own(u)
        BY <1>a, <2>10 DEF Succeeds, Own, CallTypes
      <3>4. QED
        BY <3>1, <3>2, <3>3, OneThread
    <2>11. CASE Raises(t)
      <3>1. CallTypes'
        BY <1>a, <2>11 DEF Raises, CallTypes, Places
      <3>2. CallInv(t)'
        BY <1>a, <2>a, <2>b, <2>11
        DEF Raises, CallTypes, CallInv, CallSoFar, Once, Twice, Asking
      <3>3. \A u \in Threads \ {t} : UNCHANGED Own(u)
        BY <1>a, <2>11 DEF Raises, Own, CallTypes
      <3>4. QED
        BY <3>1, <3>2, <3>3, OneThread
    <2>12. CASE Discard(t)
      <3>1. CallTypes'
        BY <1>a, <2>12 DEF Discard, CallTypes, Places
      <3>2. CallInv(t)'
        <4>1. requests[t] = 1 /\ landed[t] = 0 /\ outcome[t] = "none"
          BY <2>a, <2>12 DEF Discard, CallInv, CallSoFar
        <4>2. /\ requests'[t] = 1 /\ landed'[t] = 0
              /\ pc'[t] \in {"authorize", "idle"}
              /\ pc'[t] = "authorize" => retried'[t] /\ outcome'[t] = "none"
              /\ pc'[t] = "idle" => outcome'[t] = "401"
          BY <1>a, <2>12, <4>1 DEF Discard, CallTypes
        <4>3. CallSoFar(t)'
          BY <4>2 DEF CallSoFar, Asking
        <4>4. Once(t)' /\ Twice(t)'
          BY <4>2 DEF Once, Twice
        <4>5. QED
          BY <4>3, <4>4 DEF CallInv
      <3>3. \A u \in Threads \ {t} : UNCHANGED Own(u)
        BY <1>a, <2>12 DEF Discard, Own, CallTypes
      <3>4. QED
        BY <3>1, <3>2, <3>3, OneThread
    <2>13. CASE RefusedTwice(t)
      <3>1. CallTypes'
        BY <1>a, <2>13 DEF RefusedTwice, CallTypes, Places
      <3>2. CallInv(t)'
        BY <1>a, <2>a, <2>b, <2>13
        DEF RefusedTwice, CallTypes, CallInv, CallSoFar, Once, Twice, Asking
      <3>3. \A u \in Threads \ {t} : UNCHANGED Own(u)
        BY <1>a, <2>13 DEF RefusedTwice, Own, CallTypes
      <3>4. QED
        BY <3>1, <3>2, <3>3, OneThread
    <2>14. CASE GiveBack(t)
      <3>1. CallTypes'
        BY <1>a, <2>14 DEF GiveBack, CallTypes, Places
      <3>2. CallInv(t)'
        BY <1>a, <2>a, <2>b, <2>14
        DEF GiveBack, CallTypes, CallInv, CallSoFar, Once, Twice, Asking
      <3>3. \A u \in Threads \ {t} : UNCHANGED Own(u)
        BY <1>a, <2>14 DEF GiveBack, Own, CallTypes
      <3>4. QED
        BY <3>1, <3>2, <3>3, OneThread
    <2>15. QED
      BY <1>4, <2>1, <2>2, <2>3, <2>4, <2>5, <2>6, <2>7,
         <2>8, <2>9, <2>10, <2>11, <2>12, <2>13, <2>14
      DEF Thread
  <1>5. QED
    BY <1>1, <1>2, <1>3, <1>4 DEF Next

\* Every call keeps to its course, whatever the other threads do.
THEOREM Invariant == Spec => []IInv
  BY InitIInv, NextIInv, PTL DEF Spec

\* A batch of events lands at most once, and its caller is told whether it did.
THEOREM AppendsOnce == Spec => []AppendedOnce
  <1>1. IInv => AppendedOnce
    BY DEF IInv, CallInv, Once, AppendedOnce
  <1>2. QED
    BY <1>1, Invariant, PTL

\* A request is presented at most twice, the second time after a 401.
THEOREM RetriesOnce == Spec => []OneRetry
  <1>1. IInv => OneRetry
    BY DEF IInv, CallInv, Twice, OneRetry
  <1>2. QED
    BY <1>1, Invariant, PTL

-----------------------------------------------------------------------------
(* Calls that come one at a time *)

\* What the client, the node and the calls hold.
Kinds ==
  /\ issued \in Nat /\ paid \in Nat /\ ended \in Nat
  /\ token \in 0 .. issued /\ live \subseteq 1 .. issued
  /\ auth \in [Threads -> Int] /\ since \in [Threads -> Nat]
  /\ \A t \in Threads : auth[t] <= issued /\ since[t] <= issued

\* One call at a time.
Solo == \A t, u \in Threads : t # u => pc[t] = "idle" \/ pc[u] = "idle"

\* The call has the token the client does not hold: new, or being given back.
Carries(t) == pc[t] = "ending" \/ (pc[t] = "signed in" /\ answer[t] = "200")

\* Every token the node honours is the client's, or in the hands of the call.
Held == \A k \in live : k = token \/ \E t \in Threads : Carries(t) /\ k = auth[t]

\* A password was paid for each token that ended and for the one that lives.
Money == ~sessionless => paid <= ended + (IF live = {} THEN 0 ELSE 1)

\* What the call running knows of the token it uses.
Part(t) ==
  /\ pc[t] \in {"sign in", "signed in", "ending"} => token = NoToken
  /\ pc[t] = "signed in" /\ answer[t] = "200" => auth[t] = issued /\ auth[t] > since[t]
  /\ pc[t] \in {"send", "answered"} =>
       \/ auth[t] = Basic /\ sessionless
       \/ auth[t] = token /\ token # NoToken
  /\ pc[t] = "answered" /\ answer[t] = "401" => auth[t] \notin live /\ auth[t] # Basic
  /\ pc[t] = "authorize" /\ retried[t] => token = NoToken
  /\ pc[t] \in {"send", "answered"} /\ retried[t] => auth[t] = Basic \/ auth[t] > since[t]

\* A call that raised 401 was refused with a token issued during it, and any
\* token held since is newer still.
Newer(t) ==
  outcome[t] = "401" => auth[t] > since[t] /\ (token = NoToken \/ token > since[t])

Calm ==
  /\ Kinds /\ Solo /\ Held /\ Money
  /\ \A t \in Threads : Part(t) /\ Newer(t)

\* The invariant of calls that never overlap.
QuietInv == IInv /\ (quiet => Calm)

\* What the others keep while t is the one that moves.
Still(t) == \A u \in Threads \ {t} :
  pc[u] = "idle" /\ UNCHANGED <<pc[u], auth[u], outcome[u], since[u]>>

\* A step of one call need only keep that call's part and the client's.
LEMMA CalmStep ==
  ASSUME Calm, NEW t \in Threads, Still(t), Kinds', Held', Money',
         Part(t)', Newer(t)', token' \in {NoToken, token, issued'}
  PROVE  Calm'
  <1>1. Solo'
    BY DEF Still, Solo
  <1>2. ASSUME NEW u \in Threads \ {t} PROVE Part(u)' /\ Newer(u)'
    <2>1. pc'[u] = "idle" /\ auth'[u] = auth[u] /\ outcome'[u] = outcome[u]
          /\ since'[u] = since[u] /\ Newer(u)
      BY <1>2 DEF Still, Calm
    <2>2. Part(u)'
      BY <2>1 DEF Part
    <2>3. auth'[u] <= issued' /\ auth'[u] \in Int /\ since'[u] \in Int
          /\ issued' \in Int
      BY <1>2 DEF Kinds
    <2>4. Newer(u)'
      BY <2>1, <2>3 DEF Newer
    <2>5. QED
      BY <2>2, <2>4
  <1>3. QED
    BY <1>1, <1>2 DEF Calm

THEOREM InitQuiet == Init => QuietInv
  BY InitIInv DEF Init, QuietInv, Calm, Kinds, Solo, Held, Money, Part, Newer, NoToken

THEOREM NextQuiet == QuietInv /\ [Next]_vars => QuietInv'
  <1> SUFFICES ASSUME QuietInv, [Next]_vars, quiet' PROVE Calm'
    BY NextIInv DEF QuietInv
  <1> USE DEF Goes, Ends, client, node, call
  <1>a. IInv /\ CallTypes
    BY DEF QuietInv, IInv
  <1>b. quiet /\ Calm
    <2>1. quiet' => quiet
      BY DEF Next, vars, Lapse, DefineUser, Call, EndSession, Thread, Authorize,
             SignIn, StoreToken, NoSession, SignInFails, Send, Loses, Succeeds,
             Raises, Discard, RefusedTwice, GiveBack
    <2>2. QED
      BY <2>1 DEF QuietInv
  <1>c. Kinds /\ Solo /\ Held /\ Money /\ (\A t \in Threads : Part(t) /\ Newer(t))
    BY <1>b DEF Calm
  <1>f. Kinds
    BY <1>b DEF Calm
  <1>1. CASE UNCHANGED vars
    <2>1. Kinds' /\ Solo'
      BY <1>1, <1>c DEF vars, Kinds, Solo
    <2>2. Held' /\ Money'
      BY <1>1, <1>c DEF vars, Held, Carries, Money
    <2>3. \A t \in Threads : Part(t)' /\ Newer(t)'
      BY <1>1, <1>c DEF vars, Part, Newer
    <2>4. QED
      BY <2>1, <2>2, <2>3 DEF Calm
  <1>2. ASSUME NEW k \in Tokens, Lapse(k) PROVE Calm'
    <2>1. Kinds' /\ Solo'
      BY <1>2, <1>c DEF Lapse, Kinds, Solo
    <2>2. Held'
      BY <1>2, <1>c DEF Lapse, Held, Carries
    <2>3. Money'
      BY <1>2, <1>c DEF Lapse, Money, Kinds
    <2>4. \A t \in Threads : Part(t)' /\ Newer(t)'
      BY <1>2, <1>c DEF Lapse, Part, Newer
    <2>5. QED
      BY <2>1, <2>2, <2>3, <2>4 DEF Calm
  <1>3. CASE DefineUser
    <2>1. Kinds' /\ Solo'
      BY <1>3, <1>c DEF DefineUser, Kinds, Solo
    <2>2. Held' /\ Money'
      BY <1>3, <1>c DEF DefineUser, Held, Carries, Money
    <2>3. \A t \in Threads : Part(t)' /\ Newer(t)'
      BY <1>3, <1>c DEF DefineUser, Part, Newer
    <2>4. QED
      BY <2>1, <2>2, <2>3 DEF Calm
  <1>4. ASSUME NEW t \in Threads, Call(t) \/ EndSession(t) \/ Thread(t)
        PROVE  Calm'
    <2>a. Part(t) /\ Newer(t) /\ CallInv(t)
      BY <1>a, <1>c DEF IInv
    <2>b. /\ issued \in Nat /\ paid \in Nat /\ ended \in Nat
          /\ token \in Nat /\ token <= issued
          /\ auth[t] \in Int /\ since[t] \in Int
          /\ auth[t] <= issued /\ since[t] <= issued
          /\ pc[t] \in Places /\ retried[t] \in BOOLEAN
      BY <1>a, <1>c DEF Kinds, CallTypes
    \* Whoever moves is alone.
    <2>c. \A u \in Threads \ {t} : pc[u] = "idle"
      <3>1. CASE pc[t] # "idle"
        BY <3>1, <1>c DEF Solo
      <3>2. CASE pc[t] = "idle"
        BY <3>2, <1>4 DEF Call, EndSession, Thread, Alone, Authorize,
             SignIn, StoreToken, NoSession, SignInFails, Send, Loses, Succeeds,
             Raises, Discard, RefusedTwice, GiveBack
      <3>3. QED
        BY <3>1, <3>2
    \* So every token honoured is the client's or the mover's.
    <2>d. \A k \in live : k = token \/ (Carries(t) /\ k = auth[t])
      BY <2>c, <1>c DEF Held, Carries
    <2>e. \A u \in Threads : auth[u] <= issued /\ since[u] <= issued
                             /\ auth[u] \in Int /\ since[u] \in Int
      BY <1>c DEF Kinds
    <2>1. CASE Call(t)
      <3>1. Still(t)
        BY <1>a, <1>c, <2>c, <2>1 DEF Call, Still, CallTypes, Kinds
      <3>2. Kinds'
        BY <1>c, <2>b, <2>e, <2>1 DEF Call, Alone, Kinds
      <3>3. Held'
        BY <1>a, <1>c, <2>a, <2>b, <2>d, <2>1 DEF Call, Alone, Held, Carries, Part, CallTypes, Kinds
      <3>4. Money'
        BY <1>c, <2>a, <2>b, <2>d, <2>1 DEF Call, Alone, Money, Carries, Part, Kinds
      <3>5. Part(t)'
        BY <1>a, <1>c, <2>a, <2>b, <2>1 DEF Call, Alone, Part, CallTypes, Kinds, NoToken, Basic
      <3>6. Newer(t)'
        BY <1>a, <1>c, <2>a, <2>b, <2>1 DEF Call, Alone, Newer, Part, CallInv, CallSoFar, Asking, CallTypes, Kinds, NoToken, Basic
      <3>7. token' \in {NoToken, token, issued'}
        BY <2>a, <2>1 DEF Call, Part
      <3>8. QED
        BY <1>b, <3>1, <3>2, <3>3, <3>4, <3>5, <3>6, <3>7, CalmStep
    <2>2. CASE EndSession(t)
      <3>1. Still(t)
        BY <1>a, <1>c, <2>c, <2>2 DEF EndSession, Still, CallTypes, Kinds
      <3>2. Kinds'
        <4>1. auth' = [auth EXCEPT ![t] = token] /\ UNCHANGED <<issued, since>>
          BY <2>2 DEF EndSession
        <4>2. auth' \in [Threads -> Int] /\ \A u \in Threads : auth'[u] <= issued
          BY <1>f, <2>b, <4>1 DEF Kinds
        <4>3. UNCHANGED <<issued, paid, ended, live>> /\ token' = NoToken
          BY <2>2 DEF EndSession
        <4>4. QED
          BY <1>f, <2>b, <4>1, <4>2, <4>3 DEF Kinds, NoToken
      <3>3. Held'
        BY <1>a, <1>c, <2>a, <2>b, <2>d, <2>2 DEF EndSession, Alone, Held, Carries, Part, CallTypes, Kinds
      <3>4. Money'
        BY <1>c, <2>a, <2>b, <2>d, <2>2 DEF EndSession, Alone, Money, Carries, Part, Kinds
      <3>5. Part(t)'
        BY <1>a, <1>c, <2>a, <2>b, <2>2 DEF EndSession, Alone, Part, CallTypes, Kinds, NoToken, Basic
      <3>6. Newer(t)'
        BY <1>a, <1>c, <2>a, <2>b, <2>2 DEF EndSession, Alone, Newer, Part, CallInv, CallSoFar, Asking, CallTypes, Kinds, NoToken, Basic
      <3>7. token' \in {NoToken, token, issued'}
        BY <2>a, <2>2 DEF EndSession, Part
      <3>8. QED
        BY <1>b, <3>1, <3>2, <3>3, <3>4, <3>5, <3>6, <3>7, CalmStep
    <2>3. CASE Authorize(t)
      <3>1. Still(t)
        BY <1>a, <1>c, <2>c, <2>3 DEF Authorize, Still, CallTypes, Kinds
      <3>2. Kinds'
        <4>1. CASE UNCHANGED auth
          BY <1>c, <2>3, <4>1 DEF Authorize, Kinds
        <4>a. UNCHANGED <<issued, paid, ended, token, live, since>>
          BY <2>3 DEF Authorize
        <4>2. CASE auth' = [auth EXCEPT ![t] = token]
          <5>1. auth' \in [Threads -> Int] /\ \A u \in Threads : auth'[u] <= issued
            BY <1>f, <2>b, <4>2 DEF Kinds
          <5>2. QED
            BY <1>f, <4>a, <5>1 DEF Kinds
        <4>3. CASE auth' = [auth EXCEPT ![t] = Basic]
          <5>1. auth' \in [Threads -> Int] /\ \A u \in Threads : auth'[u] <= issued
            BY <1>f, <2>b, <4>3 DEF Kinds, Basic
          <5>2. QED
            BY <1>f, <4>a, <5>1 DEF Kinds
        <4>4. QED
          BY <2>3, <4>1, <4>2, <4>3 DEF Authorize
      <3>3. Held'
        BY <1>a, <1>c, <2>a, <2>b, <2>d, <2>3 DEF Authorize, Held, Carries, Part, CallTypes, Kinds
      <3>4. Money'
        BY <1>c, <2>a, <2>b, <2>d, <2>3 DEF Authorize, Money, Carries, Part, Kinds
      <3>5. Part(t)'
        BY <1>a, <1>c, <2>a, <2>b, <2>3 DEF Authorize, Part, CallTypes, Kinds, NoToken, Basic
      <3>6. Newer(t)'
        BY <1>a, <1>c, <2>a, <2>b, <2>3 DEF Authorize, Newer, Part, CallInv, CallSoFar, Asking, CallTypes, Kinds, NoToken, Basic
      <3>7. token' \in {NoToken, token, issued'}
        BY <2>a, <2>3 DEF Authorize, Part
      <3>8. QED
        BY <1>b, <3>1, <3>2, <3>3, <3>4, <3>5, <3>6, <3>7, CalmStep
    <2>4. CASE SignIn(t)
      <3>1. Still(t)
        BY <1>a, <1>c, <2>c, <2>4 DEF SignIn, Still, CallTypes, Kinds
      <3>2. Kinds'
        <4>1. CASE UNCHANGED <<issued, live, paid, auth>>
          BY <1>c, <2>4, <4>1 DEF SignIn, Kinds
        <4>2. CASE /\ issued' = issued + 1 /\ live' = live \cup {issued + 1}
                   /\ paid' = paid + 1 /\ auth' = [auth EXCEPT ![t] = issued + 1]
          <5>a. UNCHANGED <<ended, token, since>>
            BY <2>4 DEF SignIn
          <5>1. /\ auth' \in [Threads -> Int] /\ since' \in [Threads -> Nat]
                /\ \A u \in Threads : auth'[u] <= issued' /\ since'[u] <= issued'
            BY <1>f, <2>b, <2>e, <4>2, <5>a DEF Kinds
          <5>2. live' \subseteq 1 .. issued'
            <6>1. ASSUME NEW k \in live' PROVE k \in 1 .. issued'
              <7>1. k \in 1 .. issued \/ k = issued + 1
                BY <1>f, <4>2, <6>1 DEF Kinds
              <7>2. issued' = issued + 1
                BY <4>2
              <7>3. QED
                BY <2>b, <7>1, <7>2
            <6>2. QED
              BY <6>1
          <5>3. issued' \in Nat /\ paid' \in Nat /\ ended' \in Nat /\ token' \in 0 .. issued'
            BY <2>b, <4>2, <5>a
          <5>4. QED
            BY <5>1, <5>2, <5>3 DEF Kinds
        <4>3. QED
          BY <2>4, <4>1, <4>2 DEF SignIn
      <3>3. Held'
        <4>1. live = {}
          <5>1. token = NoToken /\ ~Carries(t)
            BY <2>a, <2>4 DEF SignIn, Part, Carries
          <5>2. QED
            BY <1>f, <2>b, <2>d, <5>1 DEF Kinds, NoToken
        <4>2. CASE UNCHANGED live
          BY <4>1, <4>2 DEF Held
        <4>3. CASE /\ live' = live \cup {issued + 1}
                   /\ auth' = [auth EXCEPT ![t] = issued + 1]
                   /\ answer' = [answer EXCEPT ![t] = "200"]
          <5>1. auth'[t] = issued + 1 /\ answer'[t] = "200" /\ pc'[t] = "signed in"
            BY <1>a, <1>c, <2>4, <4>3 DEF SignIn, CallTypes, Kinds
          <5>2. QED
            BY <4>1, <4>3, <5>1 DEF Held, Carries
        <4>4. QED
          BY <2>4, <4>2, <4>3 DEF SignIn
      <3>4. Money'
        <4>1. live = {}
          <5>1. token = NoToken /\ ~Carries(t)
            BY <2>a, <2>4 DEF SignIn, Part, Carries
          <5>2. QED
            BY <1>f, <2>b, <2>d, <5>1 DEF Kinds, NoToken
        <4>2. CASE UNCHANGED <<live, paid>>
          BY <1>c, <2>4, <4>2 DEF SignIn, Money
        <4>3. CASE live' = live \cup {issued + 1} /\ paid' = paid + 1
          <5>1. live' # {}
            BY <4>3
          <5>2. sessionless' = sessionless /\ ended' = ended
            BY <2>4 DEF SignIn
          <5>3. ~sessionless => paid <= ended
            BY <1>c, <2>b, <4>1 DEF Money
          <5>4. QED
            BY <2>b, <4>3, <5>1, <5>2, <5>3 DEF Money
        <4>4. QED
          BY <2>4, <4>2, <4>3 DEF SignIn
      <3>5. Part(t)'
        <4>1. pc'[t] = "signed in" /\ token' = NoToken
          BY <1>a, <2>a, <2>4 DEF SignIn, Part, CallTypes
        <4>2. answer'[t] = "200" => auth'[t] = issued' /\ auth'[t] > since'[t]
          <5>1. CASE /\ issued' = issued + 1
                     /\ auth' = [auth EXCEPT ![t] = issued + 1]
            <6>1. auth'[t] = issued' /\ since'[t] = since[t]
              BY <1>f, <2>4, <5>1 DEF SignIn, Kinds
            <6>2. QED
              BY <2>b, <5>1, <6>1
          <5>2. CASE \/ answer' = [answer EXCEPT ![t] = "401"]
                     \/ answer' = [answer EXCEPT ![t] = "503"]
            BY <1>a, <5>2 DEF CallTypes
          <5>3. QED
            BY <2>4, <5>1, <5>2 DEF SignIn
        <4>3. QED
          BY <4>1, <4>2 DEF Part
      <3>6. Newer(t)'
        BY <1>a, <1>c, <2>a, <2>b, <2>4 DEF SignIn, Newer, Part, CallInv, CallSoFar, Asking, CallTypes, Kinds, NoToken, Basic
      <3>7. token' \in {NoToken, token, issued'}
        BY <2>a, <2>4 DEF SignIn, Part
      <3>8. QED
        BY <1>b, <3>1, <3>2, <3>3, <3>4, <3>5, <3>6, <3>7, CalmStep
    <2>5. CASE StoreToken(t)
      <3>1. Still(t)
        BY <1>a, <1>c, <2>c, <2>5 DEF StoreToken, Still, CallTypes, Kinds
      <3>2. Kinds'
        <4>1. token' \in 0 .. issued'
          <5>1. token' = issued /\ issued' = issued
            BY <2>a, <2>5 DEF StoreToken, Part
          <5>2. QED
            BY <2>b, <5>1
        <4>2. QED
          BY <1>c, <2>5, <4>1 DEF StoreToken, Kinds
      <3>3. Held'
        <4>1. live' = live /\ token' = auth[t] /\ token = NoToken
          BY <2>a, <2>5 DEF StoreToken, Part
        <4>2. \A k \in live : k # NoToken
          BY <1>f, <2>b DEF Kinds, NoToken
        <4>3. QED
          BY <2>d, <4>1, <4>2 DEF Held
      <3>4. Money'
        BY <1>c, <2>a, <2>b, <2>d, <2>5 DEF StoreToken, Money, Carries, Part, Kinds
      <3>5. Part(t)'
        <4>1. /\ pc'[t] = "send" /\ UNCHANGED <<auth, since, retried>>
              /\ token' = auth[t] /\ auth[t] = issued /\ auth[t] > since[t]
          BY <1>a, <2>a, <2>5 DEF StoreToken, Part, CallTypes
        <4>2. auth[t] # NoToken
          BY <2>b, <4>1, <1>c DEF Kinds, NoToken
        <4>3. QED
          BY <4>1, <4>2 DEF Part
      <3>6. Newer(t)'
        BY <1>a, <1>c, <2>a, <2>b, <2>5 DEF StoreToken, Newer, Part, CallInv, CallSoFar, Asking, CallTypes, Kinds, NoToken, Basic
      <3>7. token' \in {NoToken, token, issued'}
        BY <2>a, <2>5 DEF StoreToken, Part
      <3>8. QED
        BY <1>b, <3>1, <3>2, <3>3, <3>4, <3>5, <3>6, <3>7, CalmStep
    <2>6. CASE NoSession(t)
      <3>1. Still(t)
        BY <1>a, <1>c, <2>c, <2>6 DEF NoSession, Still, CallTypes, Kinds
      <3>2. Kinds'
        <4>1. auth' = [auth EXCEPT ![t] = Basic] /\ UNCHANGED <<issued, since>>
          BY <2>6 DEF NoSession
        <4>2. auth' \in [Threads -> Int] /\ \A u \in Threads : auth'[u] <= issued
          BY <1>f, <2>b, <4>1 DEF Kinds, Basic
        <4>3. UNCHANGED <<issued, paid, ended, token, live, since>>
          BY <2>6 DEF NoSession
        <4>4. QED
          BY <1>f, <4>2, <4>3 DEF Kinds
      <3>3. Held'
        BY <1>a, <1>c, <2>a, <2>b, <2>d, <2>6 DEF NoSession, Held, Carries, Part, CallTypes, Kinds
      <3>4. Money'
        BY <1>c, <2>a, <2>b, <2>d, <2>6 DEF NoSession, Money, Carries, Part, Kinds
      <3>5. Part(t)'
        BY <1>a, <1>c, <2>a, <2>b, <2>6 DEF NoSession, Part, CallTypes, Kinds, NoToken, Basic
      <3>6. Newer(t)'
        BY <1>a, <1>c, <2>a, <2>b, <2>6 DEF NoSession, Newer, Part, CallInv, CallSoFar, Asking, CallTypes, Kinds, NoToken, Basic
      <3>7. token' \in {NoToken, token, issued'}
        BY <2>a, <2>6 DEF NoSession, Part
      <3>8. QED
        BY <1>b, <3>1, <3>2, <3>3, <3>4, <3>5, <3>6, <3>7, CalmStep
    <2>7. CASE SignInFails(t)
      <3>1. Still(t)
        BY <1>a, <1>c, <2>c, <2>7 DEF SignInFails, Still, CallTypes, Kinds
      <3>2. Kinds'
        BY <1>c, <2>b, <2>e, <2>7 DEF SignInFails, Kinds
      <3>3. Held'
        BY <1>a, <1>c, <2>a, <2>b, <2>d, <2>7 DEF SignInFails, Held, Carries, Part, CallTypes, Kinds
      <3>4. Money'
        BY <1>c, <2>a, <2>b, <2>d, <2>7 DEF SignInFails, Money, Carries, Part, Kinds
      <3>5. Part(t)'
        BY <1>a, <1>c, <2>a, <2>b, <2>7 DEF SignInFails, Part, CallTypes, Kinds, NoToken, Basic
      <3>6. Newer(t)'
        BY <1>a, <1>c, <2>a, <2>b, <2>7 DEF SignInFails, Newer, Part, CallInv, CallSoFar, Asking, CallTypes, Kinds, NoToken, Basic
      <3>7. token' \in {NoToken, token, issued'}
        BY <2>a, <2>7 DEF SignInFails, Part
      <3>8. QED
        BY <1>b, <3>1, <3>2, <3>3, <3>4, <3>5, <3>6, <3>7, CalmStep
    <2>8. CASE Send(t)
      <3>1. Still(t)
        BY <1>a, <1>c, <2>c, <2>8 DEF Send, Still, CallTypes, Kinds
      <3>2. Kinds'
        BY <1>c, <2>b, <2>e, <2>8 DEF Send, Verifies, Honours, Kinds
      <3>3. Held'
        BY <1>a, <1>c, <2>a, <2>b, <2>d, <2>8 DEF Send, Verifies, Honours, Held, Carries, Part, CallTypes, Kinds
      <3>4. Money'
        <4>1. ~sessionless => auth[t] # Basic
          <5>1. auth[t] = Basic => sessionless \/ auth[t] = token
            BY <2>a, <2>8 DEF Send, Part
          <5>2. token # Basic
            BY <2>b DEF Basic
          <5>3. QED
            BY <5>1, <5>2
        <4>2. ~sessionless => paid' = paid
          BY <2>b, <2>8, <4>1 DEF Send, Verifies
        <4>3. QED
          BY <1>c, <2>8, <4>2 DEF Send, Money
      <3>5. Part(t)'
        BY <1>a, <1>c, <2>a, <2>b, <2>8 DEF Send, Verifies, Honours, Part, CallTypes, Kinds, NoToken, Basic
      <3>6. Newer(t)'
        BY <1>a, <1>c, <2>a, <2>b, <2>8 DEF Send, Verifies, Honours, Newer, Part, CallInv, CallSoFar, Asking, CallTypes, Kinds, NoToken, Basic
      <3>7. token' \in {NoToken, token, issued'}
        BY <2>a, <2>8 DEF Send, Part
      <3>8. QED
        BY <1>b, <3>1, <3>2, <3>3, <3>4, <3>5, <3>6, <3>7, CalmStep
    <2>9. CASE Loses(t)
      BY <2>9 DEF Loses
    <2>10. CASE Succeeds(t)
      <3>1. Still(t)
        BY <1>a, <1>c, <2>c, <2>10 DEF Succeeds, Still, CallTypes, Kinds
      <3>2. Kinds'
        BY <1>c, <2>b, <2>e, <2>10 DEF Succeeds, Kinds
      <3>3. Held'
        BY <1>a, <1>c, <2>a, <2>b, <2>d, <2>10 DEF Succeeds, Held, Carries, Part, CallTypes, Kinds
      <3>4. Money'
        BY <1>c, <2>a, <2>b, <2>d, <2>10 DEF Succeeds, Money, Carries, Part, Kinds
      <3>5. Part(t)'
        BY <1>a, <1>c, <2>a, <2>b, <2>10 DEF Succeeds, Part, CallTypes, Kinds, NoToken, Basic
      <3>6. Newer(t)'
        BY <1>a, <1>c, <2>a, <2>b, <2>10 DEF Succeeds, Newer, Part, CallInv, CallSoFar, Asking, CallTypes, Kinds, NoToken, Basic
      <3>7. token' \in {NoToken, token, issued'}
        BY <2>a, <2>10 DEF Succeeds, Part
      <3>8. QED
        BY <1>b, <3>1, <3>2, <3>3, <3>4, <3>5, <3>6, <3>7, CalmStep
    <2>11. CASE Raises(t)
      <3>1. Still(t)
        BY <1>a, <1>c, <2>c, <2>11 DEF Raises, Still, CallTypes, Kinds
      <3>2. Kinds'
        BY <1>c, <2>b, <2>e, <2>11 DEF Raises, Kinds
      <3>3. Held'
        BY <1>a, <1>c, <2>a, <2>b, <2>d, <2>11 DEF Raises, Held, Carries, Part, CallTypes, Kinds
      <3>4. Money'
        BY <1>c, <2>a, <2>b, <2>d, <2>11 DEF Raises, Money, Carries, Part, Kinds
      <3>5. Part(t)'
        BY <1>a, <1>c, <2>a, <2>b, <2>11 DEF Raises, Part, CallTypes, Kinds, NoToken, Basic
      <3>6. Newer(t)'
        BY <1>a, <1>c, <2>a, <2>b, <2>11 DEF Raises, Newer, Part, CallInv, CallSoFar, Asking, CallTypes, Kinds, NoToken, Basic
      <3>7. token' \in {NoToken, token, issued'}
        BY <2>a, <2>11 DEF Raises, Part
      <3>8. QED
        BY <1>b, <3>1, <3>2, <3>3, <3>4, <3>5, <3>6, <3>7, CalmStep
    <2>12. CASE Discard(t)
      <3>1. Still(t)
        BY <1>a, <1>c, <2>c, <2>12 DEF Discard, Still, CallTypes, Kinds
      <3>2. Kinds'
        BY <1>c, <2>b, <2>12 DEF Discard, Kinds, NoToken
      <3>3. Held'
        <4>1. auth[t] = token /\ auth[t] \notin live /\ ~Carries(t)
          BY <2>a, <2>12 DEF Discard, Part, Carries
        <4>2. live = {}
          BY <2>d, <4>1
        <4>3. live' = live
          BY <2>12 DEF Discard, node
        <4>4. QED
          BY <4>2, <4>3 DEF Held
      <3>4. Money'
        BY <1>c, <2>a, <2>b, <2>d, <2>12 DEF Discard, Money, Carries, Part, Kinds
      <3>5. Part(t)'
        BY <1>a, <1>c, <2>a, <2>b, <2>12 DEF Discard, Part, CallTypes, Kinds, NoToken, Basic
      <3>6. Newer(t)'
        BY <1>a, <1>c, <2>a, <2>b, <2>12 DEF Discard, Newer, Part, CallInv, CallSoFar, Asking, CallTypes, Kinds, NoToken, Basic
      <3>7. token' \in {NoToken, token, issued'}
        BY <2>a, <2>12 DEF Discard, Part
      <3>8. QED
        BY <1>b, <3>1, <3>2, <3>3, <3>4, <3>5, <3>6, <3>7, CalmStep
    <2>13. CASE RefusedTwice(t)
      <3>1. Still(t)
        BY <1>a, <1>c, <2>c, <2>13 DEF RefusedTwice, Still, CallTypes, Kinds
      <3>2. Kinds'
        BY <1>c, <2>b, <2>e, <2>13 DEF RefusedTwice, Kinds
      <3>3. Held'
        BY <1>a, <1>c, <2>a, <2>b, <2>d, <2>13 DEF RefusedTwice, Held, Carries, Part, CallTypes, Kinds
      <3>4. Money'
        BY <1>c, <2>a, <2>b, <2>d, <2>13 DEF RefusedTwice, Money, Carries, Part, Kinds
      <3>5. Part(t)'
        BY <1>a, <1>c, <2>a, <2>b, <2>13 DEF RefusedTwice, Part, CallTypes, Kinds, NoToken, Basic
      <3>6. Newer(t)'
        BY <1>a, <1>c, <2>a, <2>b, <2>13 DEF RefusedTwice, Newer, Part, CallInv, CallSoFar, Asking, CallTypes, Kinds, NoToken, Basic
      <3>7. token' \in {NoToken, token, issued'}
        BY <2>a, <2>13 DEF RefusedTwice, Part
      <3>8. QED
        BY <1>b, <3>1, <3>2, <3>3, <3>4, <3>5, <3>6, <3>7, CalmStep
    <2>14. CASE GiveBack(t)
      <3>1. Still(t)
        BY <1>a, <1>c, <2>c, <2>14 DEF GiveBack, Still, CallTypes, Kinds
      <3>2. Kinds'
        <4>1. ended' \in Nat /\ live' \subseteq 1 .. issued
          <5>1. ended' = ended + 1 \/ ended' = ended
            BY <2>14 DEF GiveBack
          <5>2. live' \subseteq live
            BY <2>14 DEF GiveBack
          <5>3. QED
            BY <1>f, <2>b, <5>1, <5>2 DEF Kinds
        <4>2. QED
          BY <1>f, <2>14, <4>1 DEF GiveBack, Kinds
      <3>3. Held'
        BY <1>a, <1>c, <2>a, <2>b, <2>d, <2>14 DEF GiveBack, Held, Carries, Part, CallTypes, Kinds
      <3>4. Money'
        <4>1. CASE auth[t] \in live
          <5>1. live # {} /\ ended' = ended + 1
            BY <2>14, <4>1 DEF GiveBack
          <5>2. QED
            BY <1>c, <2>b, <2>14, <5>1 DEF GiveBack, Money
        <4>2. CASE auth[t] \notin live
          <5>1. live' = live /\ ended' = ended
            BY <2>14, <4>2 DEF GiveBack
          <5>2. QED
            BY <1>c, <2>14, <5>1 DEF GiveBack, Money
        <4>3. QED
          BY <4>1, <4>2
      <3>5. Part(t)'
        BY <1>a, <1>c, <2>a, <2>b, <2>14 DEF GiveBack, Part, CallTypes, Kinds, NoToken, Basic
      <3>6. Newer(t)'
        BY <1>a, <1>c, <2>a, <2>b, <2>14 DEF GiveBack, Newer, Part, CallInv, CallSoFar, Asking, CallTypes, Kinds, NoToken, Basic
      <3>7. token' \in {NoToken, token, issued'}
        BY <2>a, <2>14 DEF GiveBack, Part
      <3>8. QED
        BY <1>b, <3>1, <3>2, <3>3, <3>4, <3>5, <3>6, <3>7, CalmStep
    <2>15. QED
      BY <1>4, <2>1, <2>2, <2>3, <2>4, <2>5, <2>6, <2>7,
         <2>8, <2>9, <2>10, <2>11, <2>12, <2>13, <2>14
      DEF Thread
  <1>5. QED
    BY <1>1, <1>2, <1>3, <1>4 DEF Next

\* While calls come one at a time, the client and its calls keep to Calm.
THEOREM QuietInvariant == Spec => []QuietInv
  BY InitQuiet, NextQuiet, PTL DEF Spec

\* While they do, no caller sees a token end.
THEOREM LapseUnseenWhenAlone == Spec => []LapseUnseenAlone
  <1>1. QuietInv => LapseUnseenAlone
    BY DEF QuietInv, Calm, Newer, LapseUnseenAlone, LapseUnseen
  <1>2. QED
    BY <1>1, QuietInvariant, PTL

\* While they do, one password is verified and one more for each token ended.
THEOREM PasswordOnceWhenAlone == Spec => []PasswordSpentOnceAlone
  <1>1. QuietInv => PasswordSpentOnceAlone
    BY DEF QuietInv, Calm, Money, Kinds, PasswordSpentOnceAlone
  <1>2. QED
    BY <1>1, QuietInvariant, PTL

\* While they do, no token is left behind between them.
THEOREM NothingLeftWhenAlone == Spec => []NoTokenLeftBehind
  <1>1. QuietInv => NoTokenLeftBehind
    BY DEF QuietInv, Calm, Held, Carries, NoTokenLeftBehind
  <1>2. QED
    BY <1>1, QuietInvariant, PTL
=============================================================================
