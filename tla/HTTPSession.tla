---------------------------- MODULE HTTPSession ----------------------------
(***************************************************************************)
(* The session of an HTTPClient shared by threads                          *)
(* (src/src/tessaridb/http.py): the token and the sessionless mark that    *)
(* every request reads under a lock and that a 401, a sign-in and          *)
(* end_session write under it, the one retry after a 401, and the append   *)
(* that must not land twice.  The lock is held for each read or write and  *)
(* never across a request, so each is one step here.                       *)
(*                                                                         *)
(* The node is outside the repository: it issues tokens, ends them for its *)
(* own reasons and answers requests, as http.py says it does.  The user's  *)
(* password is the right one.                                              *)
(***************************************************************************)
EXTENDS Integers, FiniteSets

CONSTANTS
  Threads,     \* the threads calling one client
  Enders,      \* those of them that may call end_session
  MayLose,     \* whether a connection may fail with a request or answer on it
  StartsOpen,  \* whether the store starts with no user defined
  MaxTokens,   \* bound: tokens the node issues
  MaxLapses,   \* bound: tokens the node ends for its own reasons
  MaxCalls     \* bound: calls and end_sessions of each thread

ASSUME HTTPAssumption ==
  /\ Enders \subseteq Threads
  /\ {MayLose, StartsOpen} \subseteq BOOLEAN
  /\ {MaxTokens, MaxLapses, MaxCalls} \subseteq Nat

VARIABLES
  \* the client, under its lock
  token,        \* HTTPClient._token
  sessionless,  \* HTTPClient._sessionless
  \* the node
  closed,       \* whether a user is defined
  live,         \* the tokens it honours
  issued,       \* how many it has issued
  lapses,       \* how many it has ended for its own reasons
  ended,        \* how many it has ended, lapsed or given back
  paid,         \* how many passwords it has verified
  \* each thread's call
  pc,
  auth,         \* the Authorization of the request being sent
  answer,       \* the status of the last answer
  retried,      \* whether this is the request after a 401
  requests,     \* how many times this call's request was sent
  landed,       \* how many times this call's batch was appended
  outcome,      \* how the thread's last call ended
  since,        \* how many tokens had been issued when the call began
  calls,        \* how many calls the thread has made
  \* history
  quiet         \* whether no call has overlapped another or lost its answer

client == <<token, sessionless>>
node == <<closed, live, issued, lapses, ended, paid>>
call == <<auth, answer, retried, requests, landed, outcome, since, calls>>
vars == <<client, node, pc, call, quiet>>

NoToken == 0
Basic == -1
Tokens == 1 .. MaxTokens

Init ==
  /\ token = NoToken /\ sessionless = FALSE
  /\ closed = ~StartsOpen
  /\ live = {} /\ issued = 0 /\ lapses = 0 /\ ended = 0 /\ paid = 0
  /\ pc = [t \in Threads |-> "idle"]
  /\ auth = [t \in Threads |-> NoToken]
  /\ answer = [t \in Threads |-> "none"]
  /\ retried = [t \in Threads |-> FALSE]
  /\ requests = [t \in Threads |-> 0]
  /\ landed = [t \in Threads |-> 0]
  /\ outcome = [t \in Threads |-> "none"]
  /\ since = [t \in Threads |-> 0]
  /\ calls = [t \in Threads |-> 0]
  /\ quiet = TRUE

\* Whether the client is t's alone.
Alone(t) == \A u \in Threads \ {t} : pc[u] = "idle"

Goes(t, where) == pc' = [pc EXCEPT ![t] = where]
Ends(t, how) == Goes(t, "idle") /\ outcome' = [outcome EXCEPT ![t] = how]

-----------------------------------------------------------------------------
(* The node *)

\* A token lapses, is revoked or goes with a restart: the client is not told.
Lapse(k) ==
  /\ k \in live /\ lapses < MaxLapses
  /\ live' = live \ {k}
  /\ lapses' = lapses + 1 /\ ended' = ended + 1
  /\ UNCHANGED <<quiet, client, closed, issued, paid, pc, call>>

\* The first DEFINE USER closes the store.
DefineUser ==
  /\ ~closed
  /\ closed' = TRUE
  /\ UNCHANGED <<quiet, client, live, issued, lapses, ended, paid, pc, call>>

Honours(a) == ~closed \/ a = Basic \/ a \in live
Verifies(a) == IF closed /\ a = Basic THEN 1 ELSE 0

-----------------------------------------------------------------------------
(* One call: an append, the request that must not be repeated *)

Call(t) ==
  /\ pc[t] = "idle" /\ calls[t] < MaxCalls
  /\ calls' = [calls EXCEPT ![t] = @ + 1]
  /\ retried' = [retried EXCEPT ![t] = FALSE]
  /\ requests' = [requests EXCEPT ![t] = 0]
  /\ landed' = [landed EXCEPT ![t] = 0]
  /\ outcome' = [outcome EXCEPT ![t] = "none"]
  /\ since' = [since EXCEPT ![t] = issued]
  /\ Goes(t, "authorize")
  /\ quiet' = (quiet /\ Alone(t))
  /\ UNCHANGED <<client, node, auth, answer>>

\* A token held, a store known to have no session, or a session to open.
Authorize(t) ==
  /\ pc[t] = "authorize"
  /\ \/ /\ token # NoToken
        /\ auth' = [auth EXCEPT ![t] = token] /\ Goes(t, "send")
     \/ /\ token = NoToken /\ sessionless
        /\ auth' = [auth EXCEPT ![t] = Basic] /\ Goes(t, "send")
     \/ /\ token = NoToken /\ ~sessionless
        /\ Goes(t, "sign in") /\ UNCHANGED auth
  /\ UNCHANGED <<quiet, client, node, answer, retried, requests, landed, outcome, since, calls>>

\* POST /session: a token, 401 from an open store, or a 503 or 429.
SignIn(t) ==
  /\ pc[t] = "sign in"
  /\ Goes(t, "signed in")
  /\ \/ /\ closed /\ issued < MaxTokens
        /\ issued' = issued + 1 /\ live' = live \cup {issued + 1}
        /\ paid' = paid + 1
        /\ answer' = [answer EXCEPT ![t] = "200"]
        /\ auth' = [auth EXCEPT ![t] = issued + 1]
     \/ /\ ~closed
        /\ answer' = [answer EXCEPT ![t] = "401"]
        /\ UNCHANGED <<issued, live, paid, auth>>
     \/ /\ closed
        /\ answer' = [answer EXCEPT ![t] = "503"]
        /\ UNCHANGED <<issued, live, paid, auth>>
  /\ UNCHANGED <<quiet, client, closed, lapses, ended, retried, requests, landed, outcome, since, calls>>

\* Mutant: the token is used and not kept.
StoreToken_Forgets(t) ==
  /\ pc[t] = "signed in" /\ answer[t] = "200"
  /\ Goes(t, "send")
  /\ UNCHANGED <<quiet, client, node, call>>

StoreToken(t) ==
  /\ pc[t] = "signed in" /\ answer[t] = "200"
  /\ token' = auth[t]
  /\ Goes(t, "send")
  /\ UNCHANGED <<quiet, sessionless, node, call>>

NoSession(t) ==
  /\ pc[t] = "signed in" /\ answer[t] = "401"
  /\ sessionless' = TRUE
  /\ auth' = [auth EXCEPT ![t] = Basic]
  /\ Goes(t, "send")
  /\ UNCHANGED <<quiet, token, node, answer, retried, requests, landed, outcome, since, calls>>

\* A sign-in is not tried again: repeated ones lock the user out.
SignInFails(t) ==
  /\ pc[t] = "signed in" /\ answer[t] = "503"
  /\ Ends(t, "503")
  /\ UNCHANGED <<quiet, client, node, auth, answer, retried, requests, landed, since, calls>>

\* The request, and what the node does with it before it answers.
Send(t) ==
  /\ pc[t] = "send"
  /\ requests' = [requests EXCEPT ![t] = @ + 1]
  /\ paid' = paid + Verifies(auth[t])
  /\ \/ /\ Honours(auth[t])
        /\ landed' = [landed EXCEPT ![t] = @ + 1]
        /\ answer' = [answer EXCEPT ![t] = "200"]
     \/ /\ ~Honours(auth[t])
        /\ answer' = [answer EXCEPT ![t] = "401"] /\ UNCHANGED landed
     \/ /\ Honours(auth[t])
        /\ answer' = [answer EXCEPT ![t] = "400"] /\ UNCHANGED landed
  /\ Goes(t, "answered")
  /\ UNCHANGED <<quiet, client, closed, live, issued, lapses, ended, auth, retried, outcome, since, calls>>

\* Mutant: a request whose answer is lost is sent again.
Loses_Resends(t) ==
  /\ MayLose /\ pc[t] = "answered"
  /\ Goes(t, "send")
  /\ UNCHANGED <<quiet, client, node, call>>

\* The connection fails before the answer arrives, the request run or not.
Loses(t) ==
  /\ MayLose /\ pc[t] \in {"sign in", "signed in", "send", "answered", "ending"}
  /\ Ends(t, "lost")
  /\ quiet' = FALSE
  /\ UNCHANGED <<client, node, auth, answer, retried, requests, landed, since, calls>>

Succeeds(t) ==
  /\ pc[t] = "answered" /\ answer[t] = "200"
  /\ Ends(t, "ok")
  /\ UNCHANGED <<quiet, client, node, auth, answer, retried, requests, landed, since, calls>>

Raises(t) ==
  /\ pc[t] = "answered" /\ answer[t] = "400"
  /\ Ends(t, "400")
  /\ UNCHANGED <<quiet, client, node, auth, answer, retried, requests, landed, since, calls>>

\* Mutant: a discarded token is not followed by another try.
Discard_Raises(t) ==
  /\ pc[t] = "answered" /\ answer[t] = "401" /\ ~retried[t]
  /\ token' = NoToken
  /\ Ends(t, "401")
  /\ UNCHANGED <<quiet, sessionless, node, auth, answer, retried, requests, landed, since, calls>>

\* The first 401: whatever token is held is discarded, and the request goes
\* again if there was one.
Discard(t) ==
  /\ pc[t] = "answered" /\ answer[t] = "401" /\ ~retried[t]
  /\ token' = NoToken
  /\ IF token # NoToken
     THEN /\ retried' = [retried EXCEPT ![t] = TRUE]
          /\ Goes(t, "authorize") /\ UNCHANGED outcome
     ELSE Ends(t, "401") /\ UNCHANGED retried
  /\ UNCHANGED <<quiet, sessionless, node, auth, answer, requests, landed, since, calls>>

RefusedTwice(t) ==
  /\ pc[t] = "answered" /\ answer[t] = "401" /\ retried[t]
  /\ Ends(t, "401")
  /\ UNCHANGED <<quiet, client, node, auth, answer, retried, requests, landed, since, calls>>

-----------------------------------------------------------------------------
(* end_session *)

\* Mutant: the token is forgotten and the node not told.
EndSession_OnlyForgets(t) ==
  /\ t \in Enders /\ pc[t] = "idle" /\ calls[t] < MaxCalls /\ token # NoToken
  /\ calls' = [calls EXCEPT ![t] = @ + 1]
  /\ token' = NoToken
  /\ quiet' = (quiet /\ Alone(t))
  /\ UNCHANGED <<sessionless, node, pc, auth, answer, retried, requests, landed,
                 outcome, since>>

EndSession(t) ==
  /\ t \in Enders /\ pc[t] = "idle" /\ calls[t] < MaxCalls /\ token # NoToken
  /\ calls' = [calls EXCEPT ![t] = @ + 1]
  /\ auth' = [auth EXCEPT ![t] = token]
  /\ token' = NoToken
  /\ Goes(t, "ending")
  /\ quiet' = (quiet /\ Alone(t))
  /\ UNCHANGED <<sessionless, node, answer, retried, requests, landed, outcome, since>>

\* DELETE /session answers the same whether or not the node held it.
GiveBack(t) ==
  /\ pc[t] = "ending"
  /\ live' = live \ {auth[t]}
  /\ ended' = IF auth[t] \in live THEN ended + 1 ELSE ended
  /\ Goes(t, "idle")
  /\ UNCHANGED <<quiet, client, closed, issued, lapses, paid, call>>

Thread(t) ==
  \/ Authorize(t) \/ SignIn(t) \/ StoreToken(t) \/ NoSession(t) \/ SignInFails(t)
  \/ Send(t) \/ Loses(t) \/ Succeeds(t) \/ Raises(t) \/ Discard(t)
  \/ RefusedTwice(t) \/ GiveBack(t)

Next ==
  \/ \E k \in Tokens : Lapse(k)
  \/ DefineUser
  \/ \E t \in Threads : Call(t) \/ EndSession(t) \/ Thread(t)

Spec == Init /\ [][Next]_vars

-----------------------------------------------------------------------------
(* Properties *)

\* A batch of events lands at most once however its token fares among the
\* threads; it landed when the call returns and did not when the call raises a
\* refusal (http.py:150-154).
AppendedOnce ==
  \A t \in Threads :
    /\ landed[t] <= 1
    /\ outcome[t] = "ok" => landed[t] = 1
    /\ outcome[t] \in {"400", "401", "503"} => landed[t] = 0

\* A call presents its request at most twice, the second time only after an
\* answer that ran nothing (http.py:210-218).
OneRetry ==
  \A t \in Threads : /\ requests[t] <= 2
                     /\ requests[t] = 2 => retried[t]

\* A token that ends is not something the caller sees: the client signs in
\* again and the call goes through.  A call that raises 401 was refused with a
\* token the node issued during that very call (http.py:14-16, README.md:
\* 408-411 "it signs in again and retries once, without the caller seeing it").
LapseUnseen == \A t \in Threads : outcome[t] = "401" => auth[t] > since[t]

\* As long as calls come one at a time, from whatever thread, no caller sees a
\* token end (http.py:210-218).
LapseUnseenAlone == quiet => LapseUnseen

\* As long as they do, and the store had a user when it was first asked, one
\* password is verified and one more for each token ended (http.py:6-12, 227-248,
\* README.md:406 "The password is spent once").
PasswordSpentOnceAlone == quiet /\ ~sessionless => paid <= 1 + ended

\* When no call is running, and none overlapped another or was cut off, the
\* client holds every token the node honours for it: none is left behind to
\* fill the node's table of sessions (http.py:185-191, 242-248).
NoTokenLeftBehind ==
  quiet /\ (\A t \in Threads : pc[t] = "idle") => live \subseteq {token}

=============================================================================
