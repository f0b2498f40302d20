------------------------------- MODULE Follow -------------------------------
(***************************************************************************)
(* Connection.execute and the redirects it follows                         *)
(* (src/src/tessaridb/_follow.py, connection.py): the request asked on the *)
(* caller's connection, the tenancy read there, the nodes dialled one      *)
(* after another, and the connection moved to the node a settled redirect  *)
(* named.  The credentials are presented by the first request of each      *)
(* connection and by no later one.  A script may select a tenancy itself,  *)
(* in the session it runs in.                                              *)
(*                                                                         *)
(* A session is what a node keeps for one connection: the tenancy selected *)
(* and whether credentials were presented.  Which node answers an address, *)
(* which redirects the nodes give and when they hang up is outside the     *)
(* repository and is not restricted here.                                  *)
(***************************************************************************)
EXTENDS Integers, Sequences

CONSTANTS
  Nodes,        \* the nodes of the cluster
  Home,         \* the node the connection was opened to
  Plain,        \* tenancies whose names are plain, which can be selected again
  Odd,          \* tenancies whose names are not
  NoTenancy,    \* nothing selected
  HasUser,      \* whether the connection was given a user
  Unsendable,   \* whether the caller may pass what no frame can carry
  MaxEpoch,     \* bound: the epochs redirects carry
  MaxExecutes   \* bound: the scripts the caller runs

ASSUME FollowAssumption ==
  /\ Home \in Nodes
  /\ Plain \cap Odd = {} /\ NoTenancy \notin Plain \cup Odd
  /\ {HasUser, Unsendable} \subseteq BOOLEAN
  /\ {MaxEpoch, MaxExecutes} \subseteq Nat

VARIABLES
  conn,       \* the caller's connection and its session
  there,      \* the connection to the node redirected to
  pc,         \* where execute is
  redirect,   \* the redirect being followed
  floor,      \* the epoch of the last redirect followed
  hops,       \* how many redirected nodes the script was sent to
  selecting,  \* the tenancy to select there
  choice,     \* the tenancy the script being run selects, if any
  result,     \* how the last execute ended
  sockets,    \* how many sockets this client holds open
  executes,   \* how many scripts the caller ran
  trail       \* this execute's redirected nodes that were sent the script

vars == <<conn, there, pc, redirect, floor, hops, selecting, choice, result, sockets,
          executes, trail>>
following == <<redirect, floor, hops, selecting, trail>>

MOST_HOPS == 3
Tenancies == Plain \cup Odd \cup {NoTenancy}
Redirects == [node : Nodes, epoch : 0 .. MaxEpoch, settled : BOOLEAN]
Sessions == [node : Nodes, owed : BOOLEAN, presented : 0 .. 2,
             ns : Tenancies, open : BOOLEAN]
Sent == [named : Nodes, node : Nodes, epoch : 0 .. MaxEpoch, settled : BOOLEAN,
         ns : Tenancies, presented : 0 .. 2]

\* A new connection, greeted: it has selected nothing and owes its credentials.
Dialled(n) == [node |-> n, owed |-> HasUser, presented |-> 0, ns |-> NoTenancy,
               open |-> TRUE]

\* A request sent on c carries the credentials when they are still owed.
Presented(c) == IF c.owed THEN [c EXCEPT !.owed = FALSE, !.presented = @ + 1]
                ELSE c
Closed(c) == [c EXCEPT !.open = FALSE]
\* The session c once the script has run in it.
Ran(c) == IF choice = NoTenancy THEN c ELSE [c EXCEPT !.ns = choice]

Init ==
  /\ conn = Dialled(Home)
  /\ there = Closed(Dialled(Home))
  /\ pc = "idle"
  /\ redirect = [node |-> Home, epoch |-> 0, settled |-> FALSE]
  /\ floor = 0 /\ hops = 0 /\ trail = <<>>
  /\ selecting = NoTenancy /\ choice = NoTenancy
  /\ result = "none"
  /\ sockets = 1
  /\ executes = 0

Ends(why) == pc' = "idle" /\ result' = why /\ choice' = NoTenancy

-----------------------------------------------------------------------------
(* The request on the caller's connection *)

CanExecute == pc = "idle" /\ conn.open /\ executes < MaxExecutes

\* A script, with or without a USE of its own.
Execute(ns) ==
  /\ CanExecute
  /\ conn' = Presented(conn)
  /\ executes' = executes + 1
  /\ pc' = "asked" /\ choice' = ns
  /\ trail' = <<>>
  /\ UNCHANGED <<there, redirect, floor, hops, selecting, result, sockets>>

\* A parameter no codec encodes, or a frame past the ceiling: raised after the
\* credentials were written into the request and before anything was sent.
ExecuteUnsendable ==
  /\ CanExecute /\ Unsendable
  /\ conn' = [conn EXCEPT !.owed = FALSE]
  /\ executes' = executes + 1
  /\ Ends("failed")
  /\ trail' = <<>>
  /\ UNCHANGED <<there, redirect, floor, hops, selecting, sockets>>

\* Outcomes, a refusal, or a body that cannot be decoded: all three leave the
\* connection open.  What was refused may have run as far as its USE.
Answered ==
  /\ pc = "asked"
  /\ \/ Ends("answer") /\ conn' = Ran(conn)
     \/ Ends("refused") /\ conn' \in {conn, Ran(conn)}
     \/ Ends("failed") /\ conn' \in {conn, Ran(conn)}
  /\ UNCHANGED <<there, following, sockets, executes>>

\* The node hangs up, or answers what cannot be read as a frame.
Lost ==
  /\ pc \in {"asked", "selecting"}
  /\ conn' = Closed(conn) /\ sockets' = sockets - 1
  /\ Ends("failed")
  /\ UNCHANGED <<there, following, executes>>

Redirected(r) ==
  /\ pc = "asked"
  /\ redirect' = r
  /\ floor' = 0 /\ hops' = 0
  /\ pc' = "selecting"
  /\ UNCHANGED <<conn, there, selecting, choice, result, sockets, executes, trail>>

\* session::context() on the caller's connection: its tenancy, if it can be
\* selected again.  A redirect or a refusal in answer ends the execute.
Select ==
  /\ pc = "selecting"
  /\ \/ /\ conn.ns \notin Odd
        /\ selecting' = conn.ns
        /\ pc' = "hop" /\ UNCHANGED <<result, choice>>
     \/ /\ conn.ns \in Odd
        /\ Ends("not followable") /\ UNCHANGED selecting
     \/ /\ Ends("failed") /\ UNCHANGED selecting
  /\ UNCHANGED <<conn, there, redirect, floor, hops, sockets, executes, trail>>

-----------------------------------------------------------------------------
(* The nodes redirected to *)

MayHop == hops < MOST_HOPS

TooManyHops ==
  /\ pc = "hop" /\ ~MayHop
  /\ Ends("loop")
  /\ UNCHANGED <<conn, there, following, sockets, executes>>

\* Mutant: the loop goes round again with the same redirect.
Stale_Continues ==
  /\ pc = "hop" /\ MayHop
  /\ redirect.epoch < floor
  /\ UNCHANGED vars

Stale ==
  /\ pc = "hop" /\ MayHop
  /\ redirect.epoch < floor
  /\ Ends("stale")
  /\ UNCHANGED <<conn, there, following, sockets, executes>>

\* Mutant: the floor is not raised.
Dial_KeepsFloor(n) ==
  /\ pc = "hop" /\ MayHop
  /\ redirect.epoch >= floor
  /\ \/ /\ there' = Presented(Dialled(n)) /\ sockets' = sockets + 1
        /\ pc' = "context" /\ UNCHANGED <<result, choice>>
     \/ Ends("failed") /\ UNCHANGED <<there, sockets>>
  /\ UNCHANGED <<conn, redirect, floor, hops, selecting, executes, trail>>

\* The address is dialled; whatever node is there now answers it, or none.  What is
\* there is asked for its session::context(), with the credentials.
Dial(n) ==
  /\ pc = "hop" /\ MayHop
  /\ redirect.epoch >= floor
  /\ floor' = redirect.epoch
  /\ \/ /\ there' = Presented(Dialled(n)) /\ sockets' = sockets + 1
        /\ pc' = "context" /\ UNCHANGED <<result, choice>>
     \/ Ends("failed") /\ UNCHANGED <<there, sockets>>
  /\ UNCHANGED <<conn, redirect, hops, selecting, executes, trail>>

CloseThere == there' = Closed(there) /\ sockets' = sockets - 1

\* Mutant: whichever node answers the address will do.
Arrive_AnyNode ==
  /\ pc = "context"
  /\ pc' = "using"
  /\ UNCHANGED <<conn, there, following, choice, result, sockets, executes>>

\* The context names the node, before anything of the caller's is sent there.
Arrive ==
  /\ pc = "context"
  /\ IF there.node = redirect.node
     THEN pc' = "using" /\ UNCHANGED <<there, result, choice, sockets>>
     ELSE CloseThere /\ Ends("wrong node")
  /\ UNCHANGED <<conn, following, executes>>

SelectThere ==
  /\ pc = "using"
  /\ there' = IF selecting = NoTenancy THEN there
              ELSE [Presented(there) EXCEPT !.ns = selecting]
  /\ pc' = "selected"
  /\ UNCHANGED <<conn, following, choice, result, sockets, executes>>

SendThere ==
  /\ pc = "selected"
  /\ there' = Presented(there)
  /\ hops' = hops + 1
  /\ trail' = Append(trail, [named |-> redirect.node, node |-> there.node,
                             epoch |-> redirect.epoch, settled |-> redirect.settled,
                             ns |-> there.ns, presented |-> there'.presented])
  /\ pc' = "sent"
  /\ UNCHANGED <<conn, redirect, floor, selecting, choice, result, sockets, executes>>

\* A settled redirect moves the connection there, and the old socket closes.
MoveTo == conn' = Ran(there) /\ there' = Closed(there) /\ sockets' = sockets - 1

\* Mutant: a transient redirect moves the connection too.
ThereAnswers_AlwaysMoves ==
  /\ pc = "sent"
  /\ MoveTo
  /\ Ends("answer")
  /\ UNCHANGED <<following, executes>>

ThereAnswers ==
  /\ pc = "sent"
  /\ IF redirect.settled THEN MoveTo ELSE CloseThere /\ UNCHANGED conn
  /\ Ends("answer")
  /\ UNCHANGED <<following, executes>>

ThereRedirects(r) ==
  /\ pc = "sent"
  /\ CloseThere
  /\ redirect' = r
  /\ pc' = "hop"
  /\ UNCHANGED <<conn, floor, hops, selecting, choice, result, executes, trail>>

\* Mutant: the connection there is left open when something is raised.
ThereFails_LeavesOpen ==
  /\ pc \in {"context", "using", "selected", "sent"}
  /\ \/ Ends("failed")
     \/ Ends("refused")
  /\ UNCHANGED <<conn, there, sockets, following, executes>>

\* A refusal, a hang-up, or a redirect of a statement that runs anywhere: the
\* connection there is closed whatever is raised.
ThereFails ==
  /\ pc \in {"context", "using", "selected", "sent"}
  /\ CloseThere
  /\ \/ Ends("failed")
     \/ Ends("refused")
  /\ UNCHANGED <<conn, following, executes>>

Client == \/ Answered \/ Lost \/ Select \/ TooManyHops \/ Stale
          \/ \E r \in Redirects : Redirected(r) \/ ThereRedirects(r)
          \/ \E n \in Nodes : Dial(n)
          \/ Arrive \/ SelectThere \/ SendThere \/ ThereAnswers \/ ThereFails

Next ==
  \/ \E ns \in Tenancies : Execute(ns)
  \/ ExecuteUnsendable
  \/ Client

Spec == Init /\ [][Next]_vars

\* An execute that has begun goes on: the node answers or its socket ends, and
\* the client acts on either.
FairSpec == Spec /\ WF_vars(Client)

-----------------------------------------------------------------------------
(* Properties *)

Results == {"none", "answer", "refused", "failed", "not followable", "loop",
            "stale", "wrong node"}

TypeOK ==
  /\ conn \in Sessions /\ there \in Sessions
  /\ pc \in {"idle", "asked", "selecting", "hop", "context", "using", "selected", "sent"}
  /\ redirect \in Redirects
  /\ floor \in 0 .. MaxEpoch /\ hops \in 0 .. MOST_HOPS
  /\ selecting \in Plain \cup {NoTenancy} /\ choice \in Tenancies
  /\ result \in Results
  /\ sockets \in 0 .. 2
  /\ executes \in 0 .. MaxExecutes
  /\ trail \in Seq(Sent)

\* However the nodes redirect, and however often, one execute sends the script
\* to at most three redirected nodes (_follow.py:3, 40).
HopsBounded == Len(trail) <= MOST_HOPS

\* The redirects one execute followed never step back to an older leadership
\* (_follow.py:5, 42).
EpochsForward == \A j, k \in DOMAIN trail : j < k => trail[j].epoch <= trail[k].epoch

\* The script is sent only to the node the redirect named, under the tenancy
\* the caller had selected and not one the script selected on an earlier hop, on a
\* session whose credentials were presented once (_follow.py:7-11, connection.py:
\* 285-288).
SentAsAtHome ==
  pc # "idle" => \A k \in DOMAIN trail :
    /\ trail[k].node = trail[k].named
    /\ trail[k].ns = conn.ns
    /\ trail[k].presented = IF HasUser THEN 1 ELSE 0

\* Whatever happened on the way, an execute leaves no socket open but the
\* connection's own (_follow.py:53-63, connection.py:191).
NoLeakedSocket ==
  /\ sockets = (IF conn.open THEN 1 ELSE 0) + (IF there.open THEN 1 ELSE 0)
  /\ pc = "idle" => ~there.open

\* A connection that no longer owes its credentials has presented them to the
\* node it is connected to (README.md:87-91 "credentials are spent on the first
\* request").
SpentMeansPresented ==
  conn.open /\ HasUser /\ ~conn.owed => conn.presented = 1

\* The connection only moves when an answer ends an execute, to the open session
\* at the node the last redirect named, as settled.  The tenancy in force after an
\* answer is the caller's or what the script selected, wherever it ran, and a
\* transient redirect leaves the caller's (connection.py:174-177, 191-195).
MovesWhole ==
  [][/\ conn'.node # conn.node =>
          /\ pc = "sent" /\ result' = "answer"
          /\ LET last == trail[Len(trail)] IN
               last.settled /\ last.named = conn'.node
          /\ conn'.open
          /\ conn'.presented = (IF HasUser THEN 1 ELSE 0)
     /\ pc # "idle" /\ pc' = "idle" /\ result' = "answer" =>
          conn'.ns = IF choice = NoTenancy \/ (trail # <<>> /\ ~trail[Len(trail)].settled)
                     THEN conn.ns ELSE choice
     /\ conn'.ns # conn.ns => conn'.ns = choice]_vars

\* Every execute ends: no set of nodes keeps the client going round.
ExecuteEnds == pc # "idle" ~> pc = "idle"
=============================================================================
