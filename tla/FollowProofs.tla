---------------------------- MODULE FollowProofs ----------------------------
(***************************************************************************)
(* What execute keeps to while it follows redirects, proved for every set  *)
(* of nodes, tenancies and epochs and any number of executes.  The         *)
(* invariant comes in two layers: Wire, about the two connections, which   *)
(* is inductive alone; and Course, about the redirects followed, which is  *)
(* inductive where Wire holds before and after the step.                   *)
(***************************************************************************)
EXTENDS Follow, TLAPS

\* The connection there is open in these states.
Abroad == {"context", "using", "selected", "sent"}
\* A redirect is being followed in these.
Following == Abroad \cup {"hop"}

\* Credentials are owed until they are presented, once, on each session; a
\* request that could not be sent loses those of the caller's connection.
Credentials ==
  /\ conn.owed => conn.presented = 0
  /\ conn.presented <= 1
  /\ there.owed => HasUser
  /\ there.presented = IF HasUser /\ ~there.owed THEN 1 ELSE 0

\* Which sockets are open at each point of execute.
Sockets ==
  /\ there.open <=> pc \in Abroad
  /\ pc # "idle" => conn.open
  /\ sockets = (IF conn.open THEN 1 ELSE 0) + (IF there.open THEN 1 ELSE 0)

\* The two connections.
Wire ==
  /\ conn \in Sessions /\ there \in Sessions
  /\ pc \in {"idle", "asked", "selecting", "hop"} \cup Abroad
  /\ selecting \in Plain \cup {NoTenancy}
  /\ Credentials
  /\ Sockets

\* How far execute has gone, and what it has checked by then.
Stages ==
  /\ pc \in {"asked", "selecting"} => trail = <<>>
  /\ pc = "selecting" => hops = 0 /\ floor = 0
  /\ pc \in Following => selecting = conn.ns /\ hops = Len(trail)
  /\ pc \in Abroad \ {"sent"} => hops < MOST_HOPS
  /\ pc \in Abroad => floor = redirect.epoch
  /\ pc \in {"context", "using"} => there.ns = NoTenancy
  /\ pc \in {"using", "selected", "sent"} => there.node = redirect.node
  /\ pc \in {"selected", "sent"} => there.ns = selecting

\* No redirect followed so far was of a later epoch than the floor.
Under == pc \in Following => \A k \in DOMAIN trail : trail[k].epoch <= floor

\* The redirects followed, and what the redirected nodes were sent.
Course ==
  /\ redirect \in Redirects
  /\ floor \in 0 .. MaxEpoch /\ hops \in 0 .. MOST_HOPS
  /\ trail \in Seq(Sent)
  /\ Stages
  /\ HopsBounded
  /\ EpochsForward
  /\ Under
  /\ SentAsAtHome

\* While the script is with a node, the trail ends with that node and the
\* redirect that named it, and the session there owes no credentials.
AtLast ==
  pc = "sent" =>
    /\ ~there.owed /\ Len(trail) \in Nat \ {0}
    /\ trail[Len(trail)].named = redirect.node
    /\ trail[Len(trail)].settled = redirect.settled

\* The rest of the types.
Counts == result \in Results /\ executes \in 0 .. MaxExecutes /\ choice \in Tenancies

\* The inductive invariant.
IInv == Wire /\ Course /\ AtLast /\ Counts

-----------------------------------------------------------------------------
(* Sessions *)

\* Closing a session leaves it what it was, closed.
LEMMA ClosedSession ==
  ASSUME NEW c \in Sessions
  PROVE  /\ Closed(c) \in Sessions /\ Closed(c).open = FALSE
         /\ Closed(c).node = c.node /\ Closed(c).owed = c.owed
         /\ Closed(c).presented = c.presented /\ Closed(c).ns = c.ns
  <1>1. Closed(c) \in Sessions
    BY DEF Closed, Sessions
  <1>2. Closed(c).open = FALSE /\ Closed(c).node = c.node
    BY DEF Closed, Sessions
  <1>3. Closed(c).owed = c.owed
    BY DEF Closed, Sessions
  <1>4. Closed(c).presented = c.presented /\ Closed(c).ns = c.ns
    BY DEF Closed, Sessions
  <1>5. QED
    BY <1>1, <1>2, <1>3, <1>4

\* A request on a session that presented nothing while it owed credentials
\* leaves them presented once.
LEMMA PresentedSession ==
  ASSUME NEW c \in Sessions, c.owed => c.presented = 0
  PROVE  /\ Presented(c) \in Sessions /\ Presented(c).owed = FALSE
         /\ Presented(c).presented = (IF c.owed THEN 1 ELSE c.presented)
         /\ Presented(c).node = c.node /\ Presented(c).open = c.open
         /\ Presented(c).ns = c.ns
  <1>1. CASE c.owed
    <2>1. c.presented = 0 /\ c.presented + 1 = 1
      BY <1>1
    <2>2. Presented(c) = [node |-> c.node, owed |-> FALSE, presented |-> 1,
                          ns |-> c.ns, open |-> c.open]
      BY <1>1, <2>1 DEF Presented, Sessions
    <2>3. Presented(c) \in Sessions
      BY <2>2 DEF Sessions
    <2>4. QED
      BY <1>1, <2>2, <2>3
  <1>2. CASE ~c.owed
    <2>1. Presented(c) = c
      BY <1>2 DEF Presented
    <2>2. c.owed = FALSE
      BY <1>2 DEF Sessions
    <2>3. QED
      BY <1>2, <2>1, <2>2
  <1>3. QED
    BY <1>1, <1>2

\* A selection changes the tenancy and nothing else.
LEMMA SelectedSession ==
  ASSUME NEW c \in Sessions, NEW t \in Tenancies
  PROVE  /\ [c EXCEPT !.ns = t] \in Sessions /\ [c EXCEPT !.ns = t].ns = t
         /\ [c EXCEPT !.ns = t].open = c.open
         /\ [c EXCEPT !.ns = t].node = c.node
         /\ [c EXCEPT !.ns = t].owed = c.owed
         /\ [c EXCEPT !.ns = t].presented = c.presented
  <1>1. [c EXCEPT !.ns = t] \in Sessions
    BY DEF Sessions
  <1>2. [c EXCEPT !.ns = t].ns = t /\ [c EXCEPT !.ns = t].node = c.node
    BY DEF Sessions
  <1>3. [c EXCEPT !.ns = t].open = c.open
    BY DEF Sessions
  <1>4. [c EXCEPT !.ns = t].owed = c.owed
    BY DEF Sessions
  <1>5. [c EXCEPT !.ns = t].presented = c.presented
    BY DEF Sessions
  <1>6. QED
    BY <1>1, <1>2, <1>3, <1>4, <1>5

\* A script that ran changed the tenancy of its session at most, to its choice.
LEMMA RanSession ==
  ASSUME NEW c \in Sessions, choice \in Tenancies
  PROVE  /\ Ran(c) \in Sessions /\ Ran(c).open = c.open /\ Ran(c).node = c.node
         /\ Ran(c).owed = c.owed /\ Ran(c).presented = c.presented
         /\ Ran(c).ns = (IF choice = NoTenancy THEN c.ns ELSE choice)
  <1>1. CASE choice = NoTenancy
    BY <1>1 DEF Ran
  <1>2. CASE choice # NoTenancy
    BY <1>2, SelectedSession DEF Ran
  <1>3. QED
    BY <1>1, <1>2

\* A new session owes its credentials and has selected nothing.
LEMMA DialledSession ==
  ASSUME NEW n \in Nodes
  PROVE  /\ Dialled(n) \in Sessions /\ Dialled(n).open = TRUE
         /\ Dialled(n).owed = HasUser /\ Dialled(n).presented = 0
         /\ Dialled(n).ns = NoTenancy /\ Dialled(n).node = n
  <1>1. Dialled(n) \in Sessions
    BY FollowAssumption DEF Dialled, Sessions, Tenancies
  <1>2. QED
    BY <1>1 DEF Dialled

\* Asked for its context, it has been presented them.
LEMMA AskedSession ==
  ASSUME NEW n \in Nodes
  PROVE  LET asked == Presented(Dialled(n)) IN
         /\ asked \in Sessions /\ asked.open = TRUE /\ asked.owed = FALSE
         /\ asked.presented = (IF HasUser THEN 1 ELSE 0)
         /\ asked.ns = NoTenancy /\ asked.node = n
  <1>1. /\ Dialled(n) \in Sessions /\ Dialled(n).open = TRUE
        /\ Dialled(n).owed = HasUser /\ Dialled(n).presented = 0
        /\ Dialled(n).ns = NoTenancy /\ Dialled(n).node = n
    BY DialledSession
  <1>2. QED
    BY <1>1, PresentedSession

\* The fields of a session.
LEMMA SessionFields ==
  ASSUME NEW c \in Sessions
  PROVE  /\ c.node \in Nodes /\ c.owed \in BOOLEAN /\ c.presented \in 0 .. 2
         /\ c.ns \in Tenancies /\ c.open \in BOOLEAN
  BY DEF Sessions
-----------------------------------------------------------------------------
(* The two connections *)

\* Before the first execute only the caller's connection is open.
THEOREM InitWire == Init => Wire
  <1> SUFFICES ASSUME Init PROVE Wire
    OBVIOUS
  <1>1. Home \in Nodes /\ HasUser \in BOOLEAN
    BY FollowAssumption
  <1>2. /\ conn \in Sessions /\ conn.open = TRUE /\ conn.presented = 0
    BY <1>1, DialledSession DEF Init
  <1>3. /\ there \in Sessions /\ there.open = FALSE
        /\ there.owed = HasUser /\ there.presented = 0
    BY <1>1, DialledSession, ClosedSession DEF Init
  <1>4. Credentials
    BY <1>1, <1>2, <1>3 DEF Credentials
  <1>5. Sockets
    BY <1>2, <1>3 DEF Sockets, Abroad, Init
  <1>6. QED
    BY <1>2, <1>3, <1>4, <1>5 DEF Wire, Init

\* A step that changes neither connection, and does not go abroad or come back.
LEMMA WireAlone ==
  ASSUME Wire, UNCHANGED <<conn, there, sockets>>,
         pc' \in {"idle", "asked", "selecting", "hop"} \cup Abroad,
         pc' \in Abroad <=> pc \in Abroad,
         pc = "idle" => pc' = "idle",
         selecting' \in Plain \cup {NoTenancy}
  PROVE  Wire'
  BY DEF Wire, Credentials, Sockets, Abroad

\* A step of the caller's connection alone.
LEMMA WireHere ==
  ASSUME Wire, UNCHANGED <<there, sockets, selecting>>, conn' \in Sessions,
         conn'.owed => conn'.presented = 0, conn'.presented <= 1,
         pc \in {"idle", "asked"}, conn.open, conn'.open, pc' \in {"idle", "asked"}
  PROVE  Wire'
  <1>1. Credentials'
    BY DEF Wire, Credentials
  <1>2. Sockets'
    BY DEF Wire, Sockets, Abroad
  <1>3. QED
    BY <1>1, <1>2 DEF Wire

\* A request on the connection there.
LEMMA WireThere ==
  ASSUME Wire, UNCHANGED <<conn, sockets, selecting>>, there' \in Sessions,
         there'.owed => HasUser,
         there'.presented = (IF HasUser /\ ~there'.owed THEN 1 ELSE 0),
         pc \in Abroad, pc' \in Abroad, there.open, there'.open
  PROVE  Wire'
  <1>1. Credentials'
    BY DEF Wire, Credentials
  <1>2. Sockets'
    BY DEF Wire, Sockets, Abroad
  <1>3. QED
    BY <1>1, <1>2 DEF Wire

\* The connection there is closed and the caller's is kept.
LEMMA WireBack ==
  ASSUME Wire, CloseThere, UNCHANGED <<conn, selecting>>,
         pc \in Abroad, pc' \in {"idle", "hop"}
  PROVE  Wire'
  <1>1. /\ there' \in Sessions /\ there'.open = FALSE
        /\ there'.owed = there.owed /\ there'.presented = there.presented
    BY ClosedSession DEF Wire, CloseThere
  <1>2. Credentials'
    BY <1>1 DEF Wire, Credentials
  <1>3. there.open = TRUE /\ conn.open = TRUE
    BY SessionFields DEF Wire, Sockets, Abroad
  <1>4. Sockets'
    BY <1>1, <1>3 DEF Wire, Sockets, Abroad, CloseThere
  <1>5. QED
    BY <1>1, <1>2, <1>4 DEF Wire

\* What a request there leaves owed and presented.
LEMMA WirePresented ==
  ASSUME Wire
  PROVE  /\ there.owed => there.presented = 0
         /\ Presented(there) \in Sessions /\ Presented(there).owed = FALSE
         /\ Presented(there).presented = (IF HasUser THEN 1 ELSE 0)
         /\ Presented(there).node = there.node
         /\ Presented(there).open = there.open
         /\ Presented(there).ns = there.ns
  <1>1. there \in Sessions /\ (there.owed => there.presented = 0)
    BY DEF Wire, Credentials
  <1>2. Presented(there).presented = (IF there.owed THEN 1 ELSE there.presented)
    BY <1>1, PresentedSession
  <1>3. Presented(there).presented = (IF HasUser THEN 1 ELSE 0)
    BY <1>2 DEF Wire, Credentials
  <1>4. QED
    BY <1>1, <1>3, PresentedSession

\* Every step keeps the two connections' sockets and credentials in order,
\* whatever the redirects are.
THEOREM NextWire == Wire /\ Counts /\ [Next]_vars => Wire'
  <1> SUFFICES ASSUME Wire, Counts, [Next]_vars PROVE Wire'
    OBVIOUS
  <1> USE DEF Ends, following
  <1>a. /\ conn \in Sessions /\ there \in Sessions
        /\ conn.owed => conn.presented = 0
        /\ conn.presented <= 1
    BY DEF Wire, Credentials
  <1>b. /\ Presented(conn) \in Sessions /\ Presented(conn).owed = FALSE
        /\ Presented(conn).presented <= 1
        /\ Presented(conn).open = conn.open
    <2>1. Presented(conn).presented = (IF conn.owed THEN 1 ELSE conn.presented)
      BY <1>a, PresentedSession
    <2>2. Presented(conn).presented <= 1
      BY <1>a, <2>1
    <2>3. QED
      BY <1>a, <2>2, PresentedSession
  <1>c. pc \in Abroad => there.open
    BY DEF Wire, Sockets
  <1>1. ASSUME NEW ns \in Tenancies, Execute(ns) PROVE Wire'
    BY <1>1, <1>b, WireHere DEF Execute, CanExecute
  <1>3. CASE ExecuteUnsendable
    <2>1. conn' \in Sessions
      BY <1>3, <1>a DEF ExecuteUnsendable, Sessions
    <2>2. conn'.owed = FALSE
      BY <1>3, <1>a DEF ExecuteUnsendable, Sessions
    <2>3. conn'.presented = conn.presented
      BY <1>3, <1>a DEF ExecuteUnsendable, Sessions
    <2>4. conn'.open = conn.open
      BY <1>3, <1>a DEF ExecuteUnsendable, Sessions
    <2>5. QED
      BY <1>3, <1>a, <2>1, <2>2, <2>3, <2>4, WireHere
      DEF ExecuteUnsendable, CanExecute
  <1>4. CASE Answered
    <2>1. conn' \in {conn, Ran(conn)}
      BY <1>4 DEF Answered
    <2>2. /\ Ran(conn) \in Sessions /\ Ran(conn).open = conn.open
          /\ Ran(conn).owed = conn.owed /\ Ran(conn).presented = conn.presented
      BY <1>a, RanSession DEF Counts
    <2>3. conn' \in Sessions /\ conn'.open = conn.open /\ conn'.owed = conn.owed
            /\ conn'.presented = conn.presented
      BY <1>a, <2>1, <2>2
    <2>4. pc = "asked" /\ pc' = "idle" /\ UNCHANGED <<there, sockets, selecting>>
      BY <1>4 DEF Answered
    <2>5. conn.open
      BY <2>4 DEF Wire, Sockets
    <2>6. QED
      BY <1>a, <2>3, <2>4, <2>5, WireHere
  <1>5. CASE Lost
    <2>1. /\ conn' \in Sessions /\ conn'.open = FALSE
          /\ conn'.owed = conn.owed /\ conn'.presented = conn.presented
      BY <1>5, <1>a, ClosedSession DEF Lost
    <2>2. Credentials'
      BY <1>5, <2>1 DEF Lost, Wire, Credentials
    <2>3. conn.open = TRUE /\ there.open = FALSE
      BY <1>5, <1>a, SessionFields DEF Lost, Wire, Sockets, Abroad
    <2>4. Sockets'
      BY <1>5, <2>1, <2>3 DEF Lost, Wire, Sockets, Abroad
    <2>5. QED
      BY <1>5, <2>1, <2>2, <2>4 DEF Lost, Wire
  <1>6. CASE Select
    <2>1. selecting' \in Plain \cup {NoTenancy}
      BY <1>6, <1>a, SessionFields DEF Select, Wire, Tenancies
    <2>2. QED
      BY <1>6, <2>1, WireAlone DEF Select, Abroad
  <1>7. CASE TooManyHops
    BY <1>7, WireAlone DEF TooManyHops, Wire, Abroad
  <1>8. CASE Stale
    BY <1>8, WireAlone DEF Stale, Wire, Abroad
  <1>9. ASSUME NEW r \in Redirects, Redirected(r) PROVE Wire'
    BY <1>9, WireAlone DEF Redirected, Wire, Abroad
  <1>10. ASSUME NEW r \in Redirects, ThereRedirects(r) PROVE Wire'
    BY <1>10, WireBack DEF ThereRedirects, Abroad
  <1>11. ASSUME NEW n \in Nodes, Dial(n) PROVE Wire'
    <2>1. CASE Ends("failed") /\ UNCHANGED <<there, sockets>>
      BY <1>11, <2>1, WireAlone DEF Dial, Wire, Abroad
    <2>2. CASE there' = Presented(Dialled(n)) /\ sockets' = sockets + 1 /\ pc' = "context"
      <3>1. /\ there' \in Sessions /\ there'.open = TRUE
            /\ there'.owed = FALSE /\ there'.presented = (IF HasUser THEN 1 ELSE 0)
        BY <2>2, AskedSession
      <3>2. HasUser \in BOOLEAN
        BY FollowAssumption
      <3>3. Credentials'
        BY <1>11, <3>1, <3>2 DEF Dial, Wire, Credentials
      <3>4. there.open = FALSE /\ conn.open = TRUE
        BY <1>11, <1>a, SessionFields DEF Dial, Wire, Sockets, Abroad
      <3>5. Sockets'
        BY <1>11, <2>2, <3>1, <3>4 DEF Dial, Wire, Sockets, Abroad
      <3>6. QED
        BY <1>11, <2>2, <3>1, <3>3, <3>5 DEF Dial, Wire, Abroad
    <2>3. QED
      BY <1>11, <2>1, <2>2 DEF Dial
  <1>12. CASE Arrive
    <2>1. CASE there.node = redirect.node
      <3>1. there \in Sessions /\ there.open = TRUE
        BY <1>12, <1>a, SessionFields DEF Wire, Sockets, Arrive, Abroad
      <3>2. /\ there.owed => HasUser
            /\ there.presented = (IF HasUser /\ ~there.owed THEN 1 ELSE 0)
        BY DEF Wire, Credentials
      <3>3. UNCHANGED <<conn, there, sockets, selecting>> /\ pc = "context" /\ pc' = "using"
        BY <1>12, <2>1 DEF Arrive
      <3>4. QED
        BY <3>1, <3>2, <3>3, WireThere DEF Abroad
    <2>2. CASE there.node # redirect.node
      BY <1>12, <2>2, WireBack DEF Arrive, Abroad
    <2>3. QED
      BY <2>1, <2>2
  <1>13. CASE SelectThere
    <2>1. selecting \in Tenancies
      BY DEF Wire, Tenancies
    <2>2. CASE selecting = NoTenancy
      BY <1>13, <2>2, WireAlone DEF SelectThere, Wire, Abroad
    <2>3. CASE selecting # NoTenancy
      <3>1. /\ there' \in Sessions /\ there'.owed = FALSE
            /\ there'.presented = (IF HasUser THEN 1 ELSE 0)
            /\ there'.open = there.open
        BY <1>13, <2>1, <2>3, WirePresented, SelectedSession DEF SelectThere
      <3>2. QED
        BY <1>13, <1>c, <3>1, WireThere DEF SelectThere, Abroad
    <2>4. QED
      BY <2>2, <2>3
  <1>14. CASE SendThere
    BY <1>14, <1>c, WirePresented, WireThere DEF SendThere, Abroad
  <1>15. CASE ThereAnswers
    <2>1. CASE redirect.settled
      <3>1. /\ there' \in Sessions /\ there'.open = FALSE
            /\ there'.owed = there.owed /\ there'.presented = there.presented
        BY <1>15, <1>a, <2>1, ClosedSession DEF ThereAnswers, MoveTo
      <3>0. /\ conn' \in Sessions /\ conn'.open = there.open
            /\ conn'.owed = there.owed /\ conn'.presented = there.presented
        BY <1>15, <1>a, <2>1, RanSession DEF ThereAnswers, MoveTo, Counts
      <3>2. /\ there.owed => there.presented = 0
            /\ there.presented <= 1
        BY DEF Wire, Credentials
      <3>3. Credentials'
        BY <1>15, <2>1, <3>0, <3>1, <3>2 DEF ThereAnswers, MoveTo, Wire, Credentials
      <3>4. there.open = TRUE /\ conn.open = TRUE
        BY <1>15, <1>a, SessionFields DEF ThereAnswers, Wire, Sockets, Abroad
      <3>5. Sockets'
        BY <1>15, <2>1, <3>0, <3>1, <3>4 DEF ThereAnswers, MoveTo, Wire, Sockets, Abroad
      <3>6. QED
        BY <1>15, <2>1, <3>0, <3>1, <3>3, <3>5 DEF ThereAnswers, MoveTo, Wire
    <2>2. CASE ~redirect.settled
      BY <1>15, <2>2, WireBack DEF ThereAnswers, Abroad
    <2>3. QED
      BY <2>1, <2>2
  <1>16. CASE ThereFails
    BY <1>16, WireBack DEF ThereFails, Abroad
  <1>17. CASE UNCHANGED vars
    BY <1>17, WireAlone DEF vars, Wire, Abroad
  <1>18. QED
    BY <1>1, <1>3, <1>4, <1>5, <1>6, <1>7, <1>8, <1>9,
       <1>10, <1>11, <1>12, <1>13, <1>14, <1>15, <1>16, <1>17
    DEF Next, Client

-----------------------------------------------------------------------------
(* The redirects followed *)

\* Before the first execute no redirect was followed.
THEOREM InitCourse == Init => Course
  <1> SUFFICES ASSUME Init PROVE Course
    OBVIOUS
  <1>1. redirect \in Redirects /\ floor \in 0 .. MaxEpoch
    BY FollowAssumption DEF Init, Redirects
  <1>2. Stages
    BY DEF Init, Stages, Abroad, Following
  <1>3. HopsBounded /\ EpochsForward /\ Under /\ SentAsAtHome
    BY DEF Init, HopsBounded, EpochsForward, Under, SentAsAtHome, MOST_HOPS
  <1>4. QED
    BY <1>1, <1>2, <1>3 DEF Init, Course, MOST_HOPS

\* A script is run: the trail begins again.
LEMMA CourseStarts ==
  ASSUME Course, trail' = <<>>, pc' \in {"idle", "asked"},
         UNCHANGED <<redirect, floor, hops>>
  PROVE  Course'
  <1>1. Stages'
    BY DEF Stages, Abroad, Following
  <1>2. HopsBounded' /\ EpochsForward' /\ Under' /\ SentAsAtHome'
    BY DEF HopsBounded, EpochsForward, Under, SentAsAtHome, MOST_HOPS
  <1>3. trail' \in Seq(Sent)
    OBVIOUS
  <1>4. QED
    BY <1>1, <1>2, <1>3 DEF Course

\* What was sent stands while the caller's tenancy does.
LEMMA TrailStands ==
  ASSUME Course, UNCHANGED trail, conn'.ns = conn.ns, pc = "idle" => pc' = "idle"
  PROVE  HopsBounded' /\ EpochsForward' /\ SentAsAtHome'
  BY DEF Course, HopsBounded, EpochsForward, SentAsAtHome

\* An execute ends.
LEMMA CourseEnds ==
  ASSUME Course, UNCHANGED <<redirect, hops, trail>>, pc' = "idle",
         floor' \in 0 .. MaxEpoch
  PROVE  Course'
  <1>1. Stages' /\ Under'
    BY DEF Stages, Under, Abroad, Following
  <1>2. HopsBounded' /\ EpochsForward' /\ SentAsAtHome'
    BY DEF Course, HopsBounded, EpochsForward, SentAsAtHome
  <1>3. QED
    BY <1>1, <1>2 DEF Course

\* Every step keeps what execute checked of the redirects it followed.
THEOREM NextCourse == Wire /\ Wire' /\ Course /\ [Next]_vars => Course'
  <1> SUFFICES ASSUME Wire, Wire', Course, [Next]_vars PROVE Course'
    OBVIOUS
  <1> USE DEF Ends, following
  <1>a. conn \in Sessions /\ there \in Sessions
    BY DEF Wire
  <1>b. floor \in 0 .. MaxEpoch
    BY DEF Course
  <1>c. redirect.epoch \in 0 .. MaxEpoch
    BY DEF Course, Redirects
  <1>1. ASSUME NEW ns \in Tenancies, Execute(ns) PROVE Course'
    BY <1>1, CourseStarts DEF Execute
  <1>3. CASE ExecuteUnsendable
    BY <1>3, CourseStarts DEF ExecuteUnsendable
  <1>4. CASE Answered
    BY <1>4, <1>b, CourseEnds DEF Answered
  <1>5. CASE Lost
    BY <1>5, <1>b, CourseEnds DEF Lost
  <1>6. CASE Select
    <2>1. CASE Ends("not followable") \/ Ends("failed")
      BY <1>6, <1>b, <2>1, CourseEnds DEF Select
    <2>2. CASE selecting' = conn.ns /\ pc' = "hop"
      <3>1. Stages'
        BY <1>6, <2>2 DEF Select, Course, Stages, Abroad, Following
      <3>2. Under'
        <4>1. trail' = <<>>
          BY <1>6 DEF Select, Course, Stages
        <4>2. QED
          BY <4>1 DEF Under
      <3>3. QED
        BY <1>6, <3>1, <3>2, TrailStands DEF Select, Course
    <2>3. QED
      BY <1>6, <2>1, <2>2 DEF Select
  <1>7. CASE TooManyHops
    BY <1>7, <1>b, CourseEnds DEF TooManyHops
  <1>8. CASE Stale
    BY <1>8, <1>b, CourseEnds DEF Stale
  <1>9. ASSUME NEW r \in Redirects, Redirected(r) PROVE Course'
    <2>1. Stages'
      BY <1>9 DEF Redirected, Course, Stages, Abroad, Following
    <2>2. Under'
      BY <1>9 DEF Redirected, Under, Following, Abroad
    <2>3. floor' \in 0 .. MaxEpoch /\ hops' \in 0 .. MOST_HOPS
      BY <1>9, FollowAssumption DEF Redirected, MOST_HOPS
    <2>4. QED
      BY <1>9, <2>1, <2>2, <2>3, TrailStands DEF Redirected, Course
  <1>10. ASSUME NEW r \in Redirects, ThereRedirects(r) PROVE Course'
    <2>1. Stages'
      BY <1>10 DEF ThereRedirects, Course, Stages, Abroad, Following
    <2>2. Under'
      BY <1>10 DEF ThereRedirects, Course, Under, Following, Abroad
    <2>3. QED
      BY <1>10, <2>1, <2>2, TrailStands DEF ThereRedirects, Course
  <1>11. ASSUME NEW n \in Nodes, Dial(n) PROVE Course'
    <2>1. floor' \in 0 .. MaxEpoch
      BY <1>11, <1>c DEF Dial
    <2>2. CASE pc' = "idle"
      BY <1>11, <2>1, <2>2, CourseEnds DEF Dial
    <2>3. CASE there' = Presented(Dialled(n)) /\ pc' = "context"
      <3>1. there'.ns = NoTenancy
        BY <2>3, AskedSession
      <3>2. Stages'
        BY <1>11, <2>3, <3>1
        DEF Dial, MayHop, Course, Stages, Abroad, Following
      <3>3. Under'
        <4>1. \A k \in DOMAIN trail : trail[k].epoch \in Int /\ trail[k].epoch <= floor
          <5>1. \A k \in DOMAIN trail : trail[k] \in Sent
            BY DEF Course
          <5>2. \A k \in DOMAIN trail : trail[k].epoch \in 0 .. MaxEpoch
            BY <5>1 DEF Sent
          <5>3. QED
            BY <1>11, <5>2 DEF Dial, Course, Under, Following
        <4>2. floor <= redirect.epoch /\ floor' = redirect.epoch
          BY <1>11, <1>b, <1>c DEF Dial
        <4>3. QED
          BY <1>11, <1>b, <1>c, <4>1, <4>2 DEF Dial, Under
      <3>4. QED
        BY <1>11, <2>1, <3>2, <3>3, TrailStands DEF Dial, Course
    <2>4. QED
      BY <1>11, <2>2, <2>3 DEF Dial
  <1>12. CASE Arrive
    <2>1. CASE there.node = redirect.node
      <3>1. there'.node = there.node /\ there'.ns = there.ns
        BY <1>12, <2>1 DEF Arrive
      <3>2. Stages'
        BY <1>12, <2>1, <3>1 DEF Arrive, Course, Stages, Abroad, Following
      <3>3. Under'
        BY <1>12 DEF Arrive, Course, Under, Abroad, Following
      <3>4. QED
        BY <1>12, <2>1, <3>2, <3>3, TrailStands DEF Arrive, Course
    <2>2. CASE there.node # redirect.node
      BY <1>12, <1>b, <2>2, CourseEnds DEF Arrive
    <2>3. QED
      BY <2>1, <2>2
  <1>13. CASE SelectThere
    <2>1. there'.node = there.node /\ there'.ns = selecting
      <3>1. CASE selecting = NoTenancy
        BY <1>13, <3>1 DEF SelectThere, Course, Stages
      <3>2. CASE selecting # NoTenancy
        <4>1. selecting \in Tenancies
          BY DEF Wire, Tenancies
        <4>2. QED
          BY <1>13, <3>2, <4>1, WirePresented, SelectedSession DEF SelectThere
      <3>3. QED
        BY <3>1, <3>2
    <2>2. Stages'
      BY <1>13, <2>1 DEF SelectThere, Course, Stages, Abroad, Following
    <2>3. Under'
      BY <1>13 DEF SelectThere, Course, Under, Abroad, Following
    <2>4. QED
      BY <1>13, <2>2, <2>3, TrailStands DEF SelectThere, Course
  <1>14. CASE SendThere
    <2> DEFINE sent == [named |-> redirect.node, node |-> there.node,
                        epoch |-> redirect.epoch, settled |-> redirect.settled,
                        ns |-> there.ns, presented |-> there'.presented]
    <2>1. trail' = Append(trail, sent)
      BY <1>14 DEF SendThere
    <2>2. /\ there'.node = there.node /\ there'.ns = there.ns
          /\ there'.presented = (IF HasUser THEN 1 ELSE 0)
          /\ there' \in Sessions
      BY <1>14, WirePresented DEF SendThere
    <2>3. sent \in Sent
      <3>1. redirect.node \in Nodes /\ redirect.settled \in BOOLEAN
        BY DEF Course, Redirects
      <3>2. there.node \in Nodes /\ there.ns \in Tenancies
            /\ there'.presented \in 0 .. 2
        BY <1>a, <2>2, SessionFields
      <3>3. QED
        BY <1>c, <3>1, <3>2 DEF Sent
    <2>4. trail \in Seq(Sent) /\ Len(trail) \in Nat /\ hops = Len(trail)
          /\ hops < MOST_HOPS
      BY <1>14 DEF SendThere, Course, Stages, Abroad, Following
    <2>5. trail' \in Seq(Sent) /\ Len(trail') = Len(trail) + 1
      BY <2>1, <2>3, <2>4
    <2>6. \A k \in DOMAIN trail' :
            \/ k \in DOMAIN trail /\ trail'[k] = trail[k]
            \/ k = Len(trail) + 1 /\ trail'[k] = sent
      BY <2>1, <2>3, <2>4
    <2>7. hops' \in 0 .. MOST_HOPS /\ HopsBounded'
      BY <1>14, <2>4, <2>5 DEF SendThere, HopsBounded, MOST_HOPS
    <2>8. Stages'
      BY <1>14, <2>2, <2>4, <2>5
      DEF SendThere, Course, Stages, Abroad, Following
    <2>9. floor' = floor /\ floor = redirect.epoch /\ conn' = conn
          /\ there.node = redirect.node /\ there.ns = conn.ns
      BY <1>14 DEF SendThere, Course, Stages, Abroad, Following
    <2>10. \A k \in DOMAIN trail : trail[k].epoch <= floor
      BY <1>14 DEF SendThere, Course, Under, Abroad, Following
    <2>11. sent.epoch = redirect.epoch /\ sent.named = redirect.node
           /\ sent.node = there.node /\ sent.ns = there.ns
           /\ sent.presented = there'.presented
      OBVIOUS
    <2>12. Under'
      <3>1. \A k \in DOMAIN trail' : trail'[k].epoch <= floor'
        BY <1>c, <2>6, <2>9, <2>10, <2>11
      <3>2. QED
        BY <3>1 DEF Under
    <2>13. EpochsForward'
      <3> SUFFICES ASSUME NEW j \in DOMAIN trail', NEW k \in DOMAIN trail', j < k
                   PROVE  trail'[j].epoch <= trail'[k].epoch
        BY DEF EpochsForward
      <3>1. DOMAIN trail = 1 .. Len(trail) /\ DOMAIN trail' = 1 .. Len(trail) + 1
        BY <2>4, <2>5
      <3>2. j \in DOMAIN trail /\ trail'[j] = trail[j]
        BY <2>4, <2>6, <3>1
      <3>3. CASE k \in DOMAIN trail /\ trail'[k] = trail[k]
        BY <3>2, <3>3 DEF Course, EpochsForward
      <3>4. CASE k = Len(trail) + 1 /\ trail'[k] = sent
        BY <2>9, <2>10, <2>11, <3>2, <3>4
      <3>5. QED
        BY <2>6, <3>3, <3>4
    <2>14. SentAsAtHome'
      <3> SUFFICES ASSUME NEW k \in DOMAIN trail'
                   PROVE  /\ trail'[k].node = trail'[k].named
                          /\ trail'[k].ns = conn'.ns
                          /\ trail'[k].presented = IF HasUser THEN 1 ELSE 0
        BY DEF SentAsAtHome
      <3>1. CASE k \in DOMAIN trail /\ trail'[k] = trail[k]
        <4>1. pc # "idle"
          BY <1>14 DEF SendThere
        <4>2. QED
          BY <2>9, <3>1, <4>1 DEF Course, SentAsAtHome
      <3>2. CASE trail'[k] = sent
        BY <2>2, <2>9, <2>11, <3>2
      <3>3. QED
        BY <2>6, <3>1, <3>2
    <2>15. QED
      BY <1>14, <2>5, <2>7, <2>8, <2>12, <2>13, <2>14 DEF SendThere, Course
  <1>15. CASE ThereAnswers
    BY <1>15, <1>b, CourseEnds DEF ThereAnswers
  <1>16. CASE ThereFails
    BY <1>16, <1>b, CourseEnds DEF ThereFails
  <1>17. CASE UNCHANGED vars
    <2>1. Stages' /\ Under'
      BY <1>17 DEF vars, Course, Stages, Under, Abroad, Following
    <2>2. QED
      BY <1>17, <2>1, TrailStands DEF vars, Course
  <1>18. QED
    BY <1>1, <1>3, <1>4, <1>5, <1>6, <1>7, <1>8, <1>9,
       <1>10, <1>11, <1>12, <1>13, <1>14, <1>15, <1>16, <1>17
    DEF Next, Client

\* No step but sending the script reaches that state.
LEMMA NextAtLast == Wire /\ Course /\ AtLast /\ [Next]_vars => AtLast'
  <1> SUFFICES ASSUME Wire, Course, AtLast, [Next]_vars PROVE AtLast'
    OBVIOUS
  <1>1. CASE SendThere
    <2>1. ~there'.owed
      BY <1>1, WirePresented DEF SendThere
    <2>2. trail \in Seq(Sent) /\ Len(trail) \in Nat
      BY DEF Course
    <2>3. /\ Len(trail') = Len(trail) + 1
          /\ trail'[Len(trail')].named = redirect.node
          /\ trail'[Len(trail')].settled = redirect.settled
      BY <1>1, <2>2 DEF SendThere
    <2>4. redirect' = redirect
      BY <1>1 DEF SendThere
    <2>5. QED
      BY <2>1, <2>2, <2>3, <2>4 DEF AtLast
  <1>2. CASE UNCHANGED vars
    BY <1>2 DEF vars, AtLast
  <1>3. CASE Next /\ ~SendThere
    <2>1. pc' # "sent"
      BY <1>3
      DEF Next, Client, Execute, ExecuteUnsendable, Answered, Lost, Select,
          TooManyHops, Stale, Redirected, ThereRedirects, Dial, Arrive,
          SelectThere, ThereAnswers, ThereFails, Ends
    <2>2. QED
      BY <2>1 DEF AtLast
  <1>4. QED
    BY <1>1, <1>2, <1>3

-----------------------------------------------------------------------------
(* What follows *)

\* How an execute can end, and how many were run.
LEMMA NextCounts == Counts /\ [Next]_vars => Counts'
  <1> SUFFICES ASSUME Counts, [Next]_vars PROVE Counts'
    OBVIOUS
  <1>a. MaxExecutes \in Nat /\ executes \in 0 .. MaxExecutes
    BY FollowAssumption DEF Counts
  <1>b. CanExecute => executes + 1 \in 0 .. MaxExecutes
    BY <1>a DEF CanExecute
  <1>c. NoTenancy \in Tenancies
    BY DEF Tenancies
  <1> USE <1>c DEF Counts, Results, Ends, following
  <1>1. ASSUME NEW ns \in Tenancies, Execute(ns) PROVE Counts'
    BY <1>1, <1>b DEF Execute
  <1>3. CASE ExecuteUnsendable
    BY <1>3, <1>b DEF ExecuteUnsendable
  <1>4. CASE Answered
    BY <1>4 DEF Answered
  <1>5. CASE Lost
    BY <1>5 DEF Lost
  <1>6. CASE Select
    BY <1>6 DEF Select
  <1>7. CASE TooManyHops
    BY <1>7 DEF TooManyHops
  <1>8. CASE Stale
    BY <1>8 DEF Stale
  <1>9. ASSUME NEW r \in Redirects, Redirected(r) PROVE Counts'
    BY <1>9 DEF Redirected
  <1>10. ASSUME NEW r \in Redirects, ThereRedirects(r) PROVE Counts'
    BY <1>10 DEF ThereRedirects
  <1>11. ASSUME NEW n \in Nodes, Dial(n) PROVE Counts'
    BY <1>11 DEF Dial
  <1>12. CASE Arrive
    BY <1>12 DEF Arrive
  <1>13. CASE SelectThere
    BY <1>13 DEF SelectThere
  <1>14. CASE SendThere
    BY <1>14 DEF SendThere
  <1>15. CASE ThereAnswers
    BY <1>15 DEF ThereAnswers
  <1>16. CASE ThereFails
    BY <1>16 DEF ThereFails
  <1>17. CASE UNCHANGED vars
    BY <1>17 DEF vars
  <1>18. QED
    BY <1>1, <1>3, <1>4, <1>5, <1>6, <1>7, <1>8, <1>9,
       <1>10, <1>11, <1>12, <1>13, <1>14, <1>15, <1>16, <1>17
    DEF Next, Client

\* The whole invariant holds in every state execute can reach.
THEOREM Invariant == Spec => []IInv
  <1>1. Init => IInv
    <2>1. Init => Counts
      BY FollowAssumption DEF Init, Counts, Results, Tenancies
    <2>2. Init => AtLast
      BY DEF Init, AtLast
    <2>3. QED
      BY <2>1, <2>2, InitWire, InitCourse DEF IInv
  <1>2. IInv /\ [Next]_vars => IInv'
    BY NextWire, NextCourse, NextAtLast, NextCounts DEF IInv
  <1>3. QED
    BY <1>1, <1>2, PTL DEF Spec

\* Every variable keeps its type: no chain of redirects takes the hops past the
\* bound, and no request presents credentials a third time.
THEOREM TypeCorrect == Spec => []TypeOK
  <1>1. IInv => TypeOK
    <2> SUFFICES ASSUME IInv PROVE TypeOK
      OBVIOUS
    <2>1. sockets \in 0 .. 2
      BY DEF IInv, Wire, Sockets
    <2>2. QED
      BY <2>1 DEF IInv, Wire, Course, Counts, TypeOK, Abroad
  <1>2. QED
    BY <1>1, Invariant, PTL

\* At most three redirected nodes are sent the script of one execute.
THEOREM HopBound == Spec => []HopsBounded
  <1>1. IInv => HopsBounded
    BY DEF IInv, Course
  <1>2. QED
    BY <1>1, Invariant, PTL

\* The redirects followed never step back to an older leadership.
THEOREM EpochOrder == Spec => []EpochsForward
  <1>1. IInv => EpochsForward
    BY DEF IInv, Course
  <1>2. QED
    BY <1>1, Invariant, PTL

\* The script is sent only where and as the redirect and the caller's session
\* say, with the credentials presented once.
THEOREM SentFaithfully == Spec => []SentAsAtHome
  <1>1. IInv => SentAsAtHome
    BY DEF IInv, Course
  <1>2. QED
    BY <1>1, Invariant, PTL

\* No socket is left open behind the caller.
THEOREM SocketsClosed == Spec => []NoLeakedSocket
  <1>1. IInv => NoLeakedSocket
    BY DEF IInv, Wire, Sockets, NoLeakedSocket, Abroad
  <1>2. QED
    BY <1>1, Invariant, PTL

\* The connection only moves whole: to the open session at the node the last,
\* settled redirect named, credentials presented; and the tenancy in force after an
\* answer is the caller's or the script's choice.
THEOREM MoveIsWhole == Spec => MovesWhole
  <1> DEFINE Moves == conn'.node # conn.node =>
               /\ pc = "sent" /\ result' = "answer"
               /\ LET last == trail[Len(trail)] IN
                    last.settled /\ last.named = conn'.node
               /\ conn'.open
               /\ conn'.presented = (IF HasUser THEN 1 ELSE 0)
             Keeps == pc # "idle" /\ pc' = "idle" /\ result' = "answer" =>
               conn'.ns = IF choice = NoTenancy \/ (trail # <<>> /\ ~trail[Len(trail)].settled)
                          THEN conn.ns ELSE choice
             Selects == conn'.ns # conn.ns => conn'.ns = choice
             Whole == Moves /\ Keeps /\ Selects
  <1>1. IInv /\ [Next]_vars => [Whole]_vars
    <2> SUFFICES ASSUME IInv, Next PROVE Whole
      OBVIOUS
    <2> USE DEF Ends, following
    <2>a. /\ conn \in Sessions /\ there \in Sessions /\ choice \in Tenancies
          /\ conn.owed => conn.presented = 0
      BY DEF IInv, Wire, Credentials, Counts
    <2>b. Presented(conn).node = conn.node /\ Presented(conn).ns = conn.ns
      BY <2>a, PresentedSession
    <2>c. /\ Ran(conn).node = conn.node
          /\ Ran(conn).ns = (IF choice = NoTenancy THEN conn.ns ELSE choice)
      BY <2>a, RanSession
    <2>d. ASSUME conn'.node = conn.node, conn'.ns = conn.ns, pc' # "idle" \/ result' # "answer"
          PROVE  Whole
      BY <2>d
    <2>1. ASSUME NEW ns \in Tenancies, Execute(ns) PROVE Whole
      BY <2>1, <2>b, <2>d DEF Execute
    <2>2. CASE ExecuteUnsendable
      <3>1. conn'.node = conn.node /\ conn'.ns = conn.ns
        BY <2>2, <2>a DEF ExecuteUnsendable, Sessions
      <3>2. QED
        BY <2>2, <2>d, <3>1 DEF ExecuteUnsendable
    <2>3. CASE Answered
      <3>1. conn' \in {conn, Ran(conn)} /\ (result' = "answer" => conn' = Ran(conn))
        BY <2>3 DEF Answered
      <3>2. trail = <<>>
        BY <2>3 DEF Answered, IInv, Course, Stages
      <3>3. Moves /\ Selects
        BY <2>c, <3>1
      <3>4. Keeps
        BY <2>c, <3>1, <3>2
      <3>5. QED
        BY <3>3, <3>4
    <2>4. CASE Lost
      <3>1. conn'.node = conn.node /\ conn'.ns = conn.ns
        BY <2>4, <2>a, ClosedSession DEF Lost
      <3>2. QED
        BY <2>4, <2>d, <3>1 DEF Lost
    <2>5. CASE ThereAnswers
      <3>0. pc = "sent" /\ result' = "answer"
        BY <2>5 DEF ThereAnswers
      <3>1. there.node = redirect.node /\ there.ns = conn.ns /\ there.open
        BY <3>0 DEF IInv, Wire, Sockets, Course, Stages, Abroad, Following
      <3>2. there.presented = (IF HasUser THEN 1 ELSE 0)
        BY <3>0 DEF IInv, Wire, Credentials, AtLast
      <3>3. /\ trail # <<>> /\ trail[Len(trail)].named = redirect.node
            /\ trail[Len(trail)].settled = redirect.settled
        <4>1. Len(trail) \in Nat \ {0} /\ trail[Len(trail)].named = redirect.node
                /\ trail[Len(trail)].settled = redirect.settled
          BY <3>0 DEF IInv, AtLast
        <4>2. QED
          BY <4>1
      <3>4. CASE redirect.settled
        <4>1. /\ conn'.node = there.node /\ conn'.open = there.open
              /\ conn'.presented = there.presented
              /\ conn'.ns = (IF choice = NoTenancy THEN there.ns ELSE choice)
          BY <2>5, <2>a, <3>4, RanSession DEF ThereAnswers, MoveTo
        <4>2. Moves
          BY <3>0, <3>1, <3>2, <3>3, <3>4, <4>1
        <4>3. Keeps /\ Selects
          BY <3>1, <3>3, <3>4, <4>1
        <4>4. QED
          BY <4>2, <4>3
      <3>5. CASE ~redirect.settled
        <4>1. conn' = conn
          BY <2>5, <3>5 DEF ThereAnswers
        <4>2. QED
          BY <3>3, <3>5, <4>1
      <3>6. QED
        BY <3>4, <3>5
    <2>6. ASSUME conn' = conn, pc' # "idle" \/ result' # "answer" PROVE Whole
      BY <2>6, <2>d
    <2>7. QED
      BY <2>1, <2>2, <2>3, <2>4, <2>5, <2>6
      DEF Next, Client, Select, TooManyHops, Stale, Redirected,
          ThereRedirects, Dial, Arrive, SendThere, SelectThere, ThereFails
  <1>2. QED
    BY <1>1, Invariant, PTL DEF Spec, MovesWhole
=============================================================================
