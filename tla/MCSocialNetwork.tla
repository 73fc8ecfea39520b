--------------------------- MODULE MCSocialNetwork ---------------------------
(***************************************************************************)
(* The scenarios of the run social_network.  The users 1, 2 and 3 are "a", *)
(* "b" and "c"; ids that the user service makes are below                  *)
(* (MaxClock + 1) * Span.                                                  *)
(***************************************************************************)
EXTENDS SocialNetwork, TLC

NoRequest == [op |-> "none", name |-> "none", other |-> "none", user |-> -1, names |-> {},
              start |-> 0, stop |-> 0, after |-> {}]

Signup(name, user) == [NoRequest EXCEPT !.op = "register", !.name = name, !.user = user]
Edge(op, name, other) == [NoRequest EXCEPT !.op = op, !.name = name, !.other = other]
List(side, user) == [NoRequest EXCEPT !.op = side, !.user = user]
Post(user, names) == [NoRequest EXCEPT !.op = "compose", !.user = user, !.names = names]
Get(op, user, start, stop) ==
  [NoRequest EXCEPT !.op = op, !.user = user, !.start = start, !.stop = stop]
After(request, calls) == [request EXCEPT !.after = calls]

Account(user, name) == [user |-> user, name |-> name]
ABC == <<Account(1, "a"), Account(2, "b"), Account(3, "c")>>

Scenario(docs, pairs, requests, servers) ==
  [accounts |-> docs, edges |-> pairs, requests |-> requests, mayRestart |-> servers]

\* Registrations race for a name, for an id and for the clock, and somebody
\* follows the new account.
Signups == {
  Scenario(<<>>, {}, <<Signup("a", -1), Signup("b", -1), Signup("a", -1)>>, {}),
  Scenario(<<>>, {}, <<Signup("a", 1), Signup("b", -1), Signup("c", -1)>>, {}),
  Scenario(<<Account(2, "b")>>, {},
           <<Signup("a", 1), Edge("follow", "a", "b"), After(List("followers", 2), {1}),
             After(List("followees", 1), {2})>>, {"social-graph-redis"})}

\* Edits of one pair, of pairs that share a document, and lists filled again.
Graphs == {
  Scenario(ABC, {}, <<Edge("follow", "a", "b"), Edge("follow", "a", "b"),
                      List("followers", 2)>>, {}),
  Scenario(ABC, {}, <<Edge("follow", "a", "b"), Edge("unfollow", "a", "b"),
                      Edge("follow", "c", "b")>>, {}),
  Scenario(ABC, {<<1, 2>>}, <<Edge("follow", "c", "b"), List("followers", 2),
                              After(List("followers", 2), {2}),
                              After(Edge("unfollow", "a", "b"), {1})>>, {"social-graph-redis"}),
  Scenario(ABC, {<<1, 2>>}, <<Edge("follow", "a", "c"), List("followees", 1),
                      After(Edge("unfollow", "a", "b"), {2})>>, {"social-graph-redis"})}

\* Posts, their delivery and the timelines of their author.
Posts == {
  Scenario(ABC, {<<1, 2>>, <<3, 2>>},
           <<Post(2, {}), Get("read user", 2, 0, 2), After(Post(2, {}), {1}),
             After(Get("read user", 2, 0, 3), {1})>>, {}),
  Scenario(ABC, {<<1, 2>>},
           <<Post(2, {}), After(Post(2, {}), {1}), After(Get("read user", 2, 0, 2), {1}),
             After(Get("read user", 2, 1, 3), {2, 3})>>, {"user-timeline-redis"}),
  Scenario(ABC, {<<1, 2>>},
           <<Post(2, {}), Post(2, {}), After(Get("read user", 2, 0, 3), {1}),
             After(Get("read user", 2, 0, 2), {3})>>, {"user-timeline-redis"}),
  Scenario(ABC, {<<1, 2>>, <<2, 3>>},
           <<Post(2, {"c"}), Post(3, {"a"}), Get("read home", 1, 0, 2),
             After(Get("read home", 3, 0, 2), {1})>>, {}),
  Scenario(ABC, {<<1, 2>>},
           <<Post(2, {"c"}), Post(2, {"c", "nobody"}), Get("read home", 3, 0, 2),
             Get("read home", 1, 0, 2)>>, {}),
  Scenario(ABC, {<<1, 2>>},
           <<Post(2, {}), Edge("follow", "c", "b"), Edge("unfollow", "a", "b"),
             After(Post(2, {}), {2})>>, {}),
  Scenario(ABC, {<<1, 2>>},
           <<Post(2, {}), Edge("follow", "c", "b"), After(Post(2, {}), {1})>>,
             {"social-graph-redis", "home-timeline-redis"})}

MCScenarios == Signups \cup Graphs \cup Posts
=============================================================================
