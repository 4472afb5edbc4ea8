----------------------------- MODULE MCRequests ----------------------------
(* Instances of Requests for TLC: two requests side by side, the first with a *)
(* lookup it waits for, the second with one that opens its scope by itself.   *)
EXTENDS Requests, TLC

MCProcs == {"r", "m", "l", "k"}
MCParent == ("r" :> "r") @@ ("m" :> "m") @@ ("l" :> "r") @@ ("k" :> "k")
MCOwner == ("l" :> "r") @@ ("k" :> "m")

Dot(n) == [name |-> n, plain |-> n # "google"]
Asks(kind, resolver, pow, flags) ==
  [kind |-> kind, dot |-> resolver, pow |-> pow, leo |-> "leo" \in flags, token |-> "token" \in flags,
   map |-> "map" \in flags, limits |-> flags \cap {"count", "duration"},
   cred |-> IF "wrong" \in flags THEN "wrong" ELSE "cookie"]

\* Beside an unlimited MTR of the web, and beside a trace by HTTP.
Mix(r, m) == ("r" :> r) @@ ("m" :> m)
MCMixes ==
  { Mix(r, Asks("wsMTR", [name |-> "google", plain |-> TRUE], "p3", {"leo"})) :
      r \in { Asks("http", Dot("google"), "p1", {"leo", "map"}),
              Asks("raw", Dot("dnspod"), "", {"leo", "duration"}),
              Asks("trace", Dot(""), "", {"wrong"}) } }
  \cup
  { Mix(r, Asks("http", Dot("dnspod"), "p2", {})) :
      r \in { Asks("wsTrace", Dot("google"), "p1", {"map"}),
              Asks("report", Dot("google"), "", {"leo", "token"}),
              Asks("speed", Dot(""), "", {}),
              Asks("mtu", Dot(""), "", {}) } }

=============================================================================
