------------------------------ MODULE MCAccess ------------------------------
(* Scenes for two processes, a user and an administrator.                   *)
EXTENDS Access, TLC

CONSTANTS c1, c2, c3, f1, f2, f3, p, q, user, admin, i1, i2

MCAccountOf == (c1 :> <<user, i1>>) @@ (c2 :> <<user, i1>>) @@ (c3 :> <<user, i1>>)
MCUserOf == [c \in {c1, c2, c3} |-> i1]

May(a, b, c) == (f1 :> a) @@ (f2 :> b) @@ (f3 :> c)
Primary == <<user, i1>> :> "primary"

\* Callers of one account compete for the broker.
Requests ==
  [clients |-> {c1, c2, c3}, leavers |-> {c1, c3}, ops |-> 0, answers |-> {"ok", "denied", "limited"}, may |-> May({}, {}, {}), at |-> May(p, p, p),
   owners |-> {user}, roles |-> {"primary"}, signedIn |-> Primary]

\* An account is replaced and signed out while a request is under way.
Replacement ==
  [clients |-> {c3}, leavers |-> {}, ops |-> 2, answers |-> {"ok", "unauth", "down", "uncut", "fail"}, may |-> May({"connect"}, {"connect", "disconnect"}, {}),
   at |-> May(p, q, p), owners |-> {user}, roles |-> {"primary"}, signedIn |-> Primary]

\* QR codes, sign-ins and sign-outs of one user in one process, for both roles.
SignIns ==
  [clients |-> {}, leavers |-> {}, ops |-> 3, answers |-> {}, may |-> May({"qr"}, {"qr", "connect"}, {"disconnect"}),
   at |-> May(p, p, p), owners |-> {user}, roles |-> {"primary"}, signedIn |-> <<>>]

\* A user and an administrator want the same identities in two processes.
Identities ==
  [clients |-> {}, leavers |-> {}, ops |-> 3, answers |-> {}, may |-> May({"connect"}, {"save", "enable"}, {"save", "check", "connect"}),
   at |-> May(p, q, q), owners |-> {user, admin}, roles |-> {"primary"}, signedIn |-> <<>>]

MCScenes == {Requests, Replacement, SignIns, Identities}
=============================================================================
