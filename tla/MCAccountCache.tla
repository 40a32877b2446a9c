---- MODULE MCAccountCache ----
EXTENDS AccountCache, TLC

CONSTANTS a1, a2, s1, s2

AllCalls == {"subscribe", "copy", "fetch", "update"}

\* Two accounts, a subscriber each, asked for in one chunk, in two requests,
\* or in two chunks of one request.
Pair(size, batch) ==
    [account |-> s1 :> a1 @@ s2 :> a2,
     calls |-> s1 :> {"subscribe"} @@ s2 :> {"subscribe"},
     size |-> size, batch |-> batch, max_slot |-> 2, max_stalls |-> 0]

\* One subscriber whose client does everything, with overlapping loads.
Lone ==
    [account |-> s1 :> a1 @@ s2 :> a2,
     calls |-> s1 :> AllCalls @@ s2 :> {},
     size |-> 1, batch |-> 1, max_slot |-> 3, max_stalls |-> 1]

\* Two subscribers of one account.
Shared ==
    [account |-> s1 :> a1 @@ s2 :> a1,
     calls |-> s1 :> {"subscribe"} @@ s2 :> {"subscribe", "copy"},
     size |-> 1, batch |-> 1, max_slot |-> 2, max_stalls |-> 0]

MCSetups == {Pair(2, 1), Pair(1, 1), Pair(1, 2), Lone, Shared}
====
