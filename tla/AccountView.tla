---- MODULE AccountView ----
(***************************************************************************)
(* What an account subscriber of the SDK promises to its client            *)
(* (sdk/src/accounts): the copy of an on-chain account it hands out.       *)
(* Whatever the loader, its polls and the RPC nodes do, the copy is what   *)
(* the chain held for that account at the slot the copy carries, it never  *)
(* goes back to an older slot, and a watched copy does not stay behind.    *)
(***************************************************************************)
EXTENDS Naturals, Sequences

CONSTANTS
    Subscribers,  \* the subscriber objects
    NoData,       \* the buffer of an account that does not exist
    NoSlot,       \* the slot of a copy the client handed in ("slot: undefined")
    NoCopy        \* "user: undefined": nothing loaded yet

VARIABLES
    chain,        \* chain[s][n]: what the account of s held at slot n
    watching,     \* the subscribers the loader owes every change to
    view          \* view[s]: the copy s hands out

\* What the account of s holds now.
Current(s) == chain[s][Len(chain[s])]

\* The copy of the account of s as it was at slot n.
CopyAt(s, n) == [data |-> chain[s][n], slot |-> n]

\* A copy without a slot is older than anything, like no copy at all.
MayReplace(old, n) == old = NoCopy \/ old.slot = NoSlot \/ n >= old.slot

Init ==
    /\ \A s \in Subscribers : Len(chain[s]) = 1
    /\ view = [s \in Subscribers |-> NoCopy]

\* s moves to the copy of a slot that is not older than the one it has.
Advances(s) ==
    \E n \in 1..Len(chain[s]) :
        /\ chain[s][n] # NoData
        /\ MayReplace(view[s], n)
        /\ view'[s] = CopyAt(s, n)

\* The client subscribes with a copy of its own, whose age nobody knows.
HandedIn(s) ==
    \E n \in 1..Len(chain[s]) :
        /\ chain[s][n] # NoData
        /\ view'[s] = [data |-> chain[s][n], slot |-> NoSlot]

\* One answer of a node may move the copies of several subscribers.
Refresh ==
    /\ UNCHANGED chain
    /\ \A s \in Subscribers : view'[s] = view[s] \/ Advances(s) \/ HandedIn(s)

\* A slot passes. Nothing of the past changes.
Publish ==
    /\ UNCHANGED view
    /\ \A s \in Subscribers :
          /\ Len(chain'[s]) = Len(chain[s]) + 1
          /\ SubSeq(chain'[s], 1, Len(chain[s])) = chain[s]

Next == Refresh \/ Publish

\* A watching subscriber whose copy differs from an account that exists is
\* brought up to date.
CatchUp(s) ==
    /\ s \in watching
    /\ Current(s) # NoData
    /\ view[s] = NoCopy \/ view[s].data # Current(s)
    /\ view' = [view EXCEPT ![s] = CopyAt(s, Len(chain[s]))]

\* What may happen, and what must.
SafetySpec == Init /\ [][Next]_<<chain, view>>

Spec ==
    /\ SafetySpec
    /\ \A s \in Subscribers : WF_view(CatchUp(s))
====
