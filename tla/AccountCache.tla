---- MODULE AccountCache ----
(***************************************************************************)
(* The polling side of the SDK's account subscribers:                      *)
(*   sdk/src/accounts/bulkAccountLoader.ts             the shared loader   *)
(*   sdk/src/accounts/pollingUserAccountSubscriber.ts  one subscriber      *)
(*   sdk/src/util/promiseTimeout.ts                    the ten seconds     *)
(* JavaScript runs one callback at a time and its promise continuations    *)
(* before the next one, so an action is everything from a timer, an answer *)
(* or a client's call up to the next await that really waits. The chain    *)
(* and the RPC nodes are external: a node answers for any slot up to the   *)
(* current one, answers of different requests come in any order, and a     *)
(* request may fail or never be answered. Every write gives an account a   *)
(* content it never had.                                                   *)
(***************************************************************************)
EXTENDS Naturals, Sequences, FiniteSets

CONSTANTS
    Accounts,     \* public keys
    Subscribers,  \* PollingUserAccountSubscriber objects sharing one loader
    Setups,       \* the account of each subscriber and the calls its client
                  \* makes, GET_MULTIPLE_ACCOUNTS_CHUNK_SIZE and the chunks per
                  \* request, and two bounds: the slots of the chain and how
                  \* often a load is found older than a minute
    MaxRequests,  \* bound: requests under way at once
    NoData, NoSlot, NoCopy

ASSUME SetupAssumption ==
    /\ Accounts # {}
    /\ MaxRequests \in Nat
    /\ \A x \in Setups :
          /\ x.account \in [Subscribers -> Accounts]
          /\ x.calls \in [Subscribers -> SUBSET {"subscribe", "copy", "fetch", "update"}]
          /\ {x.size, x.batch, x.max_slot} \subseteq Nat \ {0}
          /\ x.max_stalls \in Nat

VARIABLES
    setup,
    chain,             \* chain[a][n]: the content of a at slot n
    accountsToLoad,    \* keys in the order they were added
    callbacks,         \* callbacks[a]: who is called back on a change of a
    bufferAndSlotMap,  \* [buffer, slot] of the keys answered so far
    mostRecentSlot,
    loadPromise,       \* a load is pending: further calls of load() return
    requests,          \* batch requests under way, oldest first
    user,              \* user[s]: the copy subscriber s hands out
    status,            \* where subscribe() of s stands
    stalls

loader == <<accountsToLoad, callbacks, bufferAndSlotMap, mostRecentSlot>>
polling == <<loadPromise, requests, stalls>>
vars == <<setup, chain, loader, polling, user, status>>

\* The sequence without its i-th element.
Without(seq, i) == SubSeq(seq, 1, i - 1) \o SubSeq(seq, i + 1, Len(seq))

Now == Len(chain[CHOOSE a \in Accounts : TRUE])

Account(s) == setup.account[s]

\* The subscribers that are used.
Clients == {s \in Subscribers : setup.calls[s] # {}}

\* Contents are named after the slot that wrote them.
Init ==
    /\ setup \in Setups
    /\ \E content \in {NoData, 1} : chain = [a \in Accounts |-> <<content>>]
    /\ accountsToLoad = <<>>
    /\ callbacks = [a \in Accounts |-> {}]
    /\ bufferAndSlotMap = <<>>
    /\ mostRecentSlot = 0
    /\ loadPromise = FALSE
    /\ requests = <<>>
    /\ user = [s \in Subscribers |-> NoCopy]
    /\ status = [s \in Subscribers |-> "off"]
    /\ stalls = 0

\* External: a slot passes in which at most one account is written or closed.
NewSlot ==
    /\ Now < setup.max_slot
    /\ \E a \in {Account(s) : s \in Clients}, content \in {NoData, Now + 1} :
          chain' = [b \in Accounts |->
              Append(chain[b], IF a = b THEN content ELSE chain[b][Now])]
    /\ UNCHANGED <<setup, loader, polling, user, status>>

------------------------------------------------------------------------
(* The subscriber's own copy. *)

\* `this.user.slot > slot` is false of an undefined slot.
IsNewer(copy, slot) == copy # NoCopy /\ copy.slot # NoSlot /\ copy.slot > slot

\* The callback given to addAccount. e is what the loader stored.
Callback(copy, e) ==
    IF e.buffer = NoData \/ IsNewer(copy, e.slot)
    THEN copy
    ELSE [data |-> e.buffer, slot |-> e.slot]

\* An answer to fetchAndContext(), which throws when the account is missing.
Fetched(copy, content, slot) ==
    IF content # NoData /\ ~ (copy # NoCopy /\ copy.slot # NoSlot /\ copy.slot >= slot)
    THEN [data |-> content, slot |-> slot]
    ELSE copy

\* `this.user.slot < slot` is false of an undefined slot too.
Updated(copy, content, slot) ==
    IF copy = NoCopy \/ (copy.slot # NoSlot /\ copy.slot < slot)
    THEN [data |-> content, slot |-> slot]
    ELSE copy

\* subscribe() once addAccount() has returned: fetchIfUnloaded(), or done.
AfterAdding(copy) == IF copy = NoCopy THEN "fetching" ELSE "on"

------------------------------------------------------------------------
(* The loader. *)

\* chunks(array, size).
Chunks(array, size) ==
    [i \in 1..((Len(array) + size - 1) \div size) |->
        SubSeq(array, (i - 1) * size + 1,
               IF i * size < Len(array) THEN i * size ELSE Len(array))]

\* The keys of a chunk that have a callback, in their order.
Asked(keys) ==
    LET asked[n \in 0..Len(keys)] ==
            IF n = 0 THEN <<>>
            ELSE IF callbacks[keys[n]] # {}
                 THEN Append(asked[n - 1], keys[n])
                 ELSE asked[n - 1]
    IN  asked[Len(keys)]

\* A batch request holds the AccountToLoad objects of its chunks and the keys
\* asked for, those with a callback. An object whose last callback is removed
\* stays empty for good: adding the key again makes a new object.
Request(batch, load) ==
    [load   |-> load,
     chunks |-> batch,
     empty  |-> {},
     args   |-> [i \in DOMAIN batch |-> Asked(batch[i])]]

\* A number no load under way has; 0 is the number of a load that failed.
FreshLoad ==
    CHOOSE n \in 1..(MaxRequests + 1) :
        \A i \in DOMAIN requests : requests[i].load # n

\* load(): one loadChunk, and so one batch request, per `batch` chunks.
NewRequests ==
    LET batches == Chunks(Chunks(accountsToLoad, setup.size), setup.batch)
    IN  [i \in DOMAIN batches |-> Request(batches[i], FreshLoad)]

\* Mutant: the objects nobody asks for any more are filtered out before they
\* are matched with the values of the answer, and so shift the others.
AnswersToTheRest(r, slots) ==
    LET rest(c) == SelectSeq(r.chunks[c], LAMBDA key : key \notin r.empty)
    IN  {[key    |-> rest(p[1])[p[2]],
          buffer |-> chain[r.args[p[1]][p[2]]][slots[p[1]]],
          slot   |-> slots[p[1]]] :
            p \in {q \in (DOMAIN r.chunks) \X (1..setup.size) :
                      /\ slots[q[1]] # 0
                      /\ q[2] \in DOMAIN rest(q[1])}}

\* loadChunk, for the objects of the answered chunks that are still asked for:
\* what value[j] of an answer made for slots[i] says. Slot 0: no result.
Answers(r, slots) ==
    {[key    |-> r.chunks[p[1]][p[2]],
      buffer |-> chain[r.args[p[1]][p[2]]][slots[p[1]]],
      slot   |-> slots[p[1]]] :
        p \in {q \in (DOMAIN r.chunks) \X (1..setup.size) :
                  /\ slots[q[1]] # 0
                  /\ q[2] \in DOMAIN r.chunks[q[1]]
                  /\ r.chunks[q[1]][q[2]] \notin r.empty}}

\* Mutant: the buffer of an account that did not exist at the first answer is
\* never replaced.
IsStoredOverABuffer(e) ==
    e.key \in DOMAIN bufferAndSlotMap =>
        LET old == bufferAndSlotMap[e.key]
        IN  /\ ~ e.slot < old.slot
            /\ e.buffer # NoData
            /\ old.buffer # NoData
            /\ e.buffer # old.buffer

\* An answer that is stored and passed on: the first one, or one that is not
\* older than the stored one and brings other bytes. An account that is gone
\* leaves the stored buffer, and unchanged bytes the stored slot.
IsStored(e) ==
    e.key \in DOMAIN bufferAndSlotMap =>
        LET old == bufferAndSlotMap[e.key]
        IN  /\ ~ e.slot < old.slot
            /\ e.buffer # NoData
            /\ e.buffer # old.buffer

\* bufferAndSlotMap.set for every stored answer.
Stored(stored) ==
    [key \in (DOMAIN bufferAndSlotMap) \cup {e.key : e \in stored} |->
        IF \E e \in stored : e.key = key
        THEN LET e == CHOOSE e \in stored : e.key = key
             IN  [buffer |-> e.buffer, slot |-> e.slot]
        ELSE bufferAndSlotMap[key]]

\* handleAccountCallbacks for every stored answer.
CalledBack(stored) ==
    [s \in Subscribers |->
        IF \E e \in stored : s \in callbacks[e.key]
        THEN Callback(user[s], CHOOSE e \in stored : s \in callbacks[e.key])
        ELSE user[s]]

\* The finally of load(): whoever awaits the promise goes on, with the copies
\* the callbacks have left.
Resolve(copies) ==
    /\ loadPromise' = FALSE
    /\ status' = [s \in Subscribers |->
          IF status[s] = "waiting" THEN AfterAdding(copies[s]) ELSE status[s]]

\* loadChunk of requests[i] returns. The load ends with its last one.
ChunkDone(i, copies) ==
    /\ requests' = Without(requests, i)
    /\ IF requests[i].load # 0 /\ \A k \in (DOMAIN requests) \ {i} : requests[k].load # requests[i].load
       THEN Resolve(copies)
       ELSE UNCHANGED <<loadPromise, status>>

------------------------------------------------------------------------
(* Timers and answers. *)

\* The interval, running while there are accounts to load, calls load(). A
\* load pending for more than a minute (the process slept, or the wall clock
\* was set) is given up, and whoever awaits its promise waits for ever.
Load ==
    /\ accountsToLoad # <<>>
    /\ Len(requests) + Len(NewRequests) <= MaxRequests
    /\ \/ /\ ~ loadPromise
          /\ UNCHANGED <<status, stalls>>
       \/ /\ loadPromise
          /\ stalls < setup.max_stalls
          /\ stalls' = stalls + 1
          /\ status' = [s \in Subscribers |->
                IF status[s] = "waiting" THEN "hung" ELSE status[s]]
    /\ loadPromise' = TRUE
    /\ requests' = requests \o NewRequests
    /\ UNCHANGED <<setup, chain, loader, user>>

\* A batch request is answered, each of its chunks for a slot of its own.
Answer(i, slots) ==
    \E stored \in {{e \in Answers(requests[i], slots) : IsStored(e)}} :
        /\ bufferAndSlotMap' = Stored(stored)
        /\ user' = CalledBack(stored)
        /\ mostRecentSlot' =
              CHOOSE n \in {mostRecentSlot} \cup {slots[c] : c \in DOMAIN slots} :
                  \A c \in DOMAIN slots : n >= mostRecentSlot /\ n >= slots[c]
        /\ ChunkDone(i, CalledBack(stored))
        /\ UNCHANGED <<setup, chain, accountsToLoad, callbacks, stalls>>

Answered(i) ==
    \E slots \in [DOMAIN requests[i].chunks -> 0..Now] : Answer(i, slots)

\* promiseTimeout: null after ten seconds, and a late answer is dropped.
TimedOut(i) ==
    /\ ChunkDone(i, user)
    /\ UNCHANGED <<setup, chain, loader, stalls, user>>

\* Mutant: load() clears its promise after the await instead of in a finally.
FailedForGood(i) ==
    /\ requests' = [k \in DOMAIN Without(requests, i) |->
          IF requests[i].load # 0 /\ Without(requests, i)[k].load = requests[i].load
          THEN [Without(requests, i)[k] EXCEPT !.load = 0]
          ELSE Without(requests, i)[k]]
    /\ UNCHANGED <<setup, chain, loader, loadPromise, status, stalls, user>>

\* The request fails: Promise.all rejects and the load ends. Its other
\* requests stay under way and their answers are still applied.
Failed(i) ==
    /\ requests' = [k \in DOMAIN Without(requests, i) |->
          IF requests[i].load # 0 /\ Without(requests, i)[k].load = requests[i].load
          THEN [Without(requests, i)[k] EXCEPT !.load = 0]
          ELSE Without(requests, i)[k]]
    /\ IF requests[i].load # 0
       THEN Resolve(user)
       ELSE UNCHANGED <<loadPromise, status>>
    /\ UNCHANGED <<setup, chain, loader, stalls, user>>

------------------------------------------------------------------------
(* Calls of the client. *)

\* addAccount.
AddAccount(s) ==
    /\ callbacks' = [callbacks EXCEPT ![Account(s)] = @ \cup {s}]
    /\ accountsToLoad' = IF callbacks[Account(s)] = {}
                         THEN Append(accountsToLoad, Account(s))
                         ELSE accountsToLoad
    /\ UNCHANGED <<bufferAndSlotMap, mostRecentSlot>>

\* subscribe(userAccount?): a copy handed in replaces the one s had.
Subscribe(s) ==
    /\ "subscribe" \in setup.calls[s]
    /\ status[s] = "off"
    /\ \/ UNCHANGED user
       \/ \E n \in 1..Now :
             /\ "copy" \in setup.calls[s]
             /\ chain[Account(s)][n] # NoData
             /\ user' = [user EXCEPT ![s] =
                            [data |-> chain[Account(s)][n], slot |-> NoSlot]]
    /\ AddAccount(s)
    /\ status' = [status EXCEPT ![s] =
                     IF loadPromise THEN "waiting" ELSE AfterAdding(user'[s])]
    /\ UNCHANGED <<setup, chain, polling>>

\* unsubscribe() and removeAccount(). The copy stays.
Unsubscribe(s) ==
    /\ status[s] = "on"
    /\ status' = [status EXCEPT ![s] = "off"]
    /\ callbacks' = [callbacks EXCEPT ![Account(s)] = @ \ {s}]
    /\ IF callbacks[Account(s)] = {s}
       THEN /\ \E i \in DOMAIN accountsToLoad :
                  /\ accountsToLoad[i] = Account(s)
                  /\ accountsToLoad' = Without(accountsToLoad, i)
            /\ bufferAndSlotMap' =
                  [key \in (DOMAIN bufferAndSlotMap) \ {Account(s)} |->
                      bufferAndSlotMap[key]]
            /\ requests' = [i \in DOMAIN requests |->
                  [requests[i] EXCEPT !.empty = @ \cup {Account(s)}]]
       ELSE UNCHANGED <<accountsToLoad, bufferAndSlotMap, requests>>
    /\ UNCHANGED <<setup, chain, mostRecentSlot, loadPromise, stalls, user>>

\* fetch() is answered: the one subscribe() awaits, or one of the client.
\* It may also fail, which only matters to subscribe().
Fetch(s) ==
    /\ status[s] = "fetching" \/ "fetch" \in setup.calls[s]
    /\ \/ \E n \in 1..Now :
             user' = [user EXCEPT ![s] = Fetched(@, chain[Account(s)][n], n)]
       \/ UNCHANGED user
    /\ status' = [status EXCEPT ![s] = IF @ = "fetching" THEN "on" ELSE @]
    /\ UNCHANGED <<setup, chain, loader, polling>>

\* updateData(userAccount, slot), with what the client got elsewhere.
UpdateData(s) ==
    \E n \in 1..Now :
        /\ "update" \in setup.calls[s]
        /\ chain[Account(s)][n] # NoData
        /\ user' = [user EXCEPT ![s] = Updated(@, chain[Account(s)][n], n)]
        /\ UNCHANGED <<setup, chain, loader, polling, status>>

Next ==
    \/ NewSlot
    \/ Load
    \/ \E i \in DOMAIN requests : Answered(i)
    \/ \E i \in DOMAIN requests : TimedOut(i)
    \/ \E i \in DOMAIN requests : Failed(i)
    \/ \E s \in Subscribers : Subscribe(s) \/ Unsubscribe(s) \/ Fetch(s) \/ UpdateData(s)

\* An answer that tells the loader what the account of s is now.
AnsweredForNow(s) ==
    \E i \in DOMAIN requests :
        /\ requests[i].load # 0
        /\ \E c \in DOMAIN requests[i].chunks :
              \E j \in DOMAIN requests[i].chunks[c] :
                  requests[i].chunks[c][j] = Account(s)
        /\ Account(s) \notin requests[i].empty
        /\ Answer(i, [c \in DOMAIN requests[i].chunks |-> Now])

\* Timers fire; a node that is asked again and again about an account some
\* time answers for the current slot. The client owes nothing.
Fairness ==
    /\ WF_vars(Load)
    /\ WF_vars(\E i \in DOMAIN requests : TimedOut(i))
    /\ \A s \in Subscribers : SF_vars(AnsweredForNow(s))

Spec == Init /\ [][Next]_vars /\ Fairness

------------------------------------------------------------------------

\* bulkAccountLoader.ts:74-89, 194-231: the cache tells of the accounts
\* somebody asks for and of no other, and each buffer is what the chain held
\* for that very account at the slot stored with it, although objects are
\* removed and added again while requests for them are under way and values
\* are matched with objects by position.
CacheFits ==
    \A key \in DOMAIN bufferAndSlotMap :
        /\ callbacks[key] # {}
        /\ bufferAndSlotMap[key].slot \in 1..mostRecentSlot
        /\ bufferAndSlotMap[key].buffer = chain[key][bufferAndSlotMap[key].slot]

\* Nobody else watches the account of s. A subscriber that joins others is
\* called back on changes only, and what it fetched itself may be older than
\* what the loader already has.
IsAlone(s) == \A t \in Clients \ {s} : Account(t) # Account(s)

View == INSTANCE AccountView WITH
    chain <- [s \in Subscribers |-> chain[Account(s)]],
    watching <- {s \in Subscribers : s \in callbacks[Account(s)] /\ IsAlone(s)},
    view <- user

\* pollingUserAccountSubscriber.ts:63-112, 152-158: the loader's callback,
\* fetch() and updateData() between them implement AccountView: with polls,
\* fetches and updates answered in any order the copy is always what the
\* chain held at its slot and never goes back to an older one, and the copy of
\* a lone subscriber does not stay behind for ever.
ImplementsAccountView == View!Spec

\* bulkAccountLoader.ts:108-147: whatever happens to its requests, a load does
\* not stay pending, which would silence the interval for a minute at best.
PollingRecovers == []<>(~ loadPromise)
====
