-------------------------- MODULE AccountCacheProofs --------------------------
(***************************************************************************)
(* The cache of the polling loader fits the chain, and what the            *)
(* subscribers hand out are steps of AccountView, for any number of        *)
(* accounts, subscribers, chunk sizes, slots and requests under way.       *)
(***************************************************************************)
EXTENDS AccountCache, InductionProofs, SequenceTheorems

(***************************************************************************)
(* Sequences.                                                              *)
(***************************************************************************)

(* What is left of a sequence when an element is taken out.                *)
LEMMA WithoutElements ==
  ASSUME NEW S, NEW seq \in Seq(S), NEW i \in 1 .. Len(seq)
  PROVE  /\ Without(seq, i) \in Seq(S)
         /\ Len(Without(seq, i)) = Len(seq) - 1
         /\ \A k \in 1 .. Len(seq) - 1 :
              Without(seq, i)[k] = IF k < i THEN seq[k] ELSE seq[k + 1]
<1> DEFINE head == SubSeq(seq, 1, i - 1)
           tail == SubSeq(seq, i + 1, Len(seq))
<1>1. /\ head \in Seq(S)
      /\ Len(head) = i - 1
      /\ \A k \in 1 .. i - 1 : head[k] = seq[k]
  OBVIOUS
<1>2. /\ tail \in Seq(S)
      /\ Len(tail) = Len(seq) - i
      /\ \A k \in 1 .. Len(seq) - i : tail[k] = seq[i + k]
  OBVIOUS
<1>3. Len(seq) \in Nat /\ i \in Nat
  OBVIOUS
<1> HIDE DEF head, tail
<1>4. /\ head \o tail \in Seq(S)
      /\ Len(head \o tail) = Len(seq) - 1
      /\ \A k \in 1 .. Len(seq) - 1 :
           (head \o tail)[k] = IF k < i THEN seq[k] ELSE seq[k + 1]
  <2>1. head \o tail \in Seq(S) /\ Len(head \o tail) = Len(head) + Len(tail)
    BY <1>1, <1>2, ConcatProperties
  <2>2. ASSUME NEW k \in 1 .. Len(seq) - 1, k < i
        PROVE  (head \o tail)[k] = seq[k]
    BY <1>1, <1>2, <1>3, <2>2
  <2>3. ASSUME NEW k \in 1 .. Len(seq) - 1, ~ k < i
        PROVE  (head \o tail)[k] = seq[k + 1]
    <3>1. k - (i - 1) \in 1 .. Len(seq) - i /\ i + (k - (i - 1)) = k + 1
      BY <1>3, <2>3
    <3>2. (head \o tail)[k] = tail[k - (i - 1)]
      BY <1>1, <1>2, <1>3, <2>3
    <3> QED
      BY <1>2, <3>1, <3>2
  <2> QED
    BY <1>1, <1>2, <1>3, <2>1, <2>2, <2>3
<1> QED
  BY <1>4 DEF Without, head, tail

(* A chunk holds elements of the array it is cut from.                     *)
LEMMA ChunkElements ==
  ASSUME NEW S, NEW array \in Seq(S), NEW size \in Nat \ {0}
  PROVE  /\ Chunks(array, size) \in Seq(Seq(S))
         /\ \A c \in DOMAIN Chunks(array, size) :
              \A j \in DOMAIN Chunks(array, size)[c] :
                \E k \in DOMAIN array : Chunks(array, size)[c][j] = array[k]
<1> DEFINE count == (Len(array) + size - 1) \div size
           first(i) == (i - 1) * size + 1
           last(i) == IF i * size < Len(array) THEN i * size ELSE Len(array)
<1>1. Len(array) \in Nat
  OBVIOUS
<1>2. count \in Nat
  BY <1>1
<1>3. ASSUME NEW i \in 1 .. count
      PROVE  /\ first(i) \in Nat \ {0}
             /\ last(i) \in Nat
             /\ last(i) <= Len(array)
  <2>1. i - 1 \in Nat /\ i \in Nat
    BY <1>2
  <2>2. (i - 1) * size \in Nat /\ i * size \in Nat
    BY <2>1
  <2> QED
    BY <1>1, <2>2
<1> HIDE DEF count, first, last
<1>4. ASSUME NEW i \in 1 .. count
      PROVE  /\ SubSeq(array, first(i), last(i)) \in Seq(S)
             /\ \A j \in DOMAIN SubSeq(array, first(i), last(i)) :
                  \E k \in DOMAIN array : SubSeq(array, first(i), last(i))[j] = array[k]
  BY <1>1, <1>3
<1>5. Chunks(array, size) = [i \in 1 .. count |-> SubSeq(array, first(i), last(i))]
  BY DEF Chunks, count, first, last
<1>6. Chunks(array, size) \in Seq(Seq(S))
  BY <1>2, <1>4, <1>5
<1>7. ASSUME NEW c \in DOMAIN Chunks(array, size), NEW j \in DOMAIN Chunks(array, size)[c]
      PROVE  \E k \in DOMAIN array : Chunks(array, size)[c][j] = array[k]
  <2>1. c \in 1 .. count /\ Chunks(array, size)[c] = SubSeq(array, first(c), last(c))
    BY <1>5
  <2> QED
    BY <1>4, <2>1
<1> QED
  BY <1>6, <1>7

(* When every key has a callback, all of them are asked for.               *)
LEMMA AllAsked ==
  ASSUME NEW S, NEW keys \in Seq(S), \A k \in DOMAIN keys : callbacks[keys[k]] # {}
  PROVE  Asked(keys) = keys
<1> DEFINE n == Len(keys)
           Body(f) == [k \in 0 .. Len(keys) |->
                         IF k = 0 THEN <<>>
                         ELSE IF callbacks[keys[k]] # {}
                              THEN Append(f[k - 1], keys[k])
                              ELSE f[k - 1]]
           prefixes == [k \in 0 .. Len(keys) |-> SubSeq(keys, 1, k)]
           asked == CHOOSE f : f = Body(f)
<1>1. Asked(keys) = asked[Len(keys)]
  BY DEF Asked
<1>2. prefixes = Body(prefixes)
  <2>1. \A k \in 1 .. Len(keys) : SubSeq(keys, 1, k) = Append(SubSeq(keys, 1, k - 1), keys[k])
    OBVIOUS
  <2>2. SubSeq(keys, 1, 0) = <<>>
    OBVIOUS
  <2> QED
    BY <2>1, <2>2
<1>3. asked = Body(asked)
  BY <1>2
<1> HIDE DEF asked
<1> DEFINE T == {k \in 0 .. n : asked[k] = prefixes[k]}
<1>4. T = 0 .. n
  <2>1. 0 \in T
    <3>1. 0 \in 0 .. n
      OBVIOUS
    <3>2. asked[0] = Body(asked)[0] /\ prefixes[0] = Body(prefixes)[0]
      BY <1>2, <1>3
    <3> QED
      BY <3>1, <3>2
  <2>2. ASSUME NEW k \in T, k < n PROVE k + 1 \in T
    <3>1. k + 1 \in 0 .. n /\ k + 1 # 0 /\ (k + 1) - 1 = k
      BY <2>2
    <3>2. asked[k + 1] = Body(asked)[k + 1] /\ prefixes[k + 1] = Body(prefixes)[k + 1]
      BY <1>2, <1>3
    <3>3. asked[k] = prefixes[k]
      BY <2>2
    <3> QED
      BY <3>1, <3>2, <3>3
  <2>3. n \in Nat
    OBVIOUS
  <2>4. T \in SUBSET (0 .. n)
    OBVIOUS
  <2> HIDE DEF T, n
  <2> QED
    BY <2>1, <2>2, <2>3, <2>4, IntervalInduction
<1>5. asked[n] = prefixes[n]
  <2>1. n \in 0 .. n
    OBVIOUS
  <2> QED
    BY <1>4, <2>1
<1> QED
  BY <1>1, <1>5

(***************************************************************************)
(* The invariant.                                                          *)
(***************************************************************************)

Contents == Nat \cup {NoData}

Copies == {NoCopy} \cup [data : Contents, slot : Nat \cup {NoSlot}]

BatchRequests ==
  [ load : 0 .. MaxRequests + 1, chunks : Seq(Seq(Accounts)),
    empty : SUBSET Accounts, args : Seq(Seq(Accounts)) ]

(* Every account has a content for every slot so far.                      *)
ChainInv ==
  /\ setup \in Setups
  /\ chain \in [Accounts -> Seq(Contents)]
  /\ Now \in Nat \ {0}
  /\ \A a \in Accounts : Len(chain[a]) = Now
  /\ user \in [Subscribers -> Copies]
  /\ mostRecentSlot \in 0 .. Now

(* The list of the loader has every key that somebody asks for, once.      *)
LoaderInv ==
  /\ callbacks \in [Accounts -> SUBSET Subscribers]
  /\ \A a \in Accounts : \A s \in callbacks[a] : Account(s) = a
  /\ accountsToLoad \in Seq(Accounts)
  /\ \A i, j \in DOMAIN accountsToLoad : accountsToLoad[i] = accountsToLoad[j] => i = j
  /\ \A i \in DOMAIN accountsToLoad : callbacks[accountsToLoad[i]] # {}
  /\ \A a \in Accounts : callbacks[a] # {} => \E i \in DOMAIN accountsToLoad : accountsToLoad[i] = a

(* The j-th value of an answer is that of the j-th object of its chunk,    *)
(* and an object that is not empty is one that somebody asks for.          *)
RequestFits(r) ==
  /\ r.args = r.chunks
  /\ \A c \in DOMAIN r.chunks : \A j \in DOMAIN r.chunks[c] :
       r.chunks[c][j] \notin r.empty => callbacks[r.chunks[c][j]] # {}

RequestsInv ==
  /\ requests \in Seq(BatchRequests)
  /\ Len(requests) <= MaxRequests
  /\ \A i \in DOMAIN requests : RequestFits(requests[i])

CacheInv ==
  /\ DOMAIN bufferAndSlotMap \subseteq Accounts
  /\ CacheFits

Inv == ChainInv /\ LoaderInv /\ RequestsInv /\ CacheInv

(* Initially nothing is loaded.                                            *)
LEMMA InitInv == Init => Inv
<1> SUFFICES ASSUME Init PROVE Inv
  OBVIOUS
<1> USE SetupAssumption
<1>1. PICK content \in {NoData, 1} : chain = [a \in Accounts |-> <<content>>]
  BY DEF Init
<1>2. (CHOOSE a \in Accounts : TRUE) \in Accounts
  OBVIOUS
<1>3. ChainInv
  BY <1>1, <1>2 DEF Init, ChainInv, Now, Contents, Copies
<1>4. LoaderInv
  BY DEF Init, LoaderInv
<1>5. RequestsInv
  BY DEF Init, RequestsInv
<1>6. CacheInv
  BY DEF Init, CacheInv, CacheFits
<1> QED
  BY <1>3, <1>4, <1>5, <1>6 DEF Inv

(***************************************************************************)
(* The steps.                                                              *)
(***************************************************************************)

(* With at most MaxRequests requests under way one of MaxRequests + 1      *)
(* numbers is free.                                                        *)
LEMMA FreshLoadIsFree ==
  ASSUME Inv
  PROVE  /\ FreshLoad \in 1 .. MaxRequests + 1
         /\ \A i \in DOMAIN requests : requests[i].load # FreshLoad
<1> DEFINE used == [i \in 1 .. Len(requests) |-> requests[i].load]
           taken == {used[i] : i \in 1 .. Len(requests)}
<1>1. Len(requests) \in Nat /\ DOMAIN requests = 1 .. Len(requests) /\ MaxRequests \in Nat
  BY SetupAssumption DEF Inv, RequestsInv
<1>2. IsFiniteSet(1 .. Len(requests)) /\ Cardinality(1 .. Len(requests)) = Len(requests)
  <2>1. 1 \in Int /\ Len(requests) \in Int /\ Len(requests) - 1 + 1 = Len(requests)
    BY <1>1
  <2>2. Cardinality(1 .. Len(requests)) = IF 1 > Len(requests) THEN 0 ELSE Len(requests) - 1 + 1
    BY <2>1, FS_Interval
  <2> QED
    BY <1>1, <2>1, <2>2, FS_Interval
<1>3. IsFiniteSet(1 .. MaxRequests + 1) /\ Cardinality(1 .. MaxRequests + 1) = MaxRequests + 1
  BY <1>1, FS_Interval
<1>4. used \in Surjection(1 .. Len(requests), taken)
  BY DEF Surjection
<1> HIDE DEF taken
<1>5. IsFiniteSet(taken) /\ Cardinality(taken) <= Len(requests)
  BY <1>2, <1>4, FS_Surjection
<1>6. ~ (1 .. MaxRequests + 1) \subseteq taken
  <2> SUFFICES ASSUME (1 .. MaxRequests + 1) \subseteq taken PROVE FALSE
    OBVIOUS
  <2>1. Cardinality(1 .. MaxRequests + 1) <= Cardinality(taken)
    BY <1>5, FS_Subset
  <2>2. Cardinality(taken) \in Nat
    BY <1>5, FS_CardinalityType
  <2>3. Len(requests) <= MaxRequests
    BY DEF Inv, RequestsInv
  <2> QED
    BY <1>1, <1>3, <1>5, <2>1, <2>2, <2>3
<1>7. \E n \in 1 .. MaxRequests + 1 : \A i \in DOMAIN requests : requests[i].load # n
  BY <1>1, <1>6 DEF taken
<1> QED
  BY <1>7 DEF FreshLoad

(* The requests of a new load.                                             *)
LEMMA NewRequestsFit ==
  ASSUME Inv
  PROVE  /\ NewRequests \in Seq(BatchRequests)
         /\ \A i \in DOMAIN NewRequests : RequestFits(NewRequests[i])
<1> DEFINE chunks == Chunks(accountsToLoad, setup.size)
           batches == Chunks(chunks, setup.batch)
<1>1. setup.size \in Nat \ {0} /\ setup.batch \in Nat \ {0} /\ accountsToLoad \in Seq(Accounts)
  BY SetupAssumption DEF Inv, ChainInv, LoaderInv
<1>2. /\ chunks \in Seq(Seq(Accounts))
      /\ \A c \in DOMAIN chunks : \A j \in DOMAIN chunks[c] :
           \E k \in DOMAIN accountsToLoad : chunks[c][j] = accountsToLoad[k]
  <2> DEFINE size == setup.size
  <2>1. size \in Nat \ {0}
    BY <1>1
  <2> HIDE DEF size
  <2>2. Chunks(accountsToLoad, size) \in Seq(Seq(Accounts))
    BY <1>1, <2>1, ChunkElements
  <2>3. \A c \in DOMAIN Chunks(accountsToLoad, size) : \A j \in DOMAIN Chunks(accountsToLoad, size)[c] :
           \E k \in DOMAIN accountsToLoad : Chunks(accountsToLoad, size)[c][j] = accountsToLoad[k]
    BY <1>1, <2>1, ChunkElements
  <2> QED
    BY <2>2, <2>3 DEF size
<1> HIDE DEF chunks
<1>3. /\ batches \in Seq(Seq(Seq(Accounts)))
      /\ \A c \in DOMAIN batches : \A j \in DOMAIN batches[c] :
           \E k \in DOMAIN chunks : batches[c][j] = chunks[k]
  <2> DEFINE size == setup.batch
  <2>1. size \in Nat \ {0}
    BY <1>1
  <2> HIDE DEF size
  <2>2. Chunks(chunks, size) \in Seq(Seq(Seq(Accounts)))
    BY <1>2, <2>1, ChunkElements
  <2>3. \A c \in DOMAIN Chunks(chunks, size) : \A j \in DOMAIN Chunks(chunks, size)[c] :
           \E k \in DOMAIN chunks : Chunks(chunks, size)[c][j] = chunks[k]
    BY <1>2, <2>1, ChunkElements
  <2> QED
    BY <2>2, <2>3 DEF size
<1> HIDE DEF batches
<1>4. ASSUME NEW b \in DOMAIN batches
      PROVE  Request(batches[b], FreshLoad) \in BatchRequests /\ RequestFits(Request(batches[b], FreshLoad))
  <2>1. batches[b] \in Seq(Seq(Accounts))
    BY <1>3
  <2>2. ASSUME NEW c \in DOMAIN batches[b]
        PROVE  /\ batches[b][c] \in Seq(Accounts)
               /\ \A j \in DOMAIN batches[b][c] : callbacks[batches[b][c][j]] # {}
    <3>1. PICK k \in DOMAIN chunks : batches[b][c] = chunks[k]
      BY <1>3
    <3>2. batches[b][c] \in Seq(Accounts)
      BY <2>1
    <3>3. \A n \in DOMAIN accountsToLoad : callbacks[accountsToLoad[n]] # {}
      BY DEF Inv, LoaderInv
    <3>4. ASSUME NEW j \in DOMAIN batches[b][c]
          PROVE  callbacks[batches[b][c][j]] # {}
      <4>1. PICK n \in DOMAIN accountsToLoad : chunks[k][j] = accountsToLoad[n]
        BY <1>2, <3>1
      <4> QED
        BY <3>1, <3>3, <4>1
    <3> QED
      BY <3>2, <3>4
  <2>3. ASSUME NEW c \in DOMAIN batches[b]
        PROVE  Asked(batches[b][c]) = batches[b][c]
    BY <2>2, AllAsked
  <2>4. [c \in DOMAIN batches[b] |-> Asked(batches[b][c])] = batches[b]
    <3>1. batches[b] = [c \in DOMAIN batches[b] |-> batches[b][c]]
      BY <2>1
    <3>2. [c \in DOMAIN batches[b] |-> Asked(batches[b][c])] = [c \in DOMAIN batches[b] |-> batches[b][c]]
      BY <2>3
    <3> QED
      BY <3>1, <3>2
  <2>5. Request(batches[b], FreshLoad)
          = [load |-> FreshLoad, chunks |-> batches[b], empty |-> {}, args |-> batches[b]]
    BY <2>4 DEF Request
  <2>6. FreshLoad \in 0 .. MaxRequests + 1
    BY FreshLoadIsFree, SetupAssumption
  <2>7. Request(batches[b], FreshLoad) \in BatchRequests
    BY <2>1, <2>5, <2>6 DEF BatchRequests
  <2>8. RequestFits(Request(batches[b], FreshLoad))
    BY <2>2, <2>5 DEF RequestFits
  <2> QED
    BY <2>7, <2>8
<1>5. NewRequests = [b \in DOMAIN batches |-> Request(batches[b], FreshLoad)]
  BY DEF NewRequests, batches, chunks
<1>6. DOMAIN batches = 1 .. Len(batches) /\ Len(batches) \in Nat
  BY <1>3
<1> QED
  BY <1>4, <1>5, <1>6

(* A slot passes: the abstract chain grows by one.                         *)
LEMMA NewSlotStep ==
  ASSUME Inv, NewSlot
  PROVE  Inv' /\ View!Publish
<1> USE SetupAssumption
<1>1. PICK a \in {Account(s) : s \in Clients}, content \in {NoData, Now + 1} :
        chain' = [b \in Accounts |-> Append(chain[b], IF a = b THEN content ELSE chain[b][Now])]
  BY DEF NewSlot
<1>2. UNCHANGED <<setup, loader, polling, user, status>>
  BY DEF NewSlot
<1>3. Now \in Nat \ {0} /\ chain \in [Accounts -> Seq(Contents)] /\ setup.account \in [Subscribers -> Accounts]
      /\ \A b \in Accounts : Len(chain[b]) = Now
  BY DEF Inv, ChainInv
<1>4. ASSUME NEW b \in Accounts
      PROVE  /\ chain'[b] \in Seq(Contents)
             /\ Len(chain'[b]) = Now + 1
             /\ \A n \in 1 .. Now : chain'[b][n] = chain[b][n]
             /\ SubSeq(chain'[b], 1, Len(chain[b])) = chain[b]
  <2> DEFINE c == IF a = b THEN content ELSE chain[b][Now]
  <2>1. c \in Contents
    BY <1>1, <1>3 DEF Contents
  <2>2. chain'[b] = Append(chain[b], c)
    BY <1>1
  <2> HIDE DEF c
  <2> QED
    BY <1>3, <2>1, <2>2
<1>5. Now' = Now + 1
  BY <1>4 DEF Now
<1>6. chain' \in [Accounts -> Seq(Contents)]
  BY <1>1, <1>4
<1>7. ChainInv'
  BY <1>2, <1>3, <1>4, <1>5, <1>6 DEF Inv, ChainInv, loader
<1>8. LoaderInv' /\ RequestsInv'
  BY <1>2 DEF Inv, LoaderInv, RequestsInv, RequestFits, Account, loader, polling
<1>9. CacheInv'
  <2> SUFFICES ASSUME NEW key \in DOMAIN bufferAndSlotMap
               PROVE  /\ callbacks[key] # {}
                      /\ bufferAndSlotMap[key].slot \in 1 .. mostRecentSlot
                      /\ bufferAndSlotMap[key].buffer = chain'[key][bufferAndSlotMap[key].slot]
    BY <1>2 DEF Inv, CacheInv, CacheFits, loader
  <2>1. /\ callbacks[key] # {}
        /\ bufferAndSlotMap[key].slot \in 1 .. mostRecentSlot
        /\ bufferAndSlotMap[key].buffer = chain[key][bufferAndSlotMap[key].slot]
        /\ key \in Accounts
    BY DEF Inv, CacheInv, CacheFits
  <2>2. mostRecentSlot \in 0 .. Now
    BY DEF Inv, ChainInv
  <2> QED
    BY <1>3, <1>4, <2>1, <2>2
<1>10. View!Publish
  <2>1. UNCHANGED user /\ UNCHANGED setup
    BY <1>2
  <2>2. ASSUME NEW s \in Subscribers
        PROVE  /\ Len(chain'[Account(s)]) = Len(chain[Account(s)]) + 1
               /\ SubSeq(chain'[Account(s)], 1, Len(chain[Account(s)])) = chain[Account(s)]
    BY <1>3, <1>4 DEF Account
  <2> QED
    BY <2>1, <2>2 DEF View!Publish, Account
<1> QED
  BY <1>7, <1>8, <1>9, <1>10 DEF Inv

(* A step that touches neither the chain nor the copies is no step of      *)
(* AccountView.                                                            *)
LEMMA NothingToSee ==
  ASSUME UNCHANGED <<setup, chain, user>>
  PROVE  View!Refresh
BY DEF View!Refresh, Account

(* A new load.                                                             *)
LEMMA LoadStep ==
  ASSUME Inv, Load
  PROVE  Inv' /\ View!Refresh
<1>1. UNCHANGED <<setup, chain, accountsToLoad, callbacks, bufferAndSlotMap, mostRecentSlot, user>>
  BY DEF Load, loader
<1>2. requests \in Seq(BatchRequests) /\ \A i \in DOMAIN requests : RequestFits(requests[i])
  BY DEF Inv, RequestsInv
<1>3. requests' = requests \o NewRequests /\ Len(requests) + Len(NewRequests) <= MaxRequests
  BY DEF Load
<1>4. /\ requests' \in Seq(BatchRequests)
      /\ Len(requests') = Len(requests) + Len(NewRequests)
      /\ \A i \in 1 .. Len(requests) + Len(NewRequests) :
           requests'[i] = IF i <= Len(requests) THEN requests[i] ELSE NewRequests[i - Len(requests)]
  BY <1>2, <1>3, NewRequestsFit, ConcatProperties
<1>5. ASSUME NEW i \in DOMAIN requests'
      PROVE  RequestFits(requests'[i])
  <2>1. Len(requests) \in Nat /\ Len(NewRequests) \in Nat /\ i \in 1 .. Len(requests) + Len(NewRequests)
    BY <1>2, <1>4, NewRequestsFit
  <2>2. CASE i <= Len(requests)
    BY <1>2, <1>4, <2>1, <2>2
  <2>3. CASE ~ i <= Len(requests)
    <3>1. i - Len(requests) \in DOMAIN NewRequests
      BY <2>1, <2>3, NewRequestsFit
    <3>2. requests'[i] = NewRequests[i - Len(requests)]
      BY <1>4, <2>1, <2>3
    <3> QED
      BY <3>1, <3>2, NewRequestsFit
  <2> QED
    BY <2>2, <2>3
<1>6. RequestsInv'
  <2>1. \A i \in DOMAIN requests' : RequestFits(requests[i])'
    BY <1>1, <1>5 DEF RequestFits
  <2>2. Len(requests') <= MaxRequests
    BY <1>3, <1>4
  <2> QED
    BY <1>4, <2>1, <2>2 DEF RequestsInv
<1>7. ChainInv' /\ LoaderInv' /\ CacheInv'
  BY <1>1 DEF Inv, ChainInv, LoaderInv, CacheInv, CacheFits, Now, Account
<1> QED
  BY <1>1, <1>6, <1>7, NothingToSee DEF Inv

(* A request leaves the list of those under way.                           *)
LEMMA OneRequestLess ==
  ASSUME Inv, NEW i \in DOMAIN requests, requests' = Without(requests, i), UNCHANGED callbacks
  PROVE  RequestsInv'
<1>1. /\ requests \in Seq(BatchRequests) /\ Len(requests) <= MaxRequests
      /\ \A k \in DOMAIN requests : RequestFits(requests[k])
      /\ Len(requests) \in Nat /\ DOMAIN requests = 1 .. Len(requests)
  BY DEF Inv, RequestsInv
<1>2. /\ requests' \in Seq(BatchRequests)
      /\ Len(requests') = Len(requests) - 1
      /\ \A k \in 1 .. Len(requests) - 1 :
           requests'[k] = IF k < i THEN requests[k] ELSE requests[k + 1]
  BY <1>1, WithoutElements
<1>3. ASSUME NEW k \in DOMAIN requests'
      PROVE  RequestFits(requests'[k])
  BY <1>1, <1>2
<1>4. \A k \in DOMAIN requests' : RequestFits(requests[k])'
  BY <1>3 DEF RequestFits
<1> QED
  BY <1>1, <1>2, <1>4, SetupAssumption DEF RequestsInv

(* The answers of a request are what the chain held for the account of     *)
(* each object at the slot of its chunk.                                   *)
LEMMA AnswersFit ==
  ASSUME Inv, NEW i \in DOMAIN requests, NEW slots \in [DOMAIN requests[i].chunks -> 0 .. Now],
         NEW e \in Answers(requests[i], slots)
  PROVE  /\ e.key \in Accounts
         /\ callbacks[e.key] # {}
         /\ e.slot \in 1 .. Now
         /\ \E c \in DOMAIN slots : e.slot = slots[c]
         /\ e.buffer = chain[e.key][e.slot]
<1> DEFINE r == requests[i]
<1>1. r \in BatchRequests /\ RequestFits(r) /\ Now \in Nat
  BY DEF Inv, RequestsInv, ChainInv
<1>2. PICK c \in DOMAIN r.chunks, j \in 1 .. setup.size :
        /\ slots[c] # 0
        /\ j \in DOMAIN r.chunks[c]
        /\ r.chunks[c][j] \notin r.empty
        /\ e = [key |-> r.chunks[c][j], buffer |-> chain[r.args[c][j]][slots[c]], slot |-> slots[c]]
  BY DEF Answers
<1> HIDE DEF r
<1>3. e.key = r.chunks[c][j] /\ e.slot = slots[c] /\ e.buffer = chain[r.args[c][j]][slots[c]]
  BY <1>2
<1>4. r.args = r.chunks /\ callbacks[r.chunks[c][j]] # {}
  BY <1>1, <1>2 DEF RequestFits
<1>5. r.chunks[c][j] \in Accounts
  BY <1>1, <1>2 DEF BatchRequests
<1>6. slots[c] \in 1 .. Now
  BY <1>1, <1>2 DEF r
<1>7. c \in DOMAIN slots
  BY <1>2 DEF r
<1> QED
  BY <1>3, <1>4, <1>5, <1>6, <1>7

(* The loader's callback moves a copy to a slot that is not older.         *)
LEMMA CallbackAdvances ==
  ASSUME Inv, NEW s \in Subscribers, NEW e, e.slot \in 1 .. Now,
         e.buffer = chain[Account(s)][e.slot], user'[s] = Callback(user[s], e)
  PROVE  user'[s] = user[s] \/ View!Advances(s)
<1>1. user[s] \in Copies /\ Account(s) \in Accounts /\ Len(chain[Account(s)]) = Now /\ Now \in Nat
  BY SetupAssumption DEF Inv, ChainInv, Account
<1>2. CASE e.buffer = NoData \/ IsNewer(user[s], e.slot)
  BY <1>2 DEF Callback
<1>3. CASE ~ (e.buffer = NoData \/ IsNewer(user[s], e.slot))
  <2>1. user'[s] = [data |-> e.buffer, slot |-> e.slot]
    BY <1>3 DEF Callback
  <2>2. user[s] = NoCopy \/ user[s].slot = NoSlot \/ e.slot >= user[s].slot
    BY <1>1, <1>3 DEF IsNewer, Copies
  <2>3. chain[Account(s)][e.slot] # NoData
    BY <1>3
  <2> QED
    BY <1>1, <2>1, <2>2, <2>3 DEF View!Advances, View!MayReplace, View!CopyAt
<1> QED
  BY <1>2, <1>3

(* An answer is stored and passed on.                                      *)
LEMMA AnswerStep ==
  ASSUME Inv, NEW i \in DOMAIN requests, NEW slots \in [DOMAIN requests[i].chunks -> 0 .. Now],
         Answer(i, slots)
  PROVE  Inv' /\ View!Refresh
<1> DEFINE stored == {e \in Answers(requests[i], slots) : IsStored(e)}
<1>1. /\ bufferAndSlotMap' = Stored(stored)
      /\ user' = CalledBack(stored)
      /\ mostRecentSlot' =
            CHOOSE n \in {mostRecentSlot} \cup {slots[c] : c \in DOMAIN slots} :
                \A c \in DOMAIN slots : n >= mostRecentSlot /\ n >= slots[c]
      /\ requests' = Without(requests, i)
      /\ UNCHANGED <<setup, chain, accountsToLoad, callbacks>>
  BY DEF Answer, ChunkDone
<1>2. ASSUME NEW e \in stored
      PROVE  /\ e.key \in Accounts
             /\ callbacks[e.key] # {}
             /\ e.slot \in 1 .. Now
             /\ \E c \in DOMAIN slots : e.slot = slots[c]
             /\ e.buffer = chain[e.key][e.slot]
  BY AnswersFit
<1> HIDE DEF stored
<1>3. Now \in Nat /\ mostRecentSlot \in 0 .. Now /\ UNCHANGED Now
  BY <1>1 DEF Inv, ChainInv, Now
<1>4. /\ mostRecentSlot' \in 0 .. Now
      /\ mostRecentSlot' >= mostRecentSlot
      /\ \A c \in DOMAIN slots : mostRecentSlot' >= slots[c]
  <2> DEFINE seen == {mostRecentSlot} \cup {slots[c] : c \in DOMAIN slots}
  <2>1. seen \in SUBSET Nat /\ seen # {} /\ \A n \in seen : n <= Now
    BY <1>3
  <2>2. \E n \in seen : \A m \in seen : m <= n
    <3> HIDE DEF seen
    <3> QED
      BY <1>3, <2>1, GreatestElement
  <2>3. \E n \in seen : \A c \in DOMAIN slots : n >= mostRecentSlot /\ n >= slots[c]
    BY <1>3, <2>1, <2>2
  <2>4. mostRecentSlot' \in seen /\ \A c \in DOMAIN slots : mostRecentSlot' >= mostRecentSlot /\ mostRecentSlot' >= slots[c]
    BY <1>1, <2>3
  <2>5. CASE DOMAIN slots = {}
    BY <1>3, <2>4, <2>5
  <2>6. CASE DOMAIN slots # {}
    BY <1>3, <2>1, <2>4, <2>6
  <2> QED
    BY <2>5, <2>6
<1>5. RequestsInv'
  BY <1>1, OneRequestLess
<1>6. LoaderInv'
  BY <1>1 DEF Inv, LoaderInv, Account
<1>7. CacheInv'
  <2>1. DOMAIN bufferAndSlotMap' \subseteq Accounts
    BY <1>1, <1>2 DEF Stored, Inv, CacheInv
  <2>2. ASSUME NEW key \in DOMAIN bufferAndSlotMap'
        PROVE  /\ callbacks[key] # {}
               /\ bufferAndSlotMap'[key].slot \in 1 .. mostRecentSlot'
               /\ bufferAndSlotMap'[key].buffer = chain[key][bufferAndSlotMap'[key].slot]
    <3>1. CASE \E e \in stored : e.key = key
      <4> DEFINE e == CHOOSE e \in stored : e.key = key
      <4>1. e \in stored /\ e.key = key
        BY <3>1
      <4>2. bufferAndSlotMap'[key] = [buffer |-> e.buffer, slot |-> e.slot]
        BY <1>1, <3>1 DEF Stored
      <4> HIDE DEF e
      <4>3. /\ callbacks[e.key] # {}
            /\ e.slot \in 1 .. Now
            /\ \E c \in DOMAIN slots : e.slot = slots[c]
            /\ e.buffer = chain[e.key][e.slot]
        BY <1>2, <4>1
      <4>4. e.slot \in 1 .. mostRecentSlot'
        BY <1>3, <1>4, <4>3
      <4> QED
        BY <4>1, <4>2, <4>3, <4>4
    <3>2. CASE ~ \E e \in stored : e.key = key
      <4>1. key \in DOMAIN bufferAndSlotMap /\ bufferAndSlotMap'[key] = bufferAndSlotMap[key]
        BY <1>1, <3>2 DEF Stored
      <4> QED
        BY <1>3, <1>4, <4>1 DEF Inv, CacheInv, CacheFits
    <3> QED
      BY <3>1, <3>2
  <2> QED
    BY <1>1, <2>1, <2>2 DEF CacheInv, CacheFits
<1>8. ASSUME NEW s \in Subscribers
      PROVE  user'[s] = user[s] \/ View!Advances(s)
  <2>1. CASE \E e \in stored : s \in callbacks[e.key]
    <3> DEFINE e == CHOOSE e \in stored : s \in callbacks[e.key]
    <3>1. e \in stored /\ s \in callbacks[e.key]
      BY <2>1
    <3>2. user'[s] = Callback(user[s], e)
      BY <1>1, <2>1 DEF CalledBack
    <3> HIDE DEF e
    <3>3. Account(s) = e.key
      BY <1>2, <3>1 DEF Inv, LoaderInv
    <3>4. e.slot \in 1 .. Now /\ e.buffer = chain[Account(s)][e.slot]
      BY <1>2, <3>1, <3>3
    <3> QED
      BY <3>2, <3>4, CallbackAdvances
  <2>2. CASE ~ \E e \in stored : s \in callbacks[e.key]
    BY <1>1, <2>2 DEF CalledBack
  <2> QED
    BY <2>1, <2>2
<1>9. View!Refresh
  BY <1>1, <1>8 DEF View!Refresh, Account
<1>10. ChainInv'
  <2>1. user' \in [Subscribers -> Copies]
    <3>1. user' = [s \in Subscribers |-> user'[s]]
      BY <1>1 DEF CalledBack
    <3>2. ASSUME NEW s \in Subscribers PROVE user'[s] \in Copies
      <4>1. user[s] \in Copies /\ Account(s) \in Accounts /\ Len(chain[Account(s)]) = Now
            /\ chain[Account(s)] \in Seq(Contents)
        BY SetupAssumption DEF Inv, ChainInv, Account
      <4>2. CASE View!Advances(s)
        BY <1>3, <4>1, <4>2 DEF View!Advances, View!CopyAt, Copies
      <4> QED
        BY <1>8, <4>1, <4>2
    <3> QED
      BY <3>1, <3>2
  <2> QED
    BY <1>1, <1>3, <1>4, <2>1 DEF Inv, ChainInv
<1> QED
  BY <1>5, <1>6, <1>7, <1>9, <1>10 DEF Inv

(* A request times out.                                                    *)
LEMMA TimedOutStep ==
  ASSUME Inv, NEW i \in DOMAIN requests, TimedOut(i)
  PROVE  Inv' /\ View!Refresh
<1>1. requests' = Without(requests, i)
      /\ UNCHANGED <<setup, chain, accountsToLoad, callbacks, bufferAndSlotMap, mostRecentSlot, user>>
  BY DEF TimedOut, ChunkDone, loader
<1>2. RequestsInv'
  BY <1>1, OneRequestLess
<1>3. ChainInv' /\ LoaderInv' /\ CacheInv'
  BY <1>1 DEF Inv, ChainInv, LoaderInv, CacheInv, CacheFits, Now, Account
<1> QED
  BY <1>1, <1>2, <1>3, NothingToSee DEF Inv

(* A request fails and its load ends.                                      *)
LEMMA FailedStep ==
  ASSUME Inv, NEW i \in DOMAIN requests, Failed(i)
  PROVE  Inv' /\ View!Refresh
<1> DEFINE rest == Without(requests, i)
<1>1. /\ requests' = [k \in DOMAIN rest |->
            IF requests[i].load # 0 /\ rest[k].load = requests[i].load
            THEN [rest[k] EXCEPT !.load = 0] ELSE rest[k]]
      /\ UNCHANGED <<setup, chain, accountsToLoad, callbacks, bufferAndSlotMap, mostRecentSlot, user>>
  BY DEF Failed, loader
<1>2. /\ requests \in Seq(BatchRequests) /\ Len(requests) <= MaxRequests
      /\ \A k \in DOMAIN requests : RequestFits(requests[k])
      /\ Len(requests) \in Nat /\ DOMAIN requests = 1 .. Len(requests)
  BY DEF Inv, RequestsInv
<1>3. /\ rest \in Seq(BatchRequests)
      /\ Len(rest) = Len(requests) - 1
      /\ \A k \in 1 .. Len(requests) - 1 :
           rest[k] = IF k < i THEN requests[k] ELSE requests[k + 1]
  BY <1>2, WithoutElements
<1> HIDE DEF rest
<1>4. ASSUME NEW k \in DOMAIN rest
      PROVE  requests'[k] \in BatchRequests /\ RequestFits(requests[k])'
  <2>1. rest[k] \in BatchRequests
    BY <1>3
  <2>2. RequestFits(rest[k])
    BY <1>2, <1>3
  <2>3. 0 \in 0 .. MaxRequests + 1
    BY SetupAssumption
  <2>4. /\ requests'[k] \in BatchRequests
        /\ requests'[k].chunks = rest[k].chunks
        /\ requests'[k].empty = rest[k].empty
        /\ requests'[k].args = rest[k].args
    BY <1>1, <2>1, <2>3 DEF BatchRequests
  <2> QED
    BY <1>1, <2>2, <2>4 DEF RequestFits
<1>5. requests' \in Seq(BatchRequests) /\ Len(requests') = Len(requests) - 1 /\ DOMAIN requests' = DOMAIN rest
  <2>1. DOMAIN rest = 1 .. Len(rest) /\ Len(rest) \in Nat /\ DOMAIN requests' = DOMAIN rest
    BY <1>1, <1>3
  <2>2. requests' \in [1 .. Len(rest) -> BatchRequests]
    BY <1>1, <1>4, <2>1
  <2> QED
    BY <1>3, <2>1, <2>2
<1>6. RequestsInv'
  BY <1>2, <1>4, <1>5, SetupAssumption DEF RequestsInv
<1>7. ChainInv' /\ LoaderInv' /\ CacheInv'
  BY <1>1 DEF Inv, ChainInv, LoaderInv, CacheInv, CacheFits, Now, Account
<1> QED
  BY <1>1, <1>6, <1>7, NothingToSee DEF Inv

(* A subscriber subscribes, with or without a copy of its own.             *)
LEMMA SubscribeStep ==
  ASSUME Inv, NEW s \in Subscribers, Subscribe(s)
  PROVE  Inv' /\ View!Refresh
<1>1. /\ callbacks' = [callbacks EXCEPT ![Account(s)] = @ \cup {s}]
      /\ accountsToLoad' = IF callbacks[Account(s)] = {}
                           THEN Append(accountsToLoad, Account(s)) ELSE accountsToLoad
      /\ UNCHANGED <<setup, chain, bufferAndSlotMap, mostRecentSlot, requests>>
  BY DEF Subscribe, AddAccount, polling
<1>2. Account(s) \in Accounts /\ callbacks \in [Accounts -> SUBSET Subscribers]
      /\ accountsToLoad \in Seq(Accounts) /\ DOMAIN accountsToLoad = 1 .. Len(accountsToLoad)
      /\ Len(accountsToLoad) \in Nat
  BY SetupAssumption DEF Inv, ChainInv, LoaderInv, Account
<1>3. callbacks' \in [Accounts -> SUBSET Subscribers]
      /\ \A a \in Accounts : callbacks'[a] = IF a = Account(s) THEN callbacks[a] \cup {s} ELSE callbacks[a]
  BY <1>1, <1>2
<1>4. LoaderInv'
  <2>1. \A a \in Accounts : \A t \in callbacks'[a] : Account(t)' = a
    BY <1>1, <1>3 DEF Inv, LoaderInv, Account
  <2>2. CASE callbacks[Account(s)] = {}
    <3>1. /\ accountsToLoad' \in Seq(Accounts)
          /\ DOMAIN accountsToLoad' = 1 .. Len(accountsToLoad) + 1
          /\ \A i \in DOMAIN accountsToLoad : accountsToLoad'[i] = accountsToLoad[i]
          /\ accountsToLoad'[Len(accountsToLoad) + 1] = Account(s)
      BY <1>1, <1>2, <2>2
    <3>2. \A i \in DOMAIN accountsToLoad : accountsToLoad[i] # Account(s)
      BY <2>2 DEF Inv, LoaderInv
    <3>3. \A i, j \in DOMAIN accountsToLoad' : accountsToLoad'[i] = accountsToLoad'[j] => i = j
      <4>1. ASSUME NEW i \in DOMAIN accountsToLoad', NEW j \in DOMAIN accountsToLoad',
                   accountsToLoad'[i] = accountsToLoad'[j]
            PROVE  i = j
        <5>1. \A k \in DOMAIN accountsToLoad' : k \in DOMAIN accountsToLoad \/ k = Len(accountsToLoad) + 1
          BY <1>2, <3>1
        <5>2. CASE i \in DOMAIN accountsToLoad /\ j \in DOMAIN accountsToLoad
          BY <3>1, <4>1, <5>2 DEF Inv, LoaderInv
        <5> QED
          BY <3>1, <3>2, <4>1, <5>1, <5>2
      <4> QED
        BY <4>1
    <3>4. \A i \in DOMAIN accountsToLoad' : callbacks'[accountsToLoad'[i]] # {}
      <4>1. ASSUME NEW i \in DOMAIN accountsToLoad PROVE callbacks'[accountsToLoad'[i]] # {}
        <5>1. accountsToLoad[i] \in Accounts /\ callbacks[accountsToLoad[i]] # {}
          BY <1>2 DEF Inv, LoaderInv
        <5> QED
          BY <1>3, <3>1, <5>1
      <4>2. callbacks'[accountsToLoad'[Len(accountsToLoad) + 1]] # {}
        BY <1>2, <1>3, <3>1
      <4> QED
        BY <1>2, <3>1, <4>1, <4>2
    <3>5. ASSUME NEW a \in Accounts, callbacks'[a] # {}
          PROVE  \E i \in DOMAIN accountsToLoad' : accountsToLoad'[i] = a
      <4>1. CASE a = Account(s)
        BY <1>2, <3>1, <4>1
      <4>2. CASE a # Account(s)
        <5>1. PICK i \in DOMAIN accountsToLoad : accountsToLoad[i] = a
          BY <1>3, <3>5, <4>2 DEF Inv, LoaderInv
        <5>2. i \in DOMAIN accountsToLoad' /\ accountsToLoad'[i] = a
          BY <1>2, <3>1, <5>1
        <5> QED
          BY <5>2
      <4> QED
        BY <4>1, <4>2
    <3> QED
      BY <1>3, <2>1, <3>1, <3>3, <3>4, <3>5 DEF LoaderInv
  <2>3. CASE callbacks[Account(s)] # {}
    <3>1. accountsToLoad' = accountsToLoad
      BY <1>1, <2>3
    <3>2. \A a \in Accounts : callbacks'[a] # {} <=> callbacks[a] # {}
      BY <1>3, <2>3
    <3>3. \A i \in DOMAIN accountsToLoad : accountsToLoad[i] \in Accounts
      BY <1>2
    <3> QED
      BY <1>3, <2>1, <3>1, <3>2, <3>3 DEF Inv, LoaderInv
  <2> QED
    BY <2>2, <2>3
<1>5. RequestsInv'
  <2>1. ASSUME NEW i \in DOMAIN requests PROVE RequestFits(requests[i])'
    <3>1. requests[i] \in BatchRequests /\ RequestFits(requests[i])
      BY DEF Inv, RequestsInv
    <3>2. \A c \in DOMAIN requests[i].chunks : \A j \in DOMAIN requests[i].chunks[c] :
            requests[i].chunks[c][j] \in Accounts
      BY <3>1 DEF BatchRequests
    <3>3. \A a \in Accounts : callbacks[a] # {} => callbacks'[a] # {}
      BY <1>3
    <3> QED
      BY <1>1, <3>1, <3>2, <3>3 DEF RequestFits
  <2> QED
    BY <1>1, <2>1 DEF Inv, RequestsInv
<1>6. CacheInv'
  BY <1>1, <1>3 DEF Inv, CacheInv, CacheFits
<1>7. user' = user \/ \E n \in 1 .. Now : /\ chain[Account(s)][n] # NoData
                                         /\ user' = [user EXCEPT ![s] = [data |-> chain[Account(s)][n], slot |-> NoSlot]]
  BY DEF Subscribe
<1>8. Len(chain[Account(s)]) = Now /\ chain[Account(s)] \in Seq(Contents) /\ user \in [Subscribers -> Copies]
  BY <1>2 DEF Inv, ChainInv
<1>9. ChainInv' /\ View!Refresh
  <2>1. CASE user' = user
    BY <1>1, <2>1, NothingToSee DEF Inv, ChainInv, Now
  <2>2. ASSUME NEW n \in 1 .. Now, chain[Account(s)][n] # NoData,
               user' = [user EXCEPT ![s] = [data |-> chain[Account(s)][n], slot |-> NoSlot]]
        PROVE  ChainInv' /\ View!Refresh
    <3>1. user' \in [Subscribers -> Copies]
      BY <1>8, <2>2 DEF Copies
    <3>2. ChainInv'
      BY <1>1, <3>1 DEF Inv, ChainInv, Now
    <3>3. View!HandedIn(s)
      BY <1>8, <2>2 DEF View!HandedIn
    <3>4. \A t \in Subscribers : t # s => user'[t] = user[t]
      BY <1>8, <2>2
    <3> QED
      BY <1>1, <3>2, <3>3, <3>4 DEF View!Refresh, Account
  <2> QED
    BY <1>7, <2>1, <2>2
<1> QED
  BY <1>4, <1>5, <1>6, <1>9 DEF Inv

(* A subscriber leaves; with the last one of an account its key goes, and  *)
(* the objects in the requests under way become empty.                     *)
LEMMA UnsubscribeStep ==
  ASSUME Inv, NEW s \in Subscribers, Unsubscribe(s)
  PROVE  Inv' /\ View!Refresh
<1>1. /\ callbacks' = [callbacks EXCEPT ![Account(s)] = @ \ {s}]
      /\ UNCHANGED <<setup, chain, mostRecentSlot, user>>
  BY DEF Unsubscribe
<1>2. Account(s) \in Accounts /\ callbacks \in [Accounts -> SUBSET Subscribers]
      /\ accountsToLoad \in Seq(Accounts) /\ DOMAIN accountsToLoad = 1 .. Len(accountsToLoad)
      /\ Len(accountsToLoad) \in Nat
  BY SetupAssumption DEF Inv, ChainInv, LoaderInv, Account
<1>3. callbacks' \in [Accounts -> SUBSET Subscribers]
      /\ \A a \in Accounts : callbacks'[a] = IF a = Account(s) THEN callbacks[a] \ {s} ELSE callbacks[a]
  BY <1>1, <1>2
<1>4. \A a \in Accounts : \A t \in callbacks'[a] : Account(t)' = a
  BY <1>1, <1>3 DEF Inv, LoaderInv, Account
<1>5. ASSUME NEW i \in DOMAIN requests
      PROVE  /\ requests[i] \in BatchRequests
             /\ RequestFits(requests[i])
             /\ \A c \in DOMAIN requests[i].chunks : \A j \in DOMAIN requests[i].chunks[c] :
                  requests[i].chunks[c][j] \in Accounts
  <2>1. requests[i] \in BatchRequests /\ RequestFits(requests[i])
    BY DEF Inv, RequestsInv
  <2> QED
    BY <2>1 DEF BatchRequests
<1>6. ChainInv' /\ View!Refresh
  BY <1>1, NothingToSee DEF Inv, ChainInv, Now
<1>7. CASE callbacks[Account(s)] = {s}
  <2>1. PICK p \in DOMAIN accountsToLoad :
          /\ accountsToLoad[p] = Account(s)
          /\ accountsToLoad' = Without(accountsToLoad, p)
    BY <1>7 DEF Unsubscribe
  <2>2. /\ bufferAndSlotMap' = [key \in (DOMAIN bufferAndSlotMap) \ {Account(s)} |-> bufferAndSlotMap[key]]
        /\ requests' = [i \in DOMAIN requests |-> [requests[i] EXCEPT !.empty = @ \cup {Account(s)}]]
    BY <1>7 DEF Unsubscribe
  <2>3. \A a \in Accounts : callbacks'[a] # {} <=> a # Account(s) /\ callbacks[a] # {}
    BY <1>3, <1>7
  <2>4. LoaderInv'
    <3> DEFINE n == Len(accountsToLoad) - 1
               old(k) == IF k < p THEN k ELSE k + 1
    <3>1. /\ accountsToLoad' \in Seq(Accounts)
          /\ DOMAIN accountsToLoad' = 1 .. n
          /\ \A k \in 1 .. n : accountsToLoad'[k] = accountsToLoad[old(k)]
      BY <1>2, <2>1, WithoutElements
    <3>2. \A k \in 1 .. n : old(k) \in DOMAIN accountsToLoad /\ old(k) # p
      BY <1>2, <2>1
    <3>3. \A k, m \in 1 .. n : old(k) = old(m) => k = m
      BY <1>2, <2>1
    <3>4. \A q \in DOMAIN accountsToLoad : q # p => \E k \in 1 .. n : old(k) = q
      <4>1. ASSUME NEW q \in DOMAIN accountsToLoad, q # p PROVE \E k \in 1 .. n : old(k) = q
        <5>1. CASE q < p
          BY <1>2, <2>1, <5>1
        <5>2. CASE q > p
          <6>1. q - 1 \in 1 .. n /\ old(q - 1) = q
            BY <1>2, <2>1, <5>2
          <6> QED
            BY <6>1
        <5> QED
          BY <1>2, <2>1, <4>1, <5>1, <5>2
      <4> QED
        BY <4>1
    <3> HIDE DEF n, old
    <3>5. \A i, j \in DOMAIN accountsToLoad : accountsToLoad[i] = accountsToLoad[j] => i = j
      BY DEF Inv, LoaderInv
    <3>6. \A i, j \in DOMAIN accountsToLoad' : accountsToLoad'[i] = accountsToLoad'[j] => i = j
      BY <3>1, <3>2, <3>3, <3>5
    <3>7. ASSUME NEW k \in DOMAIN accountsToLoad' PROVE callbacks'[accountsToLoad'[k]] # {}
      <4>1. accountsToLoad[old(k)] # Account(s)
        BY <2>1, <3>1, <3>2, <3>5
      <4>2. accountsToLoad[old(k)] \in Accounts /\ callbacks[accountsToLoad[old(k)]] # {}
        BY <1>2, <3>1, <3>2 DEF Inv, LoaderInv
      <4> QED
        BY <2>3, <3>1, <4>1, <4>2
    <3>8. ASSUME NEW a \in Accounts, callbacks'[a] # {}
          PROVE  \E i \in DOMAIN accountsToLoad' : accountsToLoad'[i] = a
      <4>1. PICK q \in DOMAIN accountsToLoad : accountsToLoad[q] = a
        BY <2>3, <3>8 DEF Inv, LoaderInv
      <4>2. q # p
        BY <2>1, <2>3, <3>8, <4>1
      <4>3. PICK k \in 1 .. n : old(k) = q
        BY <3>4, <4>2
      <4> QED
        BY <3>1, <4>1, <4>3
    <3> QED
      BY <1>3, <1>4, <3>1, <3>6, <3>7, <3>8 DEF LoaderInv
  <2>5. ASSUME NEW i \in DOMAIN requests
        PROVE  requests'[i] \in BatchRequests /\ RequestFits(requests[i])'
    <3>1. /\ requests'[i] \in BatchRequests
          /\ requests'[i].chunks = requests[i].chunks
          /\ requests'[i].empty = requests[i].empty \cup {Account(s)}
          /\ requests'[i].args = requests[i].args
      BY <1>2, <1>5, <2>2 DEF BatchRequests
    <3> QED
      BY <1>5, <2>3, <3>1 DEF RequestFits
  <2>6. RequestsInv'
    <3>1. requests \in Seq(BatchRequests) /\ Len(requests) <= MaxRequests
          /\ DOMAIN requests = 1 .. Len(requests) /\ Len(requests) \in Nat
      BY DEF Inv, RequestsInv
    <3>2. requests' \in [1 .. Len(requests) -> BatchRequests] /\ DOMAIN requests' = DOMAIN requests
      BY <2>2, <2>5, <3>1
    <3>3. requests' \in Seq(BatchRequests) /\ Len(requests') = Len(requests)
      BY <3>1, <3>2
    <3> QED
      BY <2>5, <3>1, <3>2, <3>3 DEF RequestsInv
  <2>7. CacheInv'
    BY <1>1, <2>2, <2>3 DEF Inv, CacheInv, CacheFits
  <2> QED
    BY <1>6, <2>4, <2>6, <2>7 DEF Inv
<1>8. CASE callbacks[Account(s)] # {s}
  <2>1. UNCHANGED <<accountsToLoad, bufferAndSlotMap, requests>>
    BY <1>8 DEF Unsubscribe
  <2>2. \A a \in Accounts : callbacks'[a] # {} <=> callbacks[a] # {}
    BY <1>3, <1>8
  <2>3. \A i \in DOMAIN accountsToLoad : accountsToLoad[i] \in Accounts
    BY <1>2
  <2>4. LoaderInv'
    BY <1>3, <1>4, <2>1, <2>2, <2>3 DEF Inv, LoaderInv
  <2>5. \A i \in DOMAIN requests : RequestFits(requests[i])'
    BY <1>5, <2>1, <2>2 DEF RequestFits
  <2>6. RequestsInv'
    BY <2>1, <2>5 DEF Inv, RequestsInv
  <2>7. CacheInv'
    BY <1>1, <2>1, <2>2 DEF Inv, CacheInv, CacheFits
  <2> QED
    BY <1>6, <2>4, <2>6, <2>7 DEF Inv
<1> QED
  BY <1>7, <1>8

(* The invariant speaks of the loader, its requests and the copies only.   *)
LEMMA InvUnchanged ==
  ASSUME Inv,
         UNCHANGED <<setup, chain, accountsToLoad, callbacks, bufferAndSlotMap, mostRecentSlot, requests, user>>
  PROVE  Inv'
<1>1. ChainInv'
  BY DEF Inv, ChainInv, Now
<1>2. LoaderInv'
  BY DEF Inv, LoaderInv, Account
<1>3. \A i \in DOMAIN requests : RequestFits(requests[i])'
  BY DEF Inv, RequestsInv, RequestFits
<1>4. RequestsInv'
  BY <1>3 DEF Inv, RequestsInv
<1>5. CacheInv'
  BY DEF Inv, CacheInv, CacheFits
<1> QED
  BY <1>1, <1>2, <1>4, <1>5 DEF Inv

(* A step that changes the copy of one subscriber only, and advances it.   *)
LEMMA OneAdvances ==
  ASSUME Inv, NEW s \in Subscribers, NEW n \in 1 .. Now, NEW copy,
         user' = [user EXCEPT ![s] = copy],
         copy = user[s] \/ (/\ chain[Account(s)][n] # NoData
                            /\ copy = [data |-> chain[Account(s)][n], slot |-> n]
                            /\ \/ user[s] = NoCopy \/ user[s].slot = NoSlot
                               \/ n >= user[s].slot),
         UNCHANGED <<setup, chain, loader, requests>>
  PROVE  Inv' /\ View!Refresh
<1>1. /\ Account(s) \in Accounts /\ user \in [Subscribers -> Copies] /\ Now \in Nat
      /\ Len(chain[Account(s)]) = Now /\ chain[Account(s)] \in Seq(Contents)
  BY SetupAssumption DEF Inv, ChainInv, Account
<1>2. copy \in Copies
  BY <1>1 DEF Copies
<1>3. user' \in [Subscribers -> Copies] /\ user'[s] = copy /\ \A t \in Subscribers : t # s => user'[t] = user[t]
  BY <1>1, <1>2
<1>4. user'[s] = user[s] \/ View!Advances(s)
  BY <1>1, <1>3 DEF View!Advances, View!MayReplace, View!CopyAt
<1>5. View!Refresh
  BY <1>3, <1>4 DEF View!Refresh, Account
<1>6. ChainInv'
  BY <1>3 DEF Inv, ChainInv, Now, loader
<1>7. LoaderInv' /\ RequestsInv' /\ CacheInv'
  BY DEF Inv, LoaderInv, RequestsInv, RequestFits, CacheInv, CacheFits, Account, loader
<1> QED
  BY <1>5, <1>6, <1>7 DEF Inv

(* A fetch is answered, or fails.                                          *)
LEMMA FetchStep ==
  ASSUME Inv, NEW s \in Subscribers, Fetch(s)
  PROVE  Inv' /\ View!Refresh
<1>1. UNCHANGED <<setup, chain, loader, requests>>
  BY DEF Fetch, polling
<1>2. ASSUME NEW n \in 1 .. Now, user' = [user EXCEPT ![s] = Fetched(@, chain[Account(s)][n], n)]
      PROVE  Inv' /\ View!Refresh
  <2>1. user[s] \in Copies /\ n \in Nat /\ user \in [Subscribers -> Copies]
    BY DEF Inv, ChainInv
  <2>2. user' = [user EXCEPT ![s] = Fetched(user[s], chain[Account(s)][n], n)]
    BY <1>2, <2>1
  <2>3. \/ Fetched(user[s], chain[Account(s)][n], n) = user[s]
        \/ /\ chain[Account(s)][n] # NoData
           /\ Fetched(user[s], chain[Account(s)][n], n) = [data |-> chain[Account(s)][n], slot |-> n]
           /\ user[s] = NoCopy \/ user[s].slot = NoSlot \/ n >= user[s].slot
    BY <2>1 DEF Fetched, Copies
  <2> QED
    BY <1>1, <2>2, <2>3, OneAdvances
<1>3. CASE user' = user
  BY <1>1, <1>3, InvUnchanged, NothingToSee DEF loader
<1> QED
  BY <1>2, <1>3 DEF Fetch

(* A client brings an update.                                              *)
LEMMA UpdateDataStep ==
  ASSUME Inv, NEW s \in Subscribers, UpdateData(s)
  PROVE  Inv' /\ View!Refresh
<1>1. PICK n \in 1 .. Now :
        /\ chain[Account(s)][n] # NoData
        /\ user' = [user EXCEPT ![s] = Updated(@, chain[Account(s)][n], n)]
        /\ UNCHANGED <<setup, chain, loader, requests>>
  BY DEF UpdateData, polling
<1>2. user[s] \in Copies /\ n \in Nat /\ user \in [Subscribers -> Copies]
  BY DEF Inv, ChainInv
<1>3. user' = [user EXCEPT ![s] = Updated(user[s], chain[Account(s)][n], n)]
  BY <1>1, <1>2
<1>4. \/ Updated(user[s], chain[Account(s)][n], n) = user[s]
      \/ /\ Updated(user[s], chain[Account(s)][n], n) = [data |-> chain[Account(s)][n], slot |-> n]
         /\ user[s] = NoCopy \/ user[s].slot = NoSlot \/ n >= user[s].slot
  BY <1>2 DEF Updated, Copies
<1> QED
  BY <1>1, <1>3, <1>4, OneAdvances

(* Every step keeps the invariant and is a step of AccountView.            *)
LEMMA NextStep ==
  ASSUME Inv, [Next]_vars
  PROVE  Inv' /\ [View!Next]_<<[s \in Subscribers |-> chain[Account(s)]], user>>
<1>1. CASE NewSlot
  BY <1>1, NewSlotStep DEF View!Next
<1>2. CASE Load
  BY <1>2, LoadStep DEF View!Next
<1>3. ASSUME NEW i \in DOMAIN requests, Answered(i)
      PROVE  Inv' /\ View!Next
  BY <1>3, AnswerStep DEF Answered, View!Next
<1>4. ASSUME NEW i \in DOMAIN requests, TimedOut(i)
      PROVE  Inv' /\ View!Next
  BY <1>4, TimedOutStep DEF View!Next
<1>5. ASSUME NEW i \in DOMAIN requests, Failed(i)
      PROVE  Inv' /\ View!Next
  BY <1>5, FailedStep DEF View!Next
<1>6. ASSUME NEW s \in Subscribers, Subscribe(s) \/ Unsubscribe(s) \/ Fetch(s) \/ UpdateData(s)
      PROVE  Inv' /\ View!Next
  BY <1>6, SubscribeStep, UnsubscribeStep, FetchStep, UpdateDataStep DEF View!Next
<1>7. CASE UNCHANGED vars
  BY <1>7, InvUnchanged, NothingToSee DEF View!Next, vars, loader, polling
<1> QED
  BY <1>1, <1>2, <1>3, <1>4, <1>5, <1>6, <1>7 DEF Next

(* bulkAccountLoader.ts:74-89, 194-231: the cache holds, for accounts that *)
(* somebody asks for and for no other, what the chain held for that very   *)
(* account at the slot stored with it.                                     *)
THEOREM CacheFitsTheorem == Spec => []CacheFits
<1>1. Init => Inv
  BY InitInv
<1>2. Inv /\ [Next]_vars => Inv'
  BY NextStep
<1>3. Inv => CacheFits
  BY DEF Inv, CacheInv
<1> QED
  BY <1>1, <1>2, <1>3, PTL DEF Spec

(* pollingUserAccountSubscriber.ts:63-112, 152-158: whatever the order of  *)
(* polls, fetches and updates, the copy of a subscriber is what the chain  *)
(* held for its account at the slot of the copy, and never goes back.      *)
THEOREM ImplementsSafeView == Spec => View!SafetySpec
<1>1. Init => Inv /\ View!Init
  <2>1. Init => View!Init
    BY SetupAssumption DEF Init, View!Init, Account
  <2> QED
    BY <2>1, InitInv
<1>2. Inv /\ [Next]_vars => Inv' /\ [View!Next]_<<[s \in Subscribers |-> chain[Account(s)]], user>>
  BY NextStep
<1> QED
  BY <1>1, <1>2, PTL DEF Spec, View!SafetySpec
===============================================================================
