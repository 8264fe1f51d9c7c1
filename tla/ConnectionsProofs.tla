------------------------- MODULE ConnectionsProofs -------------------------
(***************************************************************************)
(* The caches of connection.py, for any number of threads, calls, specs and *)
(* keys: they stay within their bounds with one entry per key, and a        *)
(* process that uses no more specs and keys than there are places keeps     *)
(* every connection it opened.  While the environment's key only moves      *)
(* forward, no connection that connect or an unpinned open_table returns is *)
(* older than the call, whichever thread filled, evicted or cleared the     *)
(* cache.  And a listing, page by page beside other clients that create and *)
(* drop tables, names exactly what it should.                               *)
(***************************************************************************)
EXTENDS Connections, SequenceProofs, FiniteSetTheorems

-----------------------------------------------------------------------------
(* functools.lru_cache, on sequences.                                       *)

(* A hit moves its entry to the end and keeps the others in order.          *)
LEMMA TouchMoves ==
  ASSUME NEW S, NEW cache \in Seq(S), NEW i \in DOMAIN cache
  PROVE  /\ Touch(cache, i) \in Seq(S)
         /\ Len(Touch(cache, i)) = Len(cache)
         /\ \A j \in 1..Len(cache) :
              Touch(cache, i)[j] =
                cache[IF j = Len(cache) THEN i ELSE IF j < i THEN j ELSE j + 1]
<1> DEFINE n == Len(cache)
           front == SubSeq(cache, 1, i - 1)
           back == SubSeq(cache, i + 1, n)
<1>1. n \in Nat /\ DOMAIN cache = 1..n /\ i \in 1..n /\ \A j \in 1..n : cache[j] \in S
  BY LenProperties, ElementOfSeq
<1> HIDE DEF n
<1>2. /\ front \in Seq(S) /\ Len(front) = i - 1
      /\ \A j \in 1..(i - 1) : front[j] = cache[j]
  <2>1. \A j \in 1..(i - 1) : cache[j] \in S
    BY <1>1
  <2>2. 1 \in Int /\ i - 1 \in Int
    BY <1>1
  <2>3. /\ front \in Seq(S)
        /\ Len(front) = IF 1 <= i - 1 THEN (i - 1) - 1 + 1 ELSE 0
        /\ \A j \in 1..((i - 1) - 1 + 1) : front[j] = cache[1 + j - 1]
    BY <2>1, <2>2, SubSeqProperties
  <2>4. QED
    BY <1>1, <2>3
<1>3. /\ back \in Seq(S) /\ Len(back) = n - i
      /\ \A j \in 1..(n - i) : back[j] = cache[i + j]
  <2>1. \A j \in (i + 1)..n : cache[j] \in S
    BY <1>1
  <2>2. i + 1 \in Int /\ n \in Int
    BY <1>1
  <2>3. /\ back \in Seq(S)
        /\ Len(back) = IF i + 1 <= n THEN n - (i + 1) + 1 ELSE 0
        /\ \A j \in 1..(n - (i + 1) + 1) : back[j] = cache[(i + 1) + j - 1]
    BY <2>1, <2>2, SubSeqProperties
  <2>4. QED
    BY <1>1, <2>3
<1> HIDE DEF front, back
<1>4. /\ front \o back \in Seq(S) /\ Len(front \o back) = n - 1
      /\ \A j \in 1..(n - 1) : (front \o back)[j] = cache[IF j < i THEN j ELSE j + 1]
  <2>1. /\ front \o back \in Seq(S)
        /\ Len(front \o back) = Len(front) + Len(back)
        /\ \A j \in 1..(Len(front) + Len(back)) :
             (front \o back)[j] = IF j <= Len(front) THEN front[j] ELSE back[j - Len(front)]
    BY <1>2, <1>3, ConcatProperties
  <2>2. Len(front) + Len(back) = n - 1
    BY <1>1, <1>2, <1>3
  <2>3. ASSUME NEW j \in 1..(n - 1)
        PROVE  (front \o back)[j] = cache[IF j < i THEN j ELSE j + 1]
    <3>1. (front \o back)[j] = IF j <= i - 1 THEN front[j] ELSE back[j - (i - 1)]
      BY <1>2, <2>1, <2>2
    <3>2. CASE j < i
      BY <1>1, <1>2, <3>1, <3>2
    <3>3. CASE ~(j < i)
      <4>1. j - (i - 1) \in 1..(n - i) /\ i + (j - (i - 1)) = j + 1 /\ ~(j <= i - 1)
        BY <1>1, <3>3
      <4>2. QED
        BY <1>3, <3>1, <3>3, <4>1
    <3>4. QED
      BY <3>2, <3>3
  <2>4. QED
    BY <2>1, <2>2, <2>3
<1>5. Touch(cache, i) = Append(front \o back, cache[i])
  BY DEF Touch, RemoveAt, front, back, n
<1>6. /\ Touch(cache, i) \in Seq(S) /\ Len(Touch(cache, i)) = n
      /\ \A j \in 1..(n - 1) : Touch(cache, i)[j] = (front \o back)[j]
      /\ Touch(cache, i)[n] = cache[i]
  <2>1. cache[i] \in S
    BY <1>1
  <2>2. QED
    BY <1>1, <1>4, <1>5, <2>1, AppendProperties
<1>7. ASSUME NEW j \in 1..n
      PROVE  Touch(cache, i)[j] = cache[IF j = n THEN i ELSE IF j < i THEN j ELSE j + 1]
  <2>1. CASE j = n
    BY <1>6, <2>1
  <2>2. CASE j # n
    <3>1. j \in 1..(n - 1)
      BY <1>1, <2>2
    <3>2. QED
      BY <1>4, <1>6, <2>2, <3>1
  <2>3. QED
    BY <2>1, <2>2
<1>8. QED
  BY <1>6, <1>7 DEF n

(* How many of the oldest entries a new one pushes out.                     *)
Evicted(cache, size) == IF Len(cache) >= size THEN 1 ELSE 0

(* A miss puts its entry at the end, and pushes out at most the oldest.     *)
LEMMA InsertAppends ==
  ASSUME NEW S, NEW cache \in Seq(S), NEW entry \in S, NEW size \in Nat \ {0}
  PROVE  /\ Insert(cache, entry, size) \in Seq(S)
         /\ Len(Insert(cache, entry, size)) = Len(cache) + 1 - Evicted(cache, size)
         /\ \A j \in 1..(Len(cache) - Evicted(cache, size)) :
              Insert(cache, entry, size)[j] = cache[j + Evicted(cache, size)]
         /\ Insert(cache, entry, size)[Len(cache) + 1 - Evicted(cache, size)] = entry
<1>1. Len(cache) \in Nat
  BY LenProperties
<1>2. CASE Len(cache) >= size
  <2>1. cache # <<>>
    BY <1>2, EmptySeq
  <2>2. /\ Tail(cache) \in Seq(S) /\ Len(Tail(cache)) = Len(cache) - 1
        /\ \A j \in 1..Len(Tail(cache)) : Tail(cache)[j] = cache[j + 1]
    BY <2>1, HeadTailProperties
  <2>3. Insert(cache, entry, size) = Append(Tail(cache), entry) /\ Evicted(cache, size) = 1
    BY <1>2 DEF Insert, Evicted
  <2>4. QED
    BY <1>1, <2>2, <2>3, AppendProperties
<1>3. CASE ~(Len(cache) >= size)
  <2>1. Insert(cache, entry, size) = Append(cache, entry) /\ Evicted(cache, size) = 0
    BY <1>3 DEF Insert, Evicted
  <2>2. QED
    BY <1>1, <2>1, AppendProperties
<1>4. QED
  BY <1>2, <1>3

(* The places of the cache afterwards, and the last of them.                *)
LEMMA InsertDomain ==
  ASSUME NEW S, NEW cache \in Seq(S), NEW entry \in S, NEW size \in Nat \ {0}
  PROVE  /\ Len(cache) \in Nat /\ DOMAIN cache = 1..Len(cache)
         /\ Evicted(cache, size) \in {0, 1}
         /\ DOMAIN Insert(cache, entry, size) = 1..(Len(cache) + 1 - Evicted(cache, size))
         /\ Insert(cache, entry, size)[Len(cache) + 1 - Evicted(cache, size)] = entry
<1>1. Len(cache) \in Nat /\ DOMAIN cache = 1..Len(cache)
  BY LenProperties
<1>2. Evicted(cache, size) \in {0, 1}
  BY DEF Evicted
<1>3. /\ Insert(cache, entry, size) \in Seq(S)
      /\ Len(Insert(cache, entry, size)) = Len(cache) + 1 - Evicted(cache, size)
      /\ Insert(cache, entry, size)[Len(cache) + 1 - Evicted(cache, size)] = entry
  BY InsertAppends
<1>4. DOMAIN Insert(cache, entry, size) = 1..(Len(cache) + 1 - Evicted(cache, size))
  BY <1>3, LenProperties
<1>5. QED
  BY <1>1, <1>2, <1>3, <1>4

-----------------------------------------------------------------------------
(* Types, and what a thread is doing.                                       *)

(* Only a pinned open looks for a handle, and only clear_connection_cache   *)
(* clears.                                                                  *)
CallOK(t) ==
  /\ pc[t] # "idle" => call[t] \in Call
  /\ pc[t] \in {"handle", "storingHandle"} => Pinned(t)
  /\ pc[t] \in {"clear", "clearing"} => call[t].op = "clear"

TypeInv == CachesTypeOK /\ \A t \in Thread : CallOK(t)

LEMMA InitTypes == Init => TypeInv
<1> SUFFICES ASSUME Init PROVE TypeInv
  OBVIOUS
<1>1. connections \in Seq(Connection) /\ handles \in Seq(PinnedHandle)
  BY DEF Init
<1>2. CachesTypeOK
  BY <1>1, KeysAssumption DEF Init, CachesTypeOK
<1>3. \A t \in Thread : CallOK(t)
  BY DEF Init, CallOK
<1>4. QED
  BY <1>2, <1>3 DEF TypeInv

(* A step of one thread keeps its call and leaves the others alone.         *)
LEMMA StepTypes ==
  ASSUME TypeInv, NEW t \in Thread, NEW from, NEW to, Goto(t, from, to), call' = call,
         from # "idle", CachesTypeOK',
         to \in {"handle", "storingHandle"} => Pinned(t),
         to \in {"clear", "clearing"} => call[t].op = "clear"
  PROVE  TypeInv'
<1>1. SUFFICES ASSUME NEW u \in Thread PROVE CallOK(u)'
  BY DEF TypeInv
<1>2. CASE u = t
  BY <1>2 DEF TypeInv, CachesTypeOK, CallOK, Goto, Pinned
<1>3. CASE u # t
  BY <1>3 DEF TypeInv, CachesTypeOK, CallOK, Goto, Pinned
<1>4. QED
  BY <1>2, <1>3

LEMMA ConnectTypes ==
  ASSUME TypeInv, NEW t \in Thread, Connects(t)
  PROVE  TypeInv'
<1> USE DEF cacheVars
<1>1. call[t] \in Call \/ pc[t] = "idle"
  BY DEF TypeInv, CallOK
<1>2. CASE ResolveKey(t)
  <2>1. ResolveApiKey(call[t].spec) \in Nat
    BY <1>1, <1>2 DEF ResolveKey, ResolveApiKey, Goto, Call, ConnectionSpec, TypeInv, CachesTypeOK
  <2>2. CachesTypeOK'
    BY <1>2, <2>1 DEF ResolveKey, Goto, TypeInv, CachesTypeOK
  <2>3. QED
    BY <1>2, <2>2, StepTypes DEF ResolveKey
<1>3. CASE FindConnection(t)
  <2>1. CASE Goto(t, "lookup", "opening") /\ UNCHANGED <<connections, held>>
    <3>1. CachesTypeOK'
      BY <1>3, <2>1 DEF FindConnection, Goto, TypeInv, CachesTypeOK
    <3>2. QED
      BY <1>3, <2>1, <3>1, StepTypes DEF FindConnection
  <2>2. ASSUME Goto(t, "lookup", "connected"), NEW i \in Hits(t),
               held' = [held EXCEPT ![t] = connections[i].held],
               connections' = Touch(connections, i)
        PROVE  TypeInv'
    <3>1. connections \in Seq(Connection) /\ i \in DOMAIN connections
      BY DEF TypeInv, CachesTypeOK, Hits
    <3>2. connections' \in Seq(Connection) /\ connections[i] \in Connection
      BY <2>2, <3>1, TouchMoves, LenProperties, ElementOfSeq
    <3>3. CachesTypeOK'
      BY <1>3, <2>2, <3>2 DEF FindConnection, Goto, TypeInv, CachesTypeOK, Connection
    <3>4. QED
      BY <1>3, <2>2, <3>3, StepTypes DEF FindConnection
  <2>3. QED
    BY <1>3, <2>1, <2>2 DEF FindConnection
<1>4. CASE OpenConnection(t)
  <2>1. held' \in [Thread -> Nat]
    BY <1>1, <1>4 DEF OpenConnection, ResolveApiKey, Goto, Call, ConnectionSpec, TypeInv, CachesTypeOK
  <2>2. \E to \in {"storing", "failed"} : Goto(t, "opening", to)
    BY <1>4 DEF OpenConnection
  <2>3. CachesTypeOK'
    BY <1>4, <2>1, <2>2 DEF OpenConnection, Goto, TypeInv, CachesTypeOK
  <2>4. QED
    BY <1>4, <2>2, <2>3, StepTypes DEF OpenConnection
<1>5. CASE StoreConnection(t)
  <2> DEFINE entry == [spec |-> call[t].spec, key |-> resolved[t], held |-> held[t]]
  <2>1. entry \in Connection /\ [spec |-> entry.spec, key |-> entry.key] \in [spec : ConnectionSpec, key : Nat]
    BY <1>1, <1>5 DEF StoreConnection, Goto, Call, Connection, TypeInv, CachesTypeOK
  <2>2. connections \in Seq(Connection)
    BY DEF TypeInv, CachesTypeOK
  <2>3. Insert(connections, entry, ConnectionCacheSize) \in Seq(Connection)
    BY <2>1, <2>2, InsertAppends, CacheSizesAssumption
  <2>4. /\ connections' \in Seq(Connection)
        /\ stored' \subseteq [spec : ConnectionSpec, key : Nat]
    BY <1>5, <2>1, <2>2, <2>3 DEF StoreConnection, TypeInv, CachesTypeOK
  <2> HIDE DEF entry
  <2>5. CachesTypeOK'
    BY <1>5, <2>4 DEF StoreConnection, Goto, TypeInv, CachesTypeOK
  <2>6. QED
    BY <1>5, <2>5, StepTypes DEF StoreConnection
<1>6. QED
  BY <1>2, <1>3, <1>4, <1>5 DEF Connects

LEMMA OpenTypes ==
  ASSUME TypeInv, NEW t \in Thread, Opens(t)
  PROVE  TypeInv'
<1> USE DEF cacheVars
<1>1. CASE FindHandle(t)
  <2>1. CASE Goto(t, "handle", "resolve") /\ UNCHANGED <<handles, held>>
    <3>1. CachesTypeOK'
      BY <1>1, <2>1 DEF FindHandle, Goto, TypeInv, CachesTypeOK
    <3>2. QED
      BY <1>1, <2>1, <3>1, StepTypes DEF FindHandle
  <2>2. ASSUME Goto(t, "handle", "returned"), NEW i \in HandleHits(t),
               held' = [held EXCEPT ![t] = handles[i].held],
               handles' = Touch(handles, i)
        PROVE  TypeInv'
    <3>1. handles \in Seq(PinnedHandle) /\ i \in DOMAIN handles
      BY DEF TypeInv, CachesTypeOK, HandleHits
    <3>2. handles' \in Seq(PinnedHandle) /\ handles[i] \in PinnedHandle
      BY <2>2, <3>1, TouchMoves, LenProperties, ElementOfSeq
    <3>3. CachesTypeOK'
      BY <1>1, <2>2, <3>2 DEF FindHandle, Goto, TypeInv, CachesTypeOK, PinnedHandle
    <3>4. QED
      BY <1>1, <2>2, <3>3, StepTypes DEF FindHandle
  <2>3. QED
    BY <1>1, <2>1, <2>2 DEF FindHandle
<1>2. CASE OpenTable(t)
  <2>1. \E to \in {"storingHandle", "returned", "failed"} :
          Goto(t, "connected", to) /\ (to = "storingHandle" => Pinned(t))
    BY <1>2 DEF OpenTable
  <2>2. CachesTypeOK'
    BY <1>2, <2>1 DEF OpenTable, Goto, TypeInv, CachesTypeOK
  <2>3. QED
    BY <1>2, <2>1, <2>2, StepTypes DEF OpenTable
<1>3. CASE StoreHandle(t)
  <2> DEFINE entry == [spec |-> call[t].spec, name |-> call[t].name,
                       version |-> call[t].version, held |-> held[t]]
  <2>1. call[t] \in Call /\ call[t].version # None
    BY <1>3 DEF StoreHandle, Goto, TypeInv, CallOK, Pinned
  <2>2. entry \in PinnedHandle
    BY <2>1 DEF Call, PinnedHandle, TypeInv, CachesTypeOK
  <2>3. handles \in Seq(PinnedHandle)
    BY DEF TypeInv, CachesTypeOK
  <2>4. Insert(handles, entry, HandleCacheSize) \in Seq(PinnedHandle)
    BY <2>2, <2>3, InsertAppends, CacheSizesAssumption
  <2>5. handles' \in Seq(PinnedHandle)
    BY <1>3, <2>3, <2>4 DEF StoreHandle
  <2> HIDE DEF entry
  <2>6. CachesTypeOK'
    BY <1>3, <2>5 DEF StoreHandle, Goto, TypeInv, CachesTypeOK
  <2>7. QED
    BY <1>3, <2>6, StepTypes DEF StoreHandle
<1>4. QED
  BY <1>1, <1>2, <1>3 DEF Opens

(* Listing, and handing the connection over, leave the caches alone.        *)
LEMMA ListTypes ==
  ASSUME TypeInv, NEW t \in Thread, Lists(t) \/ ListingRaises(t) \/ ReturnConnection(t)
  PROVE  TypeInv'
<1>1. UNCHANGED <<env, cacheVars, call, resolved, held, calls, began>>
  BY DEF Lists, StartListing, List, ListingRaises, ReturnConnection
<1>2. PICK from \in {"connected", "listing"}, to \in {"listing", "returned", "failed"} :
        Goto(t, from, to)
  BY DEF Lists, StartListing, List, ListingRaises, ReturnConnection
<1>3. CachesTypeOK'
  BY <1>1, <1>2 DEF cacheVars, Goto, TypeInv, CachesTypeOK
<1>4. QED
  BY <1>1, <1>2, <1>3, StepTypes

LEMMA ClearTypes ==
  ASSUME TypeInv, NEW t \in Thread, Clears(t)
  PROVE  TypeInv'
<1>1. CASE ClearConnections(t)
  <2>1. CachesTypeOK'
    BY <1>1, EmptySeq DEF ClearConnections, Goto, TypeInv, CachesTypeOK
  <2>2. call[t].op = "clear"
    BY <1>1 DEF ClearConnections, Goto, TypeInv, CallOK
  <2>3. QED
    BY <1>1, <2>1, <2>2, StepTypes DEF ClearConnections
<1>2. CASE ClearHandles(t)
  <2>1. CachesTypeOK'
    BY <1>2, EmptySeq DEF ClearHandles, Goto, TypeInv, CachesTypeOK
  <2>2. QED
    BY <1>2, <2>1, StepTypes DEF ClearHandles
<1>3. QED
  BY <1>1, <1>2 DEF Clears

LEMMA CallTypes ==
  ASSUME TypeInv, NEW t \in Thread, Return(t) \/ \E c \in Calls[t] : StartCall(t, c)
  PROVE  TypeInv'
<1>1. CASE Return(t)
  <2>1. pc' = [pc EXCEPT ![t] = "idle"] /\ UNCHANGED <<env, cacheVars, calls>>
    BY <1>1 DEF Return, Goto
  <2>2. CachesTypeOK'
    BY <1>1, <2>1 DEF Return, cacheVars, TypeInv, CachesTypeOK
  <2>3. \A u \in Thread : CallOK(u)'
    BY <1>1, <2>1 DEF Return, TypeInv, CachesTypeOK, CallOK, Pinned
  <2>4. QED
    BY <2>2, <2>3 DEF TypeInv
<1>2. ASSUME NEW c \in Calls[t], StartCall(t, c) PROVE TypeInv'
  <2>1. c \in Call
    BY CallsAssumption
  <2>2. FirstStep(c) \in {"clear", "handle", "resolve"}
        /\ (FirstStep(c) = "handle" => c.op = "open" /\ c.version # None)
        /\ (FirstStep(c) = "clear" => c.op = "clear")
    BY <2>1 DEF FirstStep
  <2>3. Weight(c) \in Nat
    BY BoundAssumption DEF Weight
  <2>4. pc' = [pc EXCEPT ![t] = FirstStep(c)] /\ call' = [call EXCEPT ![t] = c]
    BY <1>2 DEF StartCall, Goto
  <2>5. CachesTypeOK'
    BY <1>2, <2>1, <2>2, <2>3, <2>4 DEF StartCall, cacheVars, TypeInv, CachesTypeOK
  <2>6. \A u \in Thread : CallOK(u)'
    BY <2>1, <2>2, <2>4 DEF TypeInv, CachesTypeOK, CallOK, Pinned
  <2>7. QED
    BY <2>5, <2>6 DEF TypeInv
<1>3. QED
  BY <1>1, <1>2

LEMMA RotateTypes ==
  ASSUME TypeInv, NEW pair \in Rotations, Rotate(pair[2])
  PROVE  TypeInv'
<1>1. pair[2] \in Nat
  BY KeysAssumption
<1>2. QED
  BY <1>1 DEF Rotate, cacheVars, threadVars, TypeInv, CachesTypeOK, CallOK, Pinned

LEMMA NextTypes == TypeInv /\ [Next]_vars => TypeInv'
<1> SUFFICES ASSUME TypeInv, [Next]_vars PROVE TypeInv'
  OBVIOUS
<1>1. ASSUME NEW t \in Thread, Steps(t) \/ ListingRaises(t) PROVE TypeInv'
  BY <1>1, ConnectTypes, OpenTypes, ListTypes, ClearTypes, CallTypes DEF Steps
<1>2. ASSUME NEW t \in Thread, \E c \in Calls[t] : StartCall(t, c) PROVE TypeInv'
  BY <1>2, CallTypes
<1>3. ASSUME NEW pair \in Rotations, Rotate(pair[2]) PROVE TypeInv'
  BY <1>3, RotateTypes
<1>4. CASE OthersChangeTables \/ UNCHANGED vars
  <2>1. UNCHANGED <<env, cacheVars, threadVars>>
    BY <1>4 DEF OthersChangeTables, vars
  <2>2. QED
    BY <2>1 DEF cacheVars, threadVars, TypeInv, CachesTypeOK, CallOK, Pinned
<1>5. QED
  BY <1>1, <1>2, <1>3, <1>4 DEF Next, Idle

-----------------------------------------------------------------------------
(* One entry per key.                                                       *)

OneConnection(cs) ==
  \A i, j \in DOMAIN cs : cs[i].spec = cs[j].spec /\ cs[i].key = cs[j].key => i = j

OneHandle(hs) ==
  \A i, j \in DOMAIN hs :
    hs[i].spec = hs[j].spec /\ hs[i].name = hs[j].name /\ hs[i].version = hs[j].version
      => i = j

(* A hit permutes the entries.                                              *)
LEMMA TouchPermutes ==
  ASSUME NEW S, NEW cache \in Seq(S), NEW i \in DOMAIN cache,
         NEW j \in DOMAIN Touch(cache, i), NEW k \in DOMAIN Touch(cache, i)
  PROVE  \E a, b \in DOMAIN cache :
           Touch(cache, i)[j] = cache[a] /\ Touch(cache, i)[k] = cache[b] /\ (a = b => j = k)
<1> DEFINE n == Len(cache)
           Was(m) == IF m = n THEN i ELSE IF m < i THEN m ELSE m + 1
<1>1. n \in Nat /\ DOMAIN cache = 1..n /\ DOMAIN Touch(cache, i) = 1..n
  BY TouchMoves, LenProperties
<1>2. Touch(cache, i)[j] = cache[Was(j)] /\ Touch(cache, i)[k] = cache[Was(k)]
  BY <1>1, TouchMoves
<1>3. Was(j) \in 1..n /\ Was(k) \in 1..n /\ (Was(j) = Was(k) => j = k)
  BY <1>1
<1>4. QED
  BY <1>1, <1>2, <1>3

LEMMA TouchKeepsOne ==
  ASSUME NEW S, NEW cache \in Seq(S), NEW i \in DOMAIN cache
  PROVE  /\ OneConnection(cache) => OneConnection(Touch(cache, i))
         /\ OneHandle(cache) => OneHandle(Touch(cache, i))
<1>1. ASSUME OneConnection(cache),
             NEW j \in DOMAIN Touch(cache, i), NEW k \in DOMAIN Touch(cache, i),
             Touch(cache, i)[j].spec = Touch(cache, i)[k].spec,
             Touch(cache, i)[j].key = Touch(cache, i)[k].key
      PROVE  j = k
  <2>1. PICK a \in DOMAIN cache, b \in DOMAIN cache :
          Touch(cache, i)[j] = cache[a] /\ Touch(cache, i)[k] = cache[b] /\ (a = b => j = k)
    BY TouchPermutes
  <2>2. QED
    BY <1>1, <2>1 DEF OneConnection
<1>2. ASSUME OneHandle(cache),
             NEW j \in DOMAIN Touch(cache, i), NEW k \in DOMAIN Touch(cache, i),
             Touch(cache, i)[j].spec = Touch(cache, i)[k].spec,
             Touch(cache, i)[j].name = Touch(cache, i)[k].name,
             Touch(cache, i)[j].version = Touch(cache, i)[k].version
      PROVE  j = k
  <2>1. PICK a \in DOMAIN cache, b \in DOMAIN cache :
          Touch(cache, i)[j] = cache[a] /\ Touch(cache, i)[k] = cache[b] /\ (a = b => j = k)
    BY TouchPermutes
  <2>2. QED
    BY <1>2, <2>1 DEF OneHandle
<1>3. QED
  BY <1>1, <1>2 DEF OneConnection, OneHandle

(* Every entry after a miss is the new one, at the end, or was there.       *)
LEMMA InsertShifts ==
  ASSUME NEW S, NEW cache \in Seq(S), NEW entry \in S, NEW size \in Nat \ {0},
         NEW j \in DOMAIN Insert(cache, entry, size)
  PROVE  LET k == Evicted(cache, size)
             last == Len(cache) + 1 - k
         IN \/ j = last /\ Insert(cache, entry, size)[j] = entry
            \/ j + k \in DOMAIN cache /\ Insert(cache, entry, size)[j] = cache[j + k]
<1>1. /\ Len(cache) \in Nat /\ DOMAIN cache = 1..Len(cache)
      /\ Evicted(cache, size) \in {0, 1}
      /\ DOMAIN Insert(cache, entry, size) = 1..(Len(cache) + 1 - Evicted(cache, size))
      /\ Insert(cache, entry, size)[Len(cache) + 1 - Evicted(cache, size)] = entry
  BY InsertDomain
<1>2. \A m \in 1..(Len(cache) - Evicted(cache, size)) :
        Insert(cache, entry, size)[m] = cache[m + Evicted(cache, size)]
  BY InsertAppends
<1>3. CASE j = Len(cache) + 1 - Evicted(cache, size)
  BY <1>1, <1>3
<1>4. CASE j # Len(cache) + 1 - Evicted(cache, size)
  <2>1. /\ j \in 1..(Len(cache) - Evicted(cache, size))
        /\ j + Evicted(cache, size) \in 1..Len(cache)
    BY <1>1, <1>4
  <2>2. QED
    BY <1>1, <1>2, <2>1
<1>5. QED
  BY <1>3, <1>4

LEMMA InsertKeepsOneConnection ==
  ASSUME NEW cs \in Seq(Connection), OneConnection(cs), NEW entry \in Connection,
         NEW size \in Nat \ {0},
         \A i \in DOMAIN cs : ~IsFor(cs[i], entry.spec, entry.key)
  PROVE  OneConnection(Insert(cs, entry, size))
<1> DEFINE new == Insert(cs, entry, size)
           k == Evicted(cs, size)
           last == Len(cs) + 1 - k
<1>1. SUFFICES ASSUME NEW i \in DOMAIN new, NEW j \in DOMAIN new,
                      new[i].spec = new[j].spec, new[i].key = new[j].key
               PROVE  i = j
  BY DEF OneConnection
<1>2. /\ (i = last /\ new[i] = entry) \/ (i + k \in DOMAIN cs /\ new[i] = cs[i + k])
      /\ (j = last /\ new[j] = entry) \/ (j + k \in DOMAIN cs /\ new[j] = cs[j + k])
  BY InsertShifts
<1>3. i \in Int /\ j \in Int /\ k \in Int
  BY InsertDomain
<1> HIDE DEF new, k
<1>4. (i + k \in DOMAIN cs /\ new[i] = cs[i + k] /\ j + k \in DOMAIN cs /\ new[j] = cs[j + k])
        => i + k = j + k
  BY <1>1 DEF OneConnection
<1>5. QED
  BY <1>1, <1>2, <1>3, <1>4 DEF IsFor

LEMMA InsertKeepsOneHandle ==
  ASSUME NEW hs \in Seq(PinnedHandle), OneHandle(hs), NEW entry \in PinnedHandle,
         NEW size \in Nat \ {0},
         \A i \in DOMAIN hs : ~(/\ hs[i].spec = entry.spec
                                /\ hs[i].name = entry.name
                                /\ hs[i].version = entry.version)
  PROVE  OneHandle(Insert(hs, entry, size))
<1> DEFINE new == Insert(hs, entry, size)
           k == Evicted(hs, size)
           last == Len(hs) + 1 - k
<1>1. SUFFICES ASSUME NEW i \in DOMAIN new, NEW j \in DOMAIN new,
                      new[i].spec = new[j].spec, new[i].name = new[j].name,
                      new[i].version = new[j].version
               PROVE  i = j
  BY DEF OneHandle
<1>2. /\ (i = last /\ new[i] = entry) \/ (i + k \in DOMAIN hs /\ new[i] = hs[i + k])
      /\ (j = last /\ new[j] = entry) \/ (j + k \in DOMAIN hs /\ new[j] = hs[j + k])
  BY InsertShifts
<1>3. i \in Int /\ j \in Int /\ k \in Int
  BY InsertDomain
<1> HIDE DEF new, k
<1>4. (i + k \in DOMAIN hs /\ new[i] = hs[i + k] /\ j + k \in DOMAIN hs /\ new[j] = hs[j + k])
        => i + k = j + k
  BY <1>1 DEF OneHandle
<1>5. QED
  BY <1>1, <1>2, <1>3, <1>4

(* What a step may do to each cache.                                        *)
ConnectionsStep ==
  \/ UNCHANGED <<connections, stored, cleared>>
  \/ connections' = <<>> /\ stored' = stored /\ cleared'
  \/ /\ \E i \in DOMAIN connections : connections' = Touch(connections, i)
     /\ UNCHANGED <<stored, cleared>>
  \/ \E t \in Thread : StoreConnection(t)

HandlesStep ==
  \/ handles' = handles
  \/ handles' = <<>>
  \/ \E i \in DOMAIN handles : handles' = Touch(handles, i)
  \/ \E t \in Thread : StoreHandle(t)

LEMMA CacheSteps == [Next]_vars => ConnectionsStep /\ HandlesStep
<1> SUFFICES ASSUME [Next]_vars PROVE ConnectionsStep /\ HandlesStep
  OBVIOUS
<1> USE DEF cacheVars, ConnectionsStep, HandlesStep
<1>1. ASSUME NEW t \in Thread, Connects(t) PROVE ConnectionsStep /\ HandlesStep
  <2>1. CASE ResolveKey(t)
    BY <2>1 DEF ResolveKey
  <2>2. CASE OpenConnection(t)
    BY <2>2 DEF OpenConnection
  <2>3. CASE FindConnection(t)
    BY <2>3 DEF FindConnection, Hits
  <2>4. CASE StoreConnection(t)
    BY <2>4 DEF StoreConnection
  <2>5. QED
    BY <1>1, <2>1, <2>2, <2>3, <2>4 DEF Connects
<1>2. ASSUME NEW t \in Thread, Opens(t) PROVE ConnectionsStep /\ HandlesStep
  <2>1. CASE FindHandle(t)
    BY <2>1 DEF FindHandle, HandleHits
  <2>2. CASE OpenTable(t)
    BY <2>2 DEF OpenTable
  <2>3. CASE StoreHandle(t)
    BY <2>3 DEF StoreHandle
  <2>4. QED
    BY <1>2, <2>1, <2>2, <2>3 DEF Opens
<1>3. ASSUME NEW t \in Thread, Clears(t) PROVE ConnectionsStep /\ HandlesStep
  BY <1>3 DEF Clears, ClearConnections, ClearHandles
<1>4. ASSUME NEW t \in Thread,
             \/ Lists(t) \/ ListingRaises(t) \/ ReturnConnection(t) \/ Return(t)
             \/ \E c \in Calls[t] : StartCall(t, c)
      PROVE  ConnectionsStep /\ HandlesStep
  BY <1>4 DEF Lists, StartListing, List, ListingRaises, ReturnConnection, Return, StartCall
<1>5. ASSUME NEW pair \in Rotations, Rotate(pair[2]) PROVE ConnectionsStep /\ HandlesStep
  BY <1>5 DEF Rotate
<1>6. CASE OthersChangeTables \/ UNCHANGED vars
  BY <1>6 DEF OthersChangeTables, vars
<1>7. QED
  BY <1>1, <1>2, <1>3, <1>4, <1>5, <1>6 DEF Next, Steps, Idle

(* What a thread stores is for a key that no entry is for.                  *)
LEMMA StoredConnection ==
  ASSUME TypeInv, NEW t \in Thread, StoreConnection(t), Hits(t) = {}
  PROVE  \E entry \in Connection :
           /\ connections' = Insert(connections, entry, ConnectionCacheSize)
           /\ stored' = stored \cup {[spec |-> entry.spec, key |-> entry.key]}
           /\ \A i \in DOMAIN connections : ~IsFor(connections[i], entry.spec, entry.key)
<1> DEFINE entry == [spec |-> call[t].spec, key |-> resolved[t], held |-> held[t]]
<1>1. entry \in Connection
  BY DEF StoreConnection, Goto, TypeInv, CachesTypeOK, CallOK, Call, Connection
<1>2. /\ connections' = Insert(connections, entry, ConnectionCacheSize)
      /\ stored' = stored \cup {[spec |-> entry.spec, key |-> entry.key]}
  BY DEF StoreConnection
<1>3. \A i \in DOMAIN connections : ~IsFor(connections[i], entry.spec, entry.key)
  BY DEF Hits
<1> HIDE DEF entry
<1>4. QED
  BY <1>1, <1>2, <1>3

LEMMA SoundConnectionsStep ==
  ASSUME TypeInv, ConnectionsStep, Len(connections) <= ConnectionCacheSize,
         OneConnection(connections)
  PROVE  Len(connections') <= ConnectionCacheSize /\ OneConnection(connections')
<1>1. connections \in Seq(Connection) /\ Len(connections) \in Nat
  BY LenProperties DEF TypeInv, CachesTypeOK
<1>2. CASE connections' = connections
  BY <1>2
<1>3. CASE connections' = <<>>
  BY <1>3, CacheSizesAssumption, EmptySeq DEF OneConnection
<1>4. ASSUME NEW i \in DOMAIN connections, connections' = Touch(connections, i)
      PROVE  Len(connections') <= ConnectionCacheSize /\ OneConnection(connections')
  BY <1>1, <1>4, TouchMoves, TouchKeepsOne
<1>5. ASSUME NEW t \in Thread, StoreConnection(t)
      PROVE  Len(connections') <= ConnectionCacheSize /\ OneConnection(connections')
  <2>1. CASE Hits(t) # {}
    BY <1>5, <2>1 DEF StoreConnection
  <2>2. CASE Hits(t) = {}
    <3>1. PICK entry \in Connection :
            /\ connections' = Insert(connections, entry, ConnectionCacheSize)
            /\ \A i \in DOMAIN connections : ~IsFor(connections[i], entry.spec, entry.key)
      BY <1>5, <2>2, StoredConnection
    <3>2. Len(connections') = Len(connections) + 1 - Evicted(connections, ConnectionCacheSize)
      BY <1>1, <3>1, InsertAppends, CacheSizesAssumption
    <3>3. Len(connections') <= ConnectionCacheSize
      BY <1>1, <3>2, CacheSizesAssumption DEF Evicted
    <3>4. QED
      BY <1>1, <3>1, <3>3, InsertKeepsOneConnection, CacheSizesAssumption
  <2>3. QED
    BY <2>1, <2>2
<1>6. QED
  BY <1>2, <1>3, <1>4, <1>5 DEF ConnectionsStep

LEMMA SoundHandlesStep ==
  ASSUME TypeInv, HandlesStep, Len(handles) <= HandleCacheSize, OneHandle(handles)
  PROVE  Len(handles') <= HandleCacheSize /\ OneHandle(handles')
<1>1. handles \in Seq(PinnedHandle) /\ Len(handles) \in Nat
  BY LenProperties DEF TypeInv, CachesTypeOK
<1>2. CASE handles' = handles
  BY <1>2
<1>3. CASE handles' = <<>>
  BY <1>3, CacheSizesAssumption, EmptySeq DEF OneHandle
<1>4. ASSUME NEW i \in DOMAIN handles, handles' = Touch(handles, i)
      PROVE  Len(handles') <= HandleCacheSize /\ OneHandle(handles')
  BY <1>1, <1>4, TouchMoves, TouchKeepsOne
<1>5. ASSUME NEW t \in Thread, StoreHandle(t)
      PROVE  Len(handles') <= HandleCacheSize /\ OneHandle(handles')
  <2> DEFINE entry == [spec |-> call[t].spec, name |-> call[t].name,
                       version |-> call[t].version, held |-> held[t]]
  <2>1. CASE HandleHits(t) # {}
    BY <1>5, <2>1 DEF StoreHandle
  <2>2. CASE HandleHits(t) = {}
    <3>1. entry \in PinnedHandle
      BY <1>5 DEF StoreHandle, Goto, TypeInv, CachesTypeOK, CallOK, Pinned, Call, PinnedHandle
    <3>2. handles' = Insert(handles, entry, HandleCacheSize)
      BY <1>5, <2>2 DEF StoreHandle
    <3>3. \A i \in DOMAIN handles : ~(/\ handles[i].spec = entry.spec
                                      /\ handles[i].name = entry.name
                                      /\ handles[i].version = entry.version)
      BY <2>2 DEF HandleHits
    <3> HIDE DEF entry
    <3>4. Len(handles') = Len(handles) + 1 - Evicted(handles, HandleCacheSize)
      BY <1>1, <3>1, <3>2, InsertAppends, CacheSizesAssumption
    <3>5. Len(handles') <= HandleCacheSize
      BY <1>1, <3>4, CacheSizesAssumption DEF Evicted
    <3>6. QED
      BY <1>1, <3>1, <3>2, <3>3, <3>5, InsertKeepsOneHandle, CacheSizesAssumption
  <2>3. QED
    BY <2>1, <2>2
<1>6. QED
  BY <1>2, <1>3, <1>4, <1>5 DEF HandlesStep

(* Both caches keep to their sizes and to one entry per key, for any number *)
(* of threads that miss, store and clear at the same time.                  *)
THEOREM CachesSound == Spec => []CachesAreSound
<1>1. Init => CachesAreSound
  BY EmptySeq, CacheSizesAssumption DEF Init, CachesAreSound
<1>2. TypeInv /\ CachesAreSound /\ [Next]_vars => CachesAreSound'
  <2>1. SUFFICES ASSUME TypeInv, CachesAreSound, [Next]_vars
                 PROVE  CachesAreSound'
    OBVIOUS
  <2>2. ConnectionsStep /\ HandlesStep
    BY <2>1, CacheSteps
  <2>3. /\ Len(connections) <= ConnectionCacheSize /\ OneConnection(connections)
        /\ Len(handles) <= HandleCacheSize /\ OneHandle(handles)
    BY <2>1 DEF CachesAreSound, OneConnection, OneHandle
  <2>4. Len(connections') <= ConnectionCacheSize /\ OneConnection(connections')
    BY <2>1, <2>2, <2>3, SoundConnectionsStep
  <2>5. Len(handles') <= HandleCacheSize /\ OneHandle(handles')
    BY <2>1, <2>2, <2>3, SoundHandlesStep
  <2>6. QED
    BY <2>4, <2>5 DEF CachesAreSound, OneConnection, OneHandle
<1>3. QED
  BY <1>1, <1>2, InitTypes, NextTypes, PTL DEF Spec

-----------------------------------------------------------------------------
(* Normal jobs keep their connections.                                      *)

(* Every cached connection is accounted for.                                *)
StoredInv ==
  /\ IsFiniteSet(stored)
  /\ \A i \in DOMAIN connections :
       [spec |-> connections[i].spec, key |-> connections[i].key] \in stored
  /\ NormalJobsKeepConnections

(* A cache whose keys, and one more, were stored is smaller than that.      *)
LEMMA FewerThanStored ==
  ASSUME NEW cs \in Seq(Connection), OneConnection(cs), NEW keys, IsFiniteSet(keys),
         \A i \in DOMAIN cs : [spec |-> cs[i].spec, key |-> cs[i].key] \in keys,
         NEW new \in keys,
         \A i \in DOMAIN cs : ~IsFor(cs[i], new.spec, new.key)
  PROVE  Len(cs) + 1 <= Cardinality(keys)
<1> DEFINE n == Len(cs)
           f == [i \in 1..(n + 1) |->
                   IF i = n + 1 THEN new ELSE [spec |-> cs[i].spec, key |-> cs[i].key]]
<1>1. n \in Nat /\ DOMAIN cs = 1..n
  BY LenProperties
<1>2. f \in [1..(n + 1) -> keys] /\ DOMAIN f = 1..(n + 1)
  BY <1>1
<1>3. ASSUME NEW i \in 1..(n + 1), NEW j \in 1..(n + 1), f[i] = f[j] PROVE i = j
  <2>1. CASE i # n + 1 /\ j # n + 1
    BY <1>1, <1>3, <2>1 DEF OneConnection
  <2>2. CASE i # n + 1 /\ j = n + 1
    BY <1>1, <1>3, <2>2 DEF IsFor
  <2>3. CASE i = n + 1 /\ j # n + 1
    BY <1>1, <1>3, <2>3 DEF IsFor
  <2>4. QED
    BY <2>1, <2>2, <2>3
<1> HIDE DEF f
<1>4. f \in Injection(1..(n + 1), keys)
  BY <1>2, <1>3 DEF Injection, IsInjective
<1>5. Cardinality(1..(n + 1)) <= Cardinality(keys)
  BY <1>4, FS_Injection
<1> HIDE DEF n
<1>6. Cardinality(1..(n + 1)) = n + 1
  <2>1. 1 \in Int /\ n + 1 \in Int /\ ~(1 > n + 1)
    BY <1>1
  <2>2. Cardinality(1..(n + 1)) = IF 1 > n + 1 THEN 0 ELSE (n + 1) - 1 + 1
    BY <2>1, FS_Interval
  <2>3. QED
    BY <1>1, <2>1, <2>2
<1>7. QED
  BY <1>5, <1>6 DEF n

LEMMA StoredStep ==
  ASSUME TypeInv, CachesAreSound, StoredInv, ConnectionsStep
  PROVE  StoredInv'
<1> DEFINE Key(entry) == [spec |-> entry.spec, key |-> entry.key]
<1>1. connections \in Seq(Connection) /\ OneConnection(connections)
      /\ Len(connections) <= ConnectionCacheSize /\ Len(connections) \in Nat
      /\ DOMAIN connections = 1..Len(connections)
  BY LenProperties DEF TypeInv, CachesTypeOK, CachesAreSound, OneConnection
<1>2. CASE UNCHANGED <<connections, stored, cleared>>
  BY <1>2 DEF StoredInv, NormalJobsKeepConnections, IsFor
<1>3. CASE connections' = <<>> /\ stored' = stored /\ cleared'
  BY <1>3 DEF StoredInv, NormalJobsKeepConnections
<1>4. ASSUME NEW i \in DOMAIN connections, connections' = Touch(connections, i),
             UNCHANGED <<stored, cleared>>
      PROVE  StoredInv'
  <2>1. DOMAIN connections' = DOMAIN connections
    BY <1>1, <1>4, TouchMoves, LenProperties
  <2>2. \A j \in DOMAIN connections' : \E a \in DOMAIN connections : connections'[j] = connections[a]
    <3>1. TAKE j \in DOMAIN connections'
    <3>2. j \in DOMAIN Touch(connections, i)
      BY <1>4
    <3>3. QED
      BY <1>1, <1>4, <3>2, TouchPermutes
  <2>3. \A a \in DOMAIN connections : \E j \in DOMAIN connections' : connections'[j] = connections[a]
    <3>1. TAKE a \in DOMAIN connections
    <3> DEFINE n == Len(connections)
               j == IF a = i THEN n ELSE IF a < i THEN a ELSE a - 1
    <3>2. j \in 1..n /\ (IF j = n THEN i ELSE IF j < i THEN j ELSE j + 1) = a
      BY <1>1
    <3>3. connections'[j] = connections[IF j = n THEN i ELSE IF j < i THEN j ELSE j + 1]
      BY <1>1, <1>4, <3>2, TouchMoves
    <3>4. QED
      BY <1>1, <2>1, <3>2, <3>3
  <2>4. QED
    BY <1>4, <2>2, <2>3 DEF StoredInv, NormalJobsKeepConnections, IsFor
<1>5. ASSUME NEW t \in Thread, StoreConnection(t) PROVE StoredInv'
  <2>1. CASE Hits(t) # {}
    <3>1. PICK i \in DOMAIN connections : IsFor(connections[i], call[t].spec, resolved[t])
      BY <2>1 DEF Hits
    <3>2. Key(connections[i]) = [spec |-> call[t].spec, key |-> resolved[t]]
      BY <3>1 DEF IsFor
    <3>3. UNCHANGED <<connections, cleared>> /\ stored' = stored
      BY <1>5, <2>1, <3>1, <3>2 DEF StoreConnection, StoredInv
    <3>4. QED
      BY <3>3 DEF StoredInv, NormalJobsKeepConnections, IsFor
  <2>2. CASE Hits(t) = {}
    <3>1. PICK entry \in Connection :
            /\ connections' = Insert(connections, entry, ConnectionCacheSize)
            /\ stored' = stored \cup {Key(entry)}
            /\ \A i \in DOMAIN connections : ~IsFor(connections[i], entry.spec, entry.key)
      BY <1>5, <2>2, StoredConnection
    <3> DEFINE k == Evicted(connections, ConnectionCacheSize)
               last == Len(connections) + 1 - k
    <3>2. IsFiniteSet(stored')
      BY <3>1, FS_AddElement DEF StoredInv
    <3>3. \A i \in DOMAIN connections' : Key(connections'[i]) \in stored'
      <4>1. TAKE i \in DOMAIN connections'
      <4>2. \/ connections'[i] = entry
            \/ i + k \in DOMAIN connections /\ connections'[i] = connections[i + k]
        BY <1>1, <3>1, InsertShifts, CacheSizesAssumption
      <4>3. QED
        BY <3>1, <4>2 DEF StoredInv
    <3>4. NormalJobsKeepConnections'
      <4>1. SUFFICES ASSUME ~cleared', Cardinality(stored') <= ConnectionCacheSize,
                            NEW p \in stored'
                     PROVE  \E i \in DOMAIN connections' : IsFor(connections'[i], p.spec, p.key)
        BY DEF NormalJobsKeepConnections
      <4>2. \A i \in DOMAIN connections : Key(connections[i]) \in stored'
        BY <3>1 DEF StoredInv
      <4>3. Len(connections) + 1 <= Cardinality(stored')
        <5>1. Key(entry) \in stored' /\ Key(entry).spec = entry.spec /\ Key(entry).key = entry.key
          BY <3>1
        <5>2. QED
          BY <1>1, <3>1, <3>2, <4>2, <5>1, FewerThanStored
      <4>4. Cardinality(stored') \in Nat /\ Cardinality(stored) \in Nat
            /\ Cardinality(stored) <= Cardinality(stored')
        BY <3>1, <3>2, FS_CardinalityType, FS_AddElement DEF StoredInv
      <4>5. k = 0 /\ Cardinality(stored) <= ConnectionCacheSize
        BY <1>1, <4>1, <4>3, <4>4, CacheSizesAssumption DEF Evicted
      <4>6. /\ connections' \in Seq(Connection) /\ Len(connections') = Len(connections) + 1
            /\ \A j \in 1..Len(connections) : connections'[j] = connections[j]
            /\ connections'[Len(connections) + 1] = entry
        <5>1. connections \in Seq(Connection) /\ Len(connections) \in Nat
          BY <1>1
        <5>2. \A j \in 1..Len(connections) : j + k = j
          BY <4>5, <5>1
        <5>3. /\ connections' \in Seq(Connection) /\ Len(connections') = Len(connections) + 1 - k
              /\ \A j \in 1..(Len(connections) - k) : connections'[j] = connections[j + k]
              /\ connections'[Len(connections) + 1 - k] = entry
          <6> DEFINE new == Insert(connections, entry, ConnectionCacheSize)
          <6>1. /\ new \in Seq(Connection) /\ Len(new) = Len(connections) + 1 - k
                /\ \A j \in 1..(Len(connections) - k) : new[j] = connections[j + k]
                /\ new[Len(connections) + 1 - k] = entry
            BY <5>1, InsertAppends, CacheSizesAssumption
          <6>2. connections' = new
            BY <3>1
          <6> HIDE DEF new
          <6>3. QED
            BY <6>1, <6>2
        <5> HIDE DEF k
        <5>4. QED
          BY <4>5, <5>1, <5>2, <5>3
      <4>7. DOMAIN connections' = 1..(Len(connections) + 1)
        BY <4>6, LenProperties
      <4>8. CASE p = Key(entry)
        BY <1>1, <4>6, <4>7, <4>8 DEF IsFor
      <4>9. CASE p \in stored
        <5>1. ~cleared
          BY <1>5, <4>1 DEF StoreConnection
        <5>2. PICK i \in DOMAIN connections : IsFor(connections[i], p.spec, p.key)
          BY <4>5, <4>9, <5>1 DEF StoredInv, NormalJobsKeepConnections
        <5>3. i \in DOMAIN connections' /\ connections'[i] = connections[i]
          BY <1>1, <4>6, <4>7
        <5>4. QED
          BY <5>2, <5>3
      <4>10. QED
        BY <3>1, <4>8, <4>9
    <3>5. QED
      BY <3>2, <3>3, <3>4 DEF StoredInv
  <2>3. QED
    BY <2>1, <2>2
<1>6. QED
  BY <1>2, <1>3, <1>4, <1>5 DEF ConnectionsStep

(* Without a clearing, a process that has used no more specs and keys than  *)
(* the cache has places still holds a connection for each: for any size,    *)
(* threads and order of calls.                                              *)
THEOREM NormalJobsKeep == Spec => []NormalJobsKeepConnections
<1>1. Init => StoredInv
  BY FS_EmptySet, EmptySeq DEF Init, StoredInv, NormalJobsKeepConnections
<1>2. TypeInv /\ CachesAreSound /\ StoredInv /\ [Next]_vars => StoredInv'
  BY CacheSteps, StoredStep
<1>3. StoredInv => NormalJobsKeepConnections
  BY DEF StoredInv
<1>4. QED
  BY <1>1, <1>2, <1>3, InitTypes, NextTypes, CachesSound, PTL DEF Spec

-----------------------------------------------------------------------------
(* Credentials.                                                             *)

(* The environment's key only moves forward.                                *)
ForwardRotations == \A pair \in Rotations : pair[1] <= pair[2]

(* A credential is the one a spec stands for, the environment's being one   *)
(* it had since it was from.                                                *)
KeyRight(spec, credential, from, to) ==
  /\ ~spec.remote => credential = 0
  /\ spec.remote /\ spec.apiKey # 0 => credential = spec.apiKey
  /\ spec.remote /\ spec.apiKey = 0 => credential # 0 /\ from <= credential /\ credential <= to

(* A cached connection holds the key it is cached under or a later one,     *)
(* because connect_kwargs resolves it anew; a handle, any that has been.    *)
SoundConnections(now) == {c \in Connection : KeyRight(c.spec, c.held, c.key, now)}

SoundHandles(now) == {h \in PinnedHandle : KeyRight(h.spec, h.held, 0, now)}

(* What a thread has in its hands is no older than its call.                *)
ThreadRight(t) ==
  LET spec == call[t].spec
  IN /\ began[t] <= env
     /\ pc[t] \in {"lookup", "opening", "storing"} /\ spec.apiKey = 0 =>
          began[t] <= resolved[t] /\ resolved[t] <= env
     /\ pc[t] = "storing" => KeyRight(spec, held[t], resolved[t], env)
     /\ pc[t] \in {"connected", "storingHandle", "listing"} =>
          KeyRight(spec, held[t], began[t], env)
     /\ pc[t] = "returned" /\ call[t].op # "clear" =>
          KeyRight(spec, held[t], IF Pinned(t) THEN 0 ELSE began[t], env)

CredInv ==
  /\ TypeInv
  /\ connections \in Seq(SoundConnections(env))
  /\ handles \in Seq(SoundHandles(env))
  /\ \A t \in Thread : ThreadRight(t)

LEMMA InitRight == Init => CredInv
<1> SUFFICES ASSUME Init PROVE CredInv
  OBVIOUS
<1>1. connections \in Seq(SoundConnections(env)) /\ handles \in Seq(SoundHandles(env))
  BY EmptySeq DEF Init
<1>2. \A t \in Thread : ThreadRight(t)
  BY KeysAssumption DEF Init, ThreadRight
<1>3. QED
  BY <1>1, <1>2, InitTypes DEF CredInv

(* A step of one thread, of which only its own rightness is left to show.   *)
LEMMA StepRight ==
  ASSUME CredInv, NEW t \in Thread, TypeInv', NEW from, NEW to, Goto(t, from, to),
         UNCHANGED <<env, call, began>>,
         NEW h, held' = [held EXCEPT ![t] = h],
         NEW r, resolved' = [resolved EXCEPT ![t] = r],
         connections' \in Seq(SoundConnections(env)),
         handles' \in Seq(SoundHandles(env)),
         ThreadRight(t)'
  PROVE  CredInv'
<1>1. SUFFICES ASSUME NEW u \in Thread, u # t PROVE ThreadRight(u)'
  BY DEF CredInv
<1>2. /\ pc'[u] = pc[u] /\ call'[u] = call[u] /\ began'[u] = began[u]
      /\ held'[u] = held[u] /\ resolved'[u] = resolved[u] /\ env' = env
  BY <1>1 DEF Goto, CredInv, TypeInv, CachesTypeOK
<1>3. QED
  BY <1>2 DEF CredInv, ThreadRight, KeyRight, Pinned

LEMMA ConnectRight ==
  ASSUME CredInv, NEW t \in Thread, Connects(t)
  PROVE  CredInv'
<1> USE DEF cacheVars
<1> DEFINE spec == call[t].spec
<1>1. TypeInv' /\ (pc[t] # "idle" => spec \in ConnectionSpec)
  BY ConnectTypes DEF CredInv, TypeInv, CallOK, Call
<1>2. CachesTypeOK /\ ThreadRight(t)
  BY DEF CredInv, TypeInv
<1>3. CASE ResolveKey(t)
  <2>1. Goto(t, "resolve", "lookup") /\ held' = [held EXCEPT ![t] = held[t]]
        /\ resolved' = [resolved EXCEPT ![t] = ResolveApiKey(spec)]
        /\ UNCHANGED <<env, call, began, connections, handles>>
    BY <1>2, <1>3 DEF ResolveKey, CachesTypeOK
  <2>2. ThreadRight(t)'
    BY <1>2, <2>1 DEF ThreadRight, ResolveApiKey, Goto, CachesTypeOK
  <2>3. QED
    BY <1>1, <2>1, <2>2, StepRight DEF CredInv
<1>4. CASE FindConnection(t)
  <2>1. resolved' = [resolved EXCEPT ![t] = resolved[t]]
        /\ UNCHANGED <<env, call, began, handles>>
    BY <1>2, <1>4 DEF FindConnection, CachesTypeOK
  <2>2. CASE Goto(t, "lookup", "opening") /\ UNCHANGED <<connections, held>>
    <3>1. held' = [held EXCEPT ![t] = held[t]]
      BY <1>2, <2>2 DEF CachesTypeOK
    <3>2. ThreadRight(t)'
      BY <1>2, <2>1, <2>2 DEF ThreadRight, Goto, CachesTypeOK
    <3>3. QED
      BY <1>1, <2>1, <2>2, <3>1, <3>2, StepRight DEF CredInv
  <2>3. ASSUME Goto(t, "lookup", "connected"), NEW i \in Hits(t),
               held' = [held EXCEPT ![t] = connections[i].held],
               connections' = Touch(connections, i)
        PROVE  CredInv'
    <3>1. connections \in Seq(SoundConnections(env)) /\ i \in DOMAIN connections
      BY DEF CredInv, Hits
    <3>2. connections[i] \in SoundConnections(env) /\ connections' \in Seq(SoundConnections(env))
      BY <2>3, <3>1, TouchMoves, LenProperties, ElementOfSeq
    <3>3. connections[i].spec = spec /\ connections[i].key = resolved[t]
      BY DEF Hits, IsFor
    <3>4. KeyRight(spec, connections[i].held, resolved[t], env) /\ connections[i].held \in Nat
      BY <3>2, <3>3 DEF SoundConnections, Connection
    <3>5. KeyRight(spec, connections[i].held, began[t], env)
      BY <1>2, <2>3, <3>4 DEF KeyRight, ThreadRight, Goto, CachesTypeOK
    <3>6. /\ pc'[t] = "connected" /\ held'[t] = connections[i].held
          /\ call'[t] = call[t] /\ began'[t] = began[t] /\ env' = env
      BY <1>2, <2>1, <2>3 DEF Goto, CachesTypeOK
    <3>7. ThreadRight(t)'
      BY <1>2, <3>5, <3>6 DEF ThreadRight
    <3>8. QED
      BY <1>1, <2>1, <2>3, <3>2, <3>7, StepRight DEF CredInv
  <2>4. QED
    BY <1>4, <2>2, <2>3 DEF FindConnection
<1>5. CASE OpenConnection(t)
  <2> DEFINE key == IF spec.remote THEN ResolveApiKey(spec) ELSE 0
  <2>1. resolved' = [resolved EXCEPT ![t] = resolved[t]]
        /\ UNCHANGED <<env, call, began, connections, handles>>
    BY <1>2, <1>5 DEF OpenConnection, CachesTypeOK
  <2>2. CASE Goto(t, "opening", "storing") /\ (spec.remote => key # 0)
             /\ held' = [held EXCEPT ![t] = key]
    <3>1. KeyRight(spec, key, resolved[t], env)
      BY <1>1, <1>2, <2>2 DEF KeyRight, ResolveApiKey, ThreadRight, Goto, ConnectionSpec, CachesTypeOK
    <3>2. /\ pc'[t] = "storing" /\ held'[t] = key /\ resolved'[t] = resolved[t]
          /\ call'[t] = call[t] /\ began'[t] = began[t] /\ env' = env
      BY <1>2, <2>1, <2>2 DEF Goto, CachesTypeOK
    <3>3. ThreadRight(t)'
      BY <1>2, <2>2, <3>1, <3>2 DEF ThreadRight, Goto
    <3>4. QED
      BY <1>1, <2>1, <2>2, <3>3, StepRight DEF CredInv
  <2>3. CASE Goto(t, "opening", "failed") /\ UNCHANGED held
    <3>1. held' = [held EXCEPT ![t] = held[t]]
      BY <1>2, <2>3 DEF CachesTypeOK
    <3>2. ThreadRight(t)'
      BY <1>2, <2>1, <2>3 DEF ThreadRight, Goto, CachesTypeOK
    <3>3. QED
      BY <1>1, <2>1, <2>3, <3>1, <3>2, StepRight DEF CredInv
  <2>4. QED
    BY <1>5, <2>2, <2>3 DEF OpenConnection
<1>6. CASE StoreConnection(t)
  <2> DEFINE entry == [spec |-> spec, key |-> resolved[t], held |-> held[t]]
  <2>1. Goto(t, "storing", "connected") /\ held' = [held EXCEPT ![t] = held[t]]
        /\ resolved' = [resolved EXCEPT ![t] = resolved[t]]
        /\ UNCHANGED <<env, call, began, handles>>
    BY <1>2, <1>6 DEF StoreConnection, CachesTypeOK
  <2>2. KeyRight(spec, held[t], resolved[t], env)
    BY <1>2, <2>1 DEF ThreadRight, Goto
  <2>3. entry \in SoundConnections(env)
    BY <1>1, <1>2, <2>1, <2>2 DEF SoundConnections, Connection, Goto, CachesTypeOK
  <2>4. connections \in Seq(SoundConnections(env))
    BY DEF CredInv
  <2>5. Insert(connections, entry, ConnectionCacheSize) \in Seq(SoundConnections(env))
    BY <2>3, <2>4, InsertAppends, CacheSizesAssumption
  <2>6. connections' \in Seq(SoundConnections(env))
    BY <1>6, <2>4, <2>5 DEF StoreConnection
  <2>7. KeyRight(spec, held[t], began[t], env)
    BY <1>2, <2>1, <2>2 DEF KeyRight, ThreadRight, Goto, CachesTypeOK
  <2>8. /\ pc'[t] = "connected" /\ held'[t] = held[t]
        /\ call'[t] = call[t] /\ began'[t] = began[t] /\ env' = env
    BY <1>2, <2>1 DEF Goto, CachesTypeOK
  <2>9. ThreadRight(t)'
    BY <1>2, <2>7, <2>8 DEF ThreadRight
  <2>10. QED
    BY <1>1, <2>1, <2>6, <2>9, StepRight DEF CredInv
<1>7. QED
  BY <1>3, <1>4, <1>5, <1>6 DEF Connects

LEMMA OpenRight ==
  ASSUME CredInv, NEW t \in Thread, Opens(t)
  PROVE  CredInv'
<1> USE DEF cacheVars
<1> DEFINE spec == call[t].spec
<1>1. TypeInv' /\ (pc[t] # "idle" => call[t] \in Call)
  BY OpenTypes DEF CredInv, TypeInv, CallOK
<1>2. CachesTypeOK /\ ThreadRight(t) /\ CallOK(t)
  BY DEF CredInv, TypeInv
<1>3. CASE FindHandle(t)
  <2>1. resolved' = [resolved EXCEPT ![t] = resolved[t]]
        /\ UNCHANGED <<env, call, began, connections>>
    BY <1>2, <1>3 DEF FindHandle, CachesTypeOK
  <2>2. CASE Goto(t, "handle", "resolve") /\ UNCHANGED <<handles, held>>
    <3>1. held' = [held EXCEPT ![t] = held[t]]
      BY <1>2, <2>2 DEF CachesTypeOK
    <3>2. ThreadRight(t)'
      BY <1>2, <2>1, <2>2 DEF ThreadRight, Goto, CachesTypeOK
    <3>3. QED
      BY <1>1, <2>1, <2>2, <3>1, <3>2, StepRight DEF CredInv
  <2>3. ASSUME Goto(t, "handle", "returned"), NEW i \in HandleHits(t),
               held' = [held EXCEPT ![t] = handles[i].held],
               handles' = Touch(handles, i)
        PROVE  CredInv'
    <3>1. handles \in Seq(SoundHandles(env)) /\ i \in DOMAIN handles
      BY DEF CredInv, HandleHits
    <3>2. handles[i] \in SoundHandles(env) /\ handles' \in Seq(SoundHandles(env))
      BY <2>3, <3>1, TouchMoves, LenProperties, ElementOfSeq
    <3>3. KeyRight(spec, handles[i].held, 0, env) /\ Pinned(t)
      BY <1>2, <2>3, <3>2 DEF SoundHandles, HandleHits, CallOK, Goto
    <3>4. /\ pc'[t] = "returned" /\ held'[t] = handles[i].held
          /\ call'[t] = call[t] /\ began'[t] = began[t] /\ env' = env
      BY <1>2, <2>1, <2>3 DEF Goto, CachesTypeOK
    <3>5. ThreadRight(t)'
      BY <1>2, <3>3, <3>4 DEF ThreadRight, Pinned
    <3>6. QED
      BY <1>1, <2>1, <2>3, <3>2, <3>5, StepRight DEF CredInv
  <2>4. QED
    BY <1>3, <2>2, <2>3 DEF FindHandle
<1>4. CASE OpenTable(t)
  <2>1. held' = [held EXCEPT ![t] = held[t]] /\ resolved' = [resolved EXCEPT ![t] = resolved[t]]
        /\ UNCHANGED <<env, call, began, connections, handles>>
    BY <1>2, <1>4 DEF OpenTable, CachesTypeOK
  <2>2. PICK to \in {"storingHandle", "returned", "failed"} :
          Goto(t, "connected", to) /\ (to = "returned" => ~Pinned(t))
    BY <1>4 DEF OpenTable
  <2>3. /\ pc[t] = "connected" /\ pc'[t] = to /\ held'[t] = held[t]
        /\ call'[t] = call[t] /\ began'[t] = began[t] /\ env' = env
    BY <1>2, <2>1, <2>2 DEF Goto, CachesTypeOK
  <2>4. ThreadRight(t)'
    BY <1>2, <2>2, <2>3 DEF ThreadRight, Pinned
  <2>5. QED
    BY <1>1, <2>1, <2>2, <2>4, StepRight DEF CredInv
<1>5. CASE StoreHandle(t)
  <2> DEFINE entry == [spec |-> spec, name |-> call[t].name,
                       version |-> call[t].version, held |-> held[t]]
  <2>1. Goto(t, "storingHandle", "returned") /\ held' = [held EXCEPT ![t] = held[t]]
        /\ resolved' = [resolved EXCEPT ![t] = resolved[t]]
        /\ UNCHANGED <<env, call, began, connections>>
    BY <1>2, <1>5 DEF StoreHandle, CachesTypeOK
  <2>2. KeyRight(spec, held[t], began[t], env) /\ Pinned(t) /\ call[t] \in Call
    BY <1>1, <1>2, <2>1 DEF ThreadRight, Goto, CallOK
  <2>3. KeyRight(spec, held[t], 0, env)
    BY <1>2, <2>2 DEF KeyRight, CachesTypeOK
  <2>4. entry \in SoundHandles(env)
    BY <1>2, <2>2, <2>3 DEF SoundHandles, PinnedHandle, Call, Pinned, CachesTypeOK
  <2>5. handles \in Seq(SoundHandles(env))
    BY DEF CredInv
  <2>6. Insert(handles, entry, HandleCacheSize) \in Seq(SoundHandles(env))
    BY <2>4, <2>5, InsertAppends, CacheSizesAssumption
  <2>7. handles' \in Seq(SoundHandles(env))
    BY <1>5, <2>5, <2>6 DEF StoreHandle
  <2>8. /\ pc'[t] = "returned" /\ held'[t] = held[t]
        /\ call'[t] = call[t] /\ began'[t] = began[t] /\ env' = env
    BY <1>2, <2>1 DEF Goto, CachesTypeOK
  <2>9. ThreadRight(t)'
    BY <1>2, <2>2, <2>3, <2>8 DEF ThreadRight, Pinned
  <2>10. QED
    BY <1>1, <2>1, <2>7, <2>9, StepRight DEF CredInv
<1>6. QED
  BY <1>3, <1>4, <1>5 DEF Opens

(* Handing a connection over and listing tables keep it in hand.            *)
LEMMA ListRight ==
  ASSUME CredInv, NEW t \in Thread, Lists(t) \/ ListingRaises(t) \/ ReturnConnection(t)
  PROVE  CredInv'
<1>1. TypeInv' /\ CachesTypeOK /\ ThreadRight(t)
  BY ListTypes DEF CredInv, TypeInv
<1>2. UNCHANGED <<env, cacheVars, call, resolved, held, calls, began>>
  BY DEF Lists, StartListing, List, ListingRaises, ReturnConnection
<1>3. PICK from \in {"connected", "listing"}, to \in {"listing", "returned", "failed"} :
        Goto(t, from, to)
  BY DEF Lists, StartListing, List, ListingRaises, ReturnConnection
<1>4. to = "returned" => ~Pinned(t) \/ from = "listing"
  BY <1>3 DEF Lists, StartListing, List, ListingRaises, ReturnConnection, Goto, Pinned
<1>5. held' = [held EXCEPT ![t] = held[t]] /\ resolved' = [resolved EXCEPT ![t] = resolved[t]]
  BY <1>1, <1>2 DEF CachesTypeOK
<1>6. /\ pc[t] = from /\ pc'[t] = to /\ held'[t] = held[t]
      /\ call'[t] = call[t] /\ began'[t] = began[t] /\ env' = env
  BY <1>1, <1>2, <1>3 DEF Goto, CachesTypeOK
<1>7. KeyRight(call[t].spec, held[t], began[t], env) /\ began[t] \in Nat
  BY <1>1, <1>3, <1>6 DEF ThreadRight, CachesTypeOK
<1>8. KeyRight(call[t].spec, held[t], IF Pinned(t) THEN 0 ELSE began[t], env)
  BY <1>1, <1>7 DEF KeyRight, CachesTypeOK
<1>9. ThreadRight(t)'
  BY <1>1, <1>3, <1>6, <1>7, <1>8 DEF ThreadRight, Pinned
<1>10. QED
  BY <1>1, <1>2, <1>3, <1>5, <1>9, StepRight DEF CredInv, cacheVars

LEMMA ClearRight ==
  ASSUME CredInv, NEW t \in Thread, Clears(t)
  PROVE  CredInv'
<1>1. TypeInv' /\ CachesTypeOK /\ ThreadRight(t) /\ CallOK(t)
  BY ClearTypes DEF CredInv, TypeInv
<1>2. UNCHANGED <<env, call, resolved, held, began>>
      /\ (connections' = connections \/ connections' = <<>>)
      /\ (handles' = handles \/ handles' = <<>>)
  BY DEF Clears, ClearConnections, ClearHandles
<1>3. PICK from \in {"clear", "clearing"}, to \in {"clearing", "returned"} : Goto(t, from, to)
  BY DEF Clears, ClearConnections, ClearHandles
<1>4. /\ connections' \in Seq(SoundConnections(env))
      /\ handles' \in Seq(SoundHandles(env))
  BY <1>2, EmptySeq DEF CredInv
<1>5. held' = [held EXCEPT ![t] = held[t]] /\ resolved' = [resolved EXCEPT ![t] = resolved[t]]
  BY <1>1, <1>2 DEF CachesTypeOK
<1>6. ThreadRight(t)'
  BY <1>1, <1>2, <1>3 DEF ThreadRight, CallOK, Goto, CachesTypeOK
<1>7. QED
  BY <1>1, <1>2, <1>3, <1>4, <1>5, <1>6, StepRight

LEMMA CallRight ==
  ASSUME CredInv, NEW t \in Thread, Return(t) \/ \E c \in Calls[t] : StartCall(t, c)
  PROVE  CredInv'
<1>1. TypeInv' /\ CachesTypeOK
  BY CallTypes DEF CredInv, TypeInv
<1>2. UNCHANGED <<env, connections, handles>>
  BY DEF Return, StartCall, cacheVars
<1> DEFINE Untouched ==
             \A u \in Thread \ {t} :
               /\ pc'[u] = pc[u] /\ call'[u] = call[u] /\ began'[u] = began[u]
               /\ held'[u] = held[u] /\ resolved'[u] = resolved[u]
<1>3. pc'[t] \in {"idle", "clear", "handle", "resolve"} /\ began'[t] <= env /\ Untouched
  <2>1. CASE Return(t)
    BY <1>1, <2>1 DEF Return, Goto, CachesTypeOK
  <2>2. ASSUME NEW c \in Calls[t], StartCall(t, c)
        PROVE  pc'[t] \in {"idle", "clear", "handle", "resolve"} /\ began'[t] <= env /\ Untouched
    <3>1. c \in Call
      BY CallsAssumption
    <3>2. FirstStep(c) \in {"clear", "handle", "resolve"}
      BY <3>1 DEF FirstStep
    <3>3. pc' = [pc EXCEPT ![t] = FirstStep(c)] /\ call' = [call EXCEPT ![t] = c]
          /\ began' = [began EXCEPT ![t] = env] /\ UNCHANGED <<resolved, held>>
      BY <2>2 DEF StartCall, Goto
    <3>4. QED
      BY <1>1, <3>2, <3>3 DEF CachesTypeOK
  <2>3. QED
    BY <2>1, <2>2
<1>4. ThreadRight(t)'
  BY <1>2, <1>3 DEF ThreadRight
<1>5. \A u \in Thread \ {t} : ThreadRight(u)'
  BY <1>2, <1>3 DEF CredInv, ThreadRight, KeyRight, Pinned
<1>6. QED
  BY <1>1, <1>2, <1>4, <1>5 DEF CredInv

(* What was right stays so when the environment's key moves on.             *)
LEMMA RotateRight ==
  ASSUME ForwardRotations, CredInv, NEW pair \in Rotations, Rotate(pair[2])
  PROVE  CredInv'
<1>1. TypeInv' /\ CachesTypeOK
  BY RotateTypes DEF CredInv, TypeInv
<1>2. UNCHANGED <<cacheVars, threadVars>> /\ env <= env' /\ env' \in Nat
  BY KeysAssumption DEF Rotate, ForwardRotations
<1>3. SoundConnections(env) \subseteq SoundConnections(env')
  BY <1>1, <1>2 DEF SoundConnections, KeyRight, Connection, CachesTypeOK
<1>4. SoundHandles(env) \subseteq SoundHandles(env')
  BY <1>1, <1>2 DEF SoundHandles, KeyRight, PinnedHandle, CachesTypeOK
<1>5. connections' \in Seq(SoundConnections(env')) /\ handles' \in Seq(SoundHandles(env'))
  BY <1>2, <1>3, <1>4, SeqMonotonic DEF CredInv, cacheVars
<1>6. ASSUME NEW t \in Thread PROVE ThreadRight(t)'
  BY <1>1, <1>2 DEF CredInv, ThreadRight, KeyRight, Pinned, threadVars, CachesTypeOK
<1>7. QED
  BY <1>1, <1>5, <1>6 DEF CredInv

LEMMA NextRight ==
  ASSUME ForwardRotations
  PROVE  CredInv /\ [Next]_vars => CredInv'
<1> SUFFICES ASSUME CredInv, [Next]_vars PROVE CredInv'
  OBVIOUS
<1>1. ASSUME NEW t \in Thread, Steps(t) \/ ListingRaises(t) PROVE CredInv'
  BY <1>1, ConnectRight, OpenRight, ListRight, ClearRight, CallRight DEF Steps
<1>2. ASSUME NEW t \in Thread, \E c \in Calls[t] : StartCall(t, c) PROVE CredInv'
  BY <1>2, CallRight
<1>3. ASSUME NEW pair \in Rotations, Rotate(pair[2]) PROVE CredInv'
  BY <1>3, RotateRight
<1>4. CASE OthersChangeTables \/ UNCHANGED vars
  <2>1. UNCHANGED <<env, cacheVars, threadVars>> /\ TypeInv'
    BY <1>4, NextTypes DEF OthersChangeTables, vars, CredInv
  <2>2. QED
    BY <2>1 DEF cacheVars, threadVars, CredInv, ThreadRight, KeyRight, Pinned
<1>5. QED
  BY <1>1, <1>2, <1>3, <1>4 DEF Next, Idle

(* No call returns a connection or an unpinned table with a credential      *)
(* other than its spec's, or than one the environment had during the call:  *)
(* for any threads, rotations forward, evictions and clearings.             *)
THEOREM CredentialsRight ==
  ASSUME ForwardRotations
  PROVE  Spec => []CredentialIsRight
<1>1. CredInv => CredentialIsRight
  <2>1. SUFFICES ASSUME CredInv, NEW t \in Thread, Returned(t)
                 PROVE  LET spec == call[t].spec
                        IN CASE ~spec.remote                   -> held[t] = 0
                             [] spec.remote /\ spec.apiKey # 0 -> held[t] = spec.apiKey
                             [] OTHER -> held[t] # 0 /\ (Fresh(t) \/ Pinned(t))
    BY DEF CredentialIsRight
  <2>2. KeyRight(call[t].spec, held[t], IF Pinned(t) THEN 0 ELSE began[t], env)
    BY <2>1 DEF CredInv, ThreadRight, Returned
  <2>3. call[t].spec.remote \in BOOLEAN
    BY <2>1 DEF CredInv, TypeInv, CallOK, Returned, Call, ConnectionSpec
  <2>4. QED
    BY <2>2, <2>3 DEF KeyRight, Fresh
<1>2. QED
  BY <1>1, InitRight, NextRight, PTL DEF Spec

-----------------------------------------------------------------------------
(* Names in their order.                                                    *)

(* A finite set of names has a last one.                                    *)
LEMMA FiniteIsBounded ==
  ASSUME NEW S \in SUBSET Nat, IsFiniteSet(S)
  PROVE  \E b \in Nat : \A n \in S : n < b
<1> DEFINE P == {s \in Seq(Nat) : \E b \in Nat : \A i \in 1..Len(s) : s[i] < b}
<1>1. <<>> \in P
  <2>1. <<>> \in Seq(Nat) /\ 1..Len(<<>>) = {}
    BY EmptySeq
  <2>. QED
    BY <2>1
<1>2. ASSUME NEW s \in Seq(Nat), NEW n \in Nat, s \in P
      PROVE  Append(s, n) \in P
  <2>1. PICK b \in Nat : \A i \in 1..Len(s) : s[i] < b
    BY <1>2
  <2>2. /\ Append(s, n) \in Seq(Nat) /\ Len(Append(s, n)) = Len(s) + 1 /\ Len(s) \in Nat
        /\ \A i \in 1..Len(s) : Append(s, n)[i] = s[i] /\ s[i] \in Nat
        /\ Append(s, n)[Len(s) + 1] = n
    BY AppendProperties, LenProperties, ElementOfSeq
  <2>3. ASSUME NEW i \in 1..(Len(s) + 1)
        PROVE  Append(s, n)[i] < b + n + 1
    <3>1. CASE i = Len(s) + 1
      BY <2>2, <3>1
    <3>2. CASE i \in 1..Len(s)
      <4>1. Append(s, n)[i] < b /\ Append(s, n)[i] \in Nat
        BY <2>1, <2>2, <3>2
      <4>. QED
        BY <4>1
    <3>. QED
      BY <2>2, <3>1, <3>2
  <2>4. b + n + 1 \in Nat /\ \A i \in 1..Len(Append(s, n)) : Append(s, n)[i] < b + n + 1
    BY <2>2, <2>3
  <2>. QED
    BY <2>2, <2>4
<1>3. Seq(Nat) \subseteq P
  <2> HIDE DEF P
  <2>. QED
    BY <1>1, <1>2, SeqInduction
<1>4. PICK k \in Nat : ExistsSurjection(1..k, S)
  BY FS_NatSurjection
<1>5. PICK f \in [1..k -> S] : \A n \in S : \E i \in 1..k : f[i] = n
  BY <1>4 DEF ExistsSurjection, Surjection
<1>6. f \in Seq(Nat) /\ Len(f) = k
  <2>1. f \in Seq(S) /\ Len(f) = k
    BY IsASeq, LenProperties
  <2>. QED
    BY <2>1, SeqMonotonic
<1>7. PICK b \in Nat : \A i \in 1..Len(f) : f[i] < b
  BY <1>3, <1>6
<1>. QED
  BY <1>5, <1>6, <1>7

(* A name after all others goes to the end.                                 *)
LEMMA SortedAppend ==
  ASSUME NEW s \in Seq(Nat), NEW n \in Nat, Sorted(s), \A m \in ToSet(s) : m < n
  PROVE  Append(s, n) \in Seq(Nat) /\ Sorted(Append(s, n)) /\ ToSet(Append(s, n)) = ToSet(s) \cup {n}
<1>1. /\ Append(s, n) \in Seq(Nat) /\ Len(Append(s, n)) = Len(s) + 1 /\ Len(s) \in Nat
      /\ \A i \in 1..Len(s) : Append(s, n)[i] = s[i]
      /\ Append(s, n)[Len(s) + 1] = n
      /\ DOMAIN s = 1..Len(s) /\ DOMAIN Append(s, n) = 1..(Len(s) + 1)
  BY AppendProperties, LenProperties
<1>2. ASSUME NEW i \in 1..(Len(s) + 1), NEW j \in 1..(Len(s) + 1), i < j
      PROVE  Append(s, n)[i] < Append(s, n)[j]
  <2>1. i \in 1..Len(s) /\ Append(s, n)[i] = s[i]
    BY <1>1, <1>2
  <2>2. CASE j = Len(s) + 1
    BY <1>1, <2>1, <2>2 DEF ToSet
  <2>3. CASE j \in 1..Len(s)
    BY <1>1, <1>2, <2>1, <2>3 DEF Sorted
  <2>. QED
    BY <1>1, <2>2, <2>3
<1>3. ToSet(Append(s, n)) = ToSet(s) \cup {n}
  BY <1>1 DEF ToSet
<1>. QED
  BY <1>1, <1>2, <1>3 DEF Sorted

(* Names below a bound can be put in order.                                 *)
LEMMA OrderBelow ==
  ASSUME NEW b \in Nat, NEW S \in SUBSET Nat, \A n \in S : n < b
  PROVE  \E s \in Seq(Nat) : Sorted(s) /\ ToSet(s) = S
<1> DEFINE Orderable(X) == \E s \in Seq(Nat) : Sorted(s) /\ ToSet(s) = X
           T == {c \in Nat : \A X \in SUBSET Nat : (\A n \in X : n < c) => Orderable(X)}
<1>1. 0 \in T
  <2>1. ASSUME NEW X \in SUBSET Nat, \A n \in X : n < 0
        PROVE  Orderable(X)
    <3>1. X = {}
      BY <2>1
    <3>2. <<>> \in Seq(Nat) /\ DOMAIN <<>> = {}
      BY EmptySeq
    <3>3. Sorted(<<>>) /\ ToSet(<<>>) = {}
      BY <3>2 DEF Sorted, ToSet
    <3>. QED
      BY <3>1, <3>2, <3>3
  <2>. QED
    BY <2>1
<1>2. ASSUME NEW c \in Nat, c \in T
      PROVE  c + 1 \in T
  <2>1. ASSUME NEW X \in SUBSET Nat, \A n \in X : n < c + 1
        PROVE  Orderable(X)
    <3>1. X \ {c} \in SUBSET Nat /\ \A n \in X \ {c} : n < c
      BY <2>1
    <3>2. PICK s \in Seq(Nat) : Sorted(s) /\ ToSet(s) = X \ {c}
      BY <1>2, <3>1
    <3>3. CASE c \in X
      <4>1. Append(s, c) \in Seq(Nat) /\ Sorted(Append(s, c)) /\ ToSet(Append(s, c)) = ToSet(s) \cup {c}
        BY <3>1, <3>2, SortedAppend
      <4>2. ToSet(s) \cup {c} = X
        BY <3>2, <3>3
      <4>. QED
        BY <4>1, <4>2
    <3>4. CASE c \notin X
      <4>1. X \ {c} = X
        BY <3>4
      <4>. QED
        BY <3>2, <4>1
    <3>. QED
      BY <3>3, <3>4
  <2> HIDE DEF Orderable
  <2>. QED
    BY <2>1
<1>3. Nat \subseteq T
  <2> HIDE DEF T
  <2>. QED
    BY <1>1, <1>2, SetInduction
<1>. QED
  BY <1>3

(* Each of two different places holds a different name.                     *)
LEMMA SortedIsInjective ==
  ASSUME NEW s \in Seq(Nat), Sorted(s)
  PROVE  IsInjective(s)
<1>1. SUFFICES ASSUME NEW i \in DOMAIN s, NEW j \in DOMAIN s, s[i] = s[j]
               PROVE  i = j
  BY DEF IsInjective
<1>2. i \in Nat /\ j \in Nat /\ s[i] \in Nat /\ s[j] \in Nat
  BY LenProperties, ElementOfSeq
<1>3. ~(i < j) /\ ~(j < i)
  BY <1>1, <1>2 DEF Sorted
<1>. QED
  BY <1>2, <1>3

(* What the service lists: every name once, in order.                       *)
LEMMA InOrderIs ==
  ASSUME NEW S \in SUBSET Nat, IsFiniteSet(S)
  PROVE  InOrder(S) \in Seq(S) /\ Sorted(InOrder(S)) /\ ToSet(InOrder(S)) = S
<1>1. PICK s \in Seq(Nat) : Sorted(s) /\ ToSet(s) = S
  BY FiniteIsBounded, OrderBelow
<1>2. Len(s) \in Nat /\ DOMAIN s = 1..Len(s) /\ s \in [1..Len(s) -> S]
  <2>1. Len(s) \in Nat /\ DOMAIN s = 1..Len(s) /\ s \in [1..Len(s) -> Nat]
    BY LenProperties
  <2>2. \A i \in 1..Len(s) : s[i] \in S
    BY <1>1, <2>1 DEF ToSet
  <2>. QED
    BY <2>1, <2>2
<1>3. s \in Bijection(1..Len(s), S)
  <2>1. IsInjective(s)
    BY <1>1, SortedIsInjective
  <2>2. \A n \in S : \E i \in 1..Len(s) : s[i] = n
    BY <1>1, <1>2 DEF ToSet
  <2>. QED
    BY <1>2, <2>1, <2>2 DEF Bijection, Injection, Surjection
<1>4. Cardinality(S) = Len(s)
  BY <1>2, <1>3, FS_CountingElements DEF ExistsBijection
<1>5. \E r \in [1..Cardinality(S) -> S] : Sorted(r) /\ ToSet(r) = S
  BY <1>1, <1>2, <1>4
<1>6. InOrder(S) \in [1..Cardinality(S) -> S] /\ Sorted(InOrder(S)) /\ ToSet(InOrder(S)) = S
  BY <1>5 DEF InOrder
<1>7. InOrder(S) \in Seq(S)
  BY <1>2, <1>4, <1>6, IsASeq
<1>. QED
  BY <1>6, <1>7

-----------------------------------------------------------------------------
(* Pages.                                                                   *)

(* The names a page has, beside those the service has left: in order, a     *)
(* first part of them, all of them when the page is empty or a bare list.   *)
LEMMA PageIs ==
  ASSUME ListingTypeOK, IsFiniteSet(tables), NEW t \in Thread, NEW page \in Pages(t)
  PROVE  /\ page \in Seq(Name) /\ page \in Seq(Nat) /\ Sorted(page)
         /\ ToSet(page) \subseteq NamesAfter(token[t])
         /\ \A n \in NamesAfter(token[t]), m \in ToSet(page) : n <= m => n \in ToSet(page)
         /\ page = <<>> => NamesAfter(token[t]) = {}
         /\ lister[t] = "plain" => NamesAfter(token[t]) \subseteq ToSet(page)
<1> DEFINE S == NamesAfter(token[t])
           left == InOrder(S)
<1>1. S \subseteq Name /\ S \in SUBSET Nat /\ IsFiniteSet(S)
  <2>1. S \in SUBSET tables
    BY DEF NamesAfter
  <2>. QED
    BY <2>1, FS_Subset, NameAssumption DEF ListingTypeOK
<1> HIDE DEF S
<1>2. left \in Seq(S) /\ Sorted(left) /\ ToSet(left) = S
  BY <1>1, InOrderIs
<1>3. PICK n \in 0..Len(left) : page = SubSeq(left, 1, n)
  BY DEF Pages, S
<1>4. (page = <<>> => left = <<>>) /\ (lister[t] = "plain" => page = left)
  BY DEF Pages, S
<1> HIDE DEF left
<1>5. /\ Len(left) \in Nat /\ DOMAIN left = 1..Len(left)
      /\ \A i \in 1..Len(left) : left[i] \in S
  BY <1>2, LenProperties, ElementOfSeq
<1>6. /\ page \in Seq(S) /\ Len(page) = n /\ DOMAIN page = 1..n
      /\ \A i \in 1..n : page[i] = left[i]
  <2>1. 1 \in Int /\ n \in Int /\ n \in Nat /\ \A i \in 1..n : left[i] \in S
    BY <1>5
  <2>2. /\ page \in Seq(S)
        /\ Len(page) = IF 1 <= n THEN n - 1 + 1 ELSE 0
        /\ \A i \in 1..(n - 1 + 1) : page[i] = left[1 + i - 1]
    BY <1>3, <2>1, SubSeqProperties
  <2>3. Len(page) = n /\ n - 1 + 1 = n
    BY <2>1, <2>2
  <2>4. DOMAIN page = 1..n
    BY <2>2, <2>3, LenProperties
  <2>. QED
    BY <2>1, <2>2, <2>3, <2>4
<1>7. page \in Seq(Name) /\ page \in Seq(Nat)
  BY <1>1, <1>6, SeqMonotonic
<1>8. Sorted(page)
  BY <1>2, <1>5, <1>6 DEF Sorted
<1>9. ToSet(page) \subseteq S
  BY <1>5, <1>6 DEF ToSet
<1>10. ASSUME NEW k \in S, NEW m \in ToSet(page), k <= m
       PROVE  k \in ToSet(page)
  <2>1. PICK i \in 1..n : m = left[i]
    BY <1>6 DEF ToSet
  <2>2. PICK j \in 1..Len(left) : k = left[j]
    BY <1>2, <1>5 DEF ToSet
  <2>3. i \in 1..Len(left)
    BY <1>3, <1>5
  <2>4. k \in Nat /\ m \in Nat
    BY <1>1, <1>5, <2>1, <2>3
  <2>5. ~(i < j)
    BY <1>2, <1>5, <1>10, <2>1, <2>2, <2>3, <2>4 DEF Sorted
  <2>6. j \in 1..n
    BY <2>3, <2>5
  <2>. QED
    BY <1>6, <2>2, <2>6 DEF ToSet
<1>11. page = <<>> => S = {}
  <2>1. <<>> \in Seq(S) /\ DOMAIN <<>> = {}
    BY EmptySeq
  <2>. QED
    BY <1>2, <1>4, <2>1 DEF ToSet
<1>12. lister[t] = "plain" => S \subseteq ToSet(page)
  BY <1>2, <1>4
<1>. QED
  BY <1>7, <1>8, <1>9, <1>10, <1>11, <1>12 DEF S

(* The last of a page's names is the greatest.                              *)
LEMMA LastIsGreatest ==
  ASSUME NEW page \in Seq(Nat), Sorted(page), page # <<>>
  PROVE  Last(page) \in ToSet(page) /\ Last(page) \in Nat /\ \A n \in ToSet(page) : n <= Last(page)
<1> DEFINE k == Len(page)
<1>1. k \in Nat \ {0} /\ DOMAIN page = 1..k /\ \A i \in 1..k : page[i] \in Nat
  BY LenProperties, EmptySeq, ElementOfSeq
<1>2. Last(page) = page[k]
  BY DEF Last
<1> HIDE DEF k
<1>3. k \in 1..k /\ Last(page) \in Nat /\ Last(page) \in ToSet(page)
  BY <1>1, <1>2 DEF ToSet
<1>4. ASSUME NEW i \in 1..k
      PROVE  page[i] <= Last(page)
  <2>1. CASE i = k
    BY <1>2, <1>3, <2>1
  <2>2. CASE i # k
    <3>1. i < k
      BY <1>1, <2>2
    <3>2. page[i] < page[k]
      BY <1>1, <1>3, <3>1 DEF Sorted
    <3>. QED
      BY <1>1, <1>2, <1>3, <3>2
  <2>. QED
    BY <2>1, <2>2
<1>. QED
  BY <1>1, <1>3, <1>4 DEF ToSet

(* Pages one after the other.                                               *)
LEMMA SortedConcat ==
  ASSUME NEW s \in Seq(Nat), NEW r \in Seq(Nat), Sorted(s), Sorted(r),
         \A m \in ToSet(s), n \in ToSet(r) : m < n
  PROVE  s \o r \in Seq(Nat) /\ Sorted(s \o r) /\ ToSet(s \o r) = ToSet(s) \cup ToSet(r)
<1> DEFINE c == s \o r
           a == Len(s)
           b == Len(r)
<1>1. a \in Nat /\ b \in Nat /\ DOMAIN s = 1..a /\ DOMAIN r = 1..b
  BY LenProperties
<1>2. /\ c \in Seq(Nat) /\ Len(c) = a + b
      /\ \A i \in 1..(a + b) : c[i] = IF i <= a THEN s[i] ELSE r[i - a]
  BY ConcatProperties
<1>3. DOMAIN c = 1..(a + b)
  BY <1>2, LenProperties
<1> HIDE DEF c, a, b
<1>4. ASSUME NEW i \in 1..(a + b), NEW j \in 1..(a + b), i < j
      PROVE  c[i] < c[j]
  <2>1. CASE j <= a
    <3>1. i \in 1..a /\ j \in 1..a /\ c[i] = s[i] /\ c[j] = s[j]
      BY <1>1, <1>2, <1>4, <2>1
    <3>. QED
      BY <1>1, <1>4, <3>1 DEF Sorted
  <2>2. CASE i <= a /\ ~(j <= a)
    <3>1. i \in 1..a /\ j - a \in 1..b /\ c[i] = s[i] /\ c[j] = r[j - a]
      BY <1>1, <1>2, <2>2
    <3>. QED
      BY <1>1, <3>1 DEF ToSet
  <2>3. CASE ~(i <= a)
    <3>1. i - a \in 1..b /\ j - a \in 1..b /\ c[i] = r[i - a] /\ c[j] = r[j - a] /\ i - a < j - a
      BY <1>1, <1>2, <1>4, <2>3
    <3>. QED
      BY <1>1, <3>1 DEF Sorted
  <2>. QED
    BY <1>1, <2>1, <2>2, <2>3
<1>5. Sorted(c)
  BY <1>3, <1>4 DEF Sorted
<1>6. ASSUME NEW n
      PROVE  n \in ToSet(c) <=> n \in ToSet(s) \cup ToSet(r)
  <2>1. ASSUME n \in ToSet(c) PROVE n \in ToSet(s) \cup ToSet(r)
    <3>1. PICK i \in 1..(a + b) : n = c[i]
      BY <1>3, <2>1 DEF ToSet
    <3>2. CASE i <= a
      <4>1. i \in 1..a /\ n = s[i]
        BY <1>1, <1>2, <3>1, <3>2
      <4>. QED
        BY <1>1, <4>1 DEF ToSet
    <3>3. CASE ~(i <= a)
      <4>1. i - a \in 1..b /\ n = r[i - a]
        BY <1>1, <1>2, <3>1, <3>3
      <4>. QED
        BY <1>1, <4>1 DEF ToSet
    <3>. QED
      BY <3>2, <3>3
  <2>2. ASSUME n \in ToSet(s) PROVE n \in ToSet(c)
    <3>1. PICK i \in 1..a : n = s[i]
      BY <1>1, <2>2 DEF ToSet
    <3>2. i \in 1..(a + b) /\ c[i] = n
      BY <1>1, <1>2, <3>1
    <3>. QED
      BY <1>3, <3>2 DEF ToSet
  <2>3. ASSUME n \in ToSet(r) PROVE n \in ToSet(c)
    <3>1. PICK i \in 1..b : n = r[i]
      BY <1>1, <2>3 DEF ToSet
    <3>2. a + i \in 1..(a + b) /\ (a + i) - a = i /\ ~(a + i <= a)
      BY <1>1
    <3>3. c[a + i] = n
      BY <1>2, <3>1, <3>2
    <3>. QED
      BY <1>3, <3>2, <3>3 DEF ToSet
  <2>. QED
    BY <2>1, <2>2, <2>3
<1>7. ToSet(c) = ToSet(s) \cup ToSet(r)
  BY <1>6
<1>. QED
  BY <1>2, <1>5, <1>7 DEF c

-----------------------------------------------------------------------------
(* What a listing has gathered.                                             *)

(* Under way: names in order up to the token, among them every table up to  *)
(* it that was there throughout.                                            *)
Gathered(t) ==
  pc[t] = "listing" =>
    /\ throughout[t] \subseteq tables /\ tables \subseteq during[t]
    /\ ToSet(names[t]) \subseteq during[t]
    /\ Sorted(names[t])
    /\ \A n \in ToSet(names[t]) : n <= token[t]
    /\ \A n \in throughout[t] : n <= token[t] => n \in ToSet(names[t])

(* Over: what it names is exact.                                            *)
Exact(t) ==
  pc[t] = "returned" /\ call[t].op = "list" =>
    /\ throughout[t] \subseteq ToSet(names[t])
    /\ ToSet(names[t]) \subseteq during[t]
    /\ IsInjective(names[t])

ListingInv ==
  /\ TypeInv /\ ListingTypeOK /\ IsFiniteSet(tables)
  /\ \A t \in Thread : Gathered(t) /\ Exact(t)

LEMMA InitListing == Init => ListingInv
<1> SUFFICES ASSUME Init PROVE ListingInv
  OBVIOUS
<1>1. TypeInv
  BY InitTypes
<1>2. ListingInit /\ pc = [t \in Thread |-> "idle"]
  BY DEF Init
<1>3. tables \subseteq Name /\ IsFiniteSet(tables)
  BY <1>2, NameAssumption DEF ListingInit
<1>4. <<>> \in Seq(Name)
  BY EmptySeq
<1>5. ListingTypeOK
  BY <1>2, <1>3, <1>4 DEF ListingInit, ListingTypeOK
<1>6. \A t \in Thread : Gathered(t) /\ Exact(t)
  BY <1>2 DEF Gathered, Exact
<1>. QED
  BY <1>1, <1>3, <1>5, <1>6 DEF ListingInv

(* A step of one thread, which leaves the others and the tables alone.      *)
LEMMA OneThreadSteps ==
  ASSUME ListingInv, NEW t \in Thread, TypeInv', ListingTypeOK', tables' = tables,
         \A u \in Thread \ {t} :
           /\ pc'[u] = pc[u] /\ call'[u] = call[u] /\ names'[u] = names[u]
           /\ token'[u] = token[u] /\ throughout'[u] = throughout[u] /\ during'[u] = during[u],
         Gathered(t)', Exact(t)'
  PROVE  ListingInv'
<1>1. \A u \in Thread \ {t} : Gathered(u)' /\ Exact(u)'
  BY DEF ListingInv, Gathered, Exact
<1>. QED
  BY <1>1 DEF ListingInv

(* A step that has nothing to do with listings.                             *)
LEMMA QuietSteps ==
  ASSUME ListingInv, NEW t \in Thread, TypeInv', UNCHANGED listingVars,
         \A u \in Thread \ {t} : pc'[u] = pc[u] /\ call'[u] = call[u],
         pc'[t] # "listing", pc'[t] = "returned" => call'[t].op # "list"
  PROVE  ListingInv'
<1>1. ListingTypeOK'
  BY DEF ListingInv, ListingTypeOK, listingVars, callerVars
<1>2. Gathered(t)' /\ Exact(t)'
  BY DEF Gathered, Exact
<1>. QED
  BY <1>1, <1>2, OneThreadSteps DEF listingVars, callerVars

LEMMA ConnectGathers ==
  ASSUME ListingInv, NEW t \in Thread, Connects(t) \/ Opens(t) \/ Clears(t)
  PROVE  ListingInv'
<1>1. TypeInv' /\ CachesTypeOK /\ CallOK(t)
  BY ConnectTypes, OpenTypes, ClearTypes DEF ListingInv, TypeInv
<1>2. call' = call /\ UNCHANGED listingVars
  BY DEF Connects, ResolveKey, FindConnection, OpenConnection, StoreConnection,
         Opens, FindHandle, OpenTable, StoreHandle, Clears, ClearConnections, ClearHandles
<1>3. PICK from \in {"resolve", "lookup", "opening", "storing", "handle", "connected",
                     "storingHandle", "clear", "clearing"},
           to \in {"lookup", "opening", "connected", "storing", "failed", "resolve",
                   "returned", "storingHandle", "clearing"} :
        Goto(t, from, to) /\ (from = "connected" => call[t].op = "open")
          /\ (to = "returned" => from \in {"handle", "connected", "storingHandle", "clearing"})
  <2>1. CASE Connects(t)
    BY <2>1 DEF Connects, ResolveKey, FindConnection, OpenConnection, StoreConnection
  <2>2. CASE Opens(t)
    BY <2>2 DEF Opens, FindHandle, OpenTable, StoreHandle
  <2>3. CASE Clears(t)
    BY <2>3 DEF Clears, ClearConnections, ClearHandles
  <2>. QED
    BY <2>1, <2>2, <2>3
<1>4. pc'[t] = to /\ pc[t] = from /\ \A u \in Thread \ {t} : pc'[u] = pc[u]
  BY <1>1, <1>3 DEF Goto, CachesTypeOK
<1>5. to = "returned" => call[t].op # "list"
  BY <1>1, <1>3, <1>4 DEF CallOK, Pinned
<1>. QED
  BY <1>1, <1>2, <1>3, <1>4, <1>5, QuietSteps

(* A listing begins with nothing gathered.                                  *)
LEMMA StartGathers ==
  ASSUME ListingInv, NEW t \in Thread, StartListing(t)
  PROVE  ListingInv'
<1>1. TypeInv' /\ CachesTypeOK /\ ListingTypeOK
  BY ListTypes DEF ListingInv, TypeInv, Lists
<1>2. /\ pc' = [pc EXCEPT ![t] = "listing"] /\ call' = call /\ tables' = tables
      /\ names' = [names EXCEPT ![t] = <<>>] /\ token' = [token EXCEPT ![t] = 0]
      /\ throughout' = [throughout EXCEPT ![t] = tables]
      /\ during' = [during EXCEPT ![t] = tables]
      /\ \E kind \in Listers : lister' = [lister EXCEPT ![t] = kind]
  BY DEF StartListing, BeginListing, Goto
<1>3. <<>> \in Seq(Name) /\ DOMAIN <<>> = {}
  BY EmptySeq
<1>4. ListingTypeOK'
  BY <1>1, <1>2, <1>3 DEF ListingTypeOK
<1>5. /\ pc'[t] = "listing" /\ names'[t] = <<>> /\ token'[t] = 0
      /\ throughout'[t] = tables /\ during'[t] = tables
  BY <1>1, <1>2 DEF ListingTypeOK, CachesTypeOK
<1>6. ToSet(<<>>) = {} /\ Sorted(<<>>)
  BY <1>3 DEF ToSet, Sorted
<1>7. \A n \in tables : ~(n <= 0)
  BY <1>1, NameAssumption DEF ListingTypeOK
<1>8. Gathered(t)' /\ Exact(t)'
  BY <1>2, <1>5, <1>6, <1>7 DEF Gathered, Exact
<1>9. \A u \in Thread \ {t} :
        /\ pc'[u] = pc[u] /\ call'[u] = call[u] /\ names'[u] = names[u]
        /\ token'[u] = token[u] /\ throughout'[u] = throughout[u] /\ during'[u] = during[u]
  BY <1>1, <1>2 DEF ListingTypeOK, CachesTypeOK
<1>. QED
  BY <1>1, <1>2, <1>4, <1>8, <1>9, OneThreadSteps

LEMMA MembersAre ==
  ASSUME NEW S, NEW s \in Seq(S)
  PROVE  ToSet(s) \subseteq S
<1>1. DOMAIN s = 1..Len(s) /\ \A i \in 1..Len(s) : s[i] \in S
  BY LenProperties, ElementOfSeq
<1>. QED
  BY <1>1 DEF ToSet

(* A further page keeps what is gathered right; with the last, or with      *)
(* table_names(), the listing is exact.                                     *)
LEMMA PageGathers ==
  ASSUME ListingInv, NEW t \in Thread, List(t)
  PROVE  ListingInv'
<1>1. TypeInv' /\ CachesTypeOK /\ ListingTypeOK /\ IsFiniteSet(tables) /\ Gathered(t)
  BY ListTypes DEF ListingInv, TypeInv, Lists
<1>2. pc[t] = "listing" /\ UNCHANGED <<call, tables, lister, throughout, during>>
  BY DEF List, FallBack, NextPage, Goto
<1>3. /\ tables \in SUBSET Nat /\ throughout[t] \subseteq tables /\ tables \subseteq during[t]
      /\ ToSet(names[t]) \subseteq during[t] /\ Sorted(names[t])
      /\ \A n \in ToSet(names[t]) : n <= token[t]
      /\ \A n \in throughout[t] : n <= token[t] => n \in ToSet(names[t])
      /\ names[t] \in Seq(Name) /\ token[t] \in Nat
  BY <1>1, <1>2, NameAssumption DEF Gathered, ListingTypeOK
<1>4. CASE FallBack(t) /\ Goto(t, "listing", "returned")
  <2>1. InOrder(tables) \in Seq(tables) /\ Sorted(InOrder(tables)) /\ ToSet(InOrder(tables)) = tables
    BY <1>1, <1>3, InOrderIs
  <2>2. InOrder(tables) \in Seq(Name) /\ InOrder(tables) \in Seq(Nat)
    BY <1>1, <1>3, <2>1, SeqMonotonic DEF ListingTypeOK
  <2>3. IsInjective(InOrder(tables))
    BY <2>1, <2>2, SortedIsInjective
  <2>4. /\ pc' = [pc EXCEPT ![t] = "returned"] /\ token' = token
        /\ names' = [names EXCEPT ![t] = InOrder(tables)]
    BY <1>4 DEF FallBack, Goto
  <2>5. ListingTypeOK'
    BY <1>1, <1>2, <2>2, <2>4 DEF ListingTypeOK
  <2>6. pc'[t] = "returned" /\ names'[t] = InOrder(tables)
    BY <1>1, <2>4 DEF ListingTypeOK, CachesTypeOK
  <2>7. Gathered(t)' /\ Exact(t)'
    BY <1>2, <1>3, <2>1, <2>3, <2>6 DEF Gathered, Exact
  <2>8. \A u \in Thread \ {t} : pc'[u] = pc[u] /\ names'[u] = names[u]
    BY <1>1, <2>4 DEF ListingTypeOK, CachesTypeOK
  <2>. QED
    BY <1>1, <1>2, <2>4, <2>5, <2>7, <2>8, OneThreadSteps
<1>5. ASSUME NEW last \in BOOLEAN, NextPage(t, last),
             Goto(t, "listing", IF last THEN "returned" ELSE "listing")
      PROVE  ListingInv'
  <2>1. PICK page \in Pages(t) :
          /\ last = LastPage(page, TokenOf(t, page))
          /\ names' = [names EXCEPT ![t] = names[t] \o page]
          /\ token' = [token EXCEPT ![t] = TokenOf(t, page)]
    BY <1>5 DEF NextPage
  <2> DEFINE after == TokenOf(t, page)
             left == NamesAfter(token[t])
  <2>2. /\ page \in Seq(Name) /\ page \in Seq(Nat) /\ Sorted(page)
        /\ ToSet(page) \subseteq left
        /\ \A n \in left, m \in ToSet(page) : n <= m => n \in ToSet(page)
        /\ page = <<>> => left = {}
        /\ lister[t] = "plain" => left \subseteq ToSet(page)
    BY <1>1, PageIs
  <2>3. /\ left \subseteq tables
        /\ \A n \in left : ~(n <= token[t])
        /\ \A n \in tables : ~(n <= token[t]) => n \in left
    <3>1. ASSUME NEW n \in tables
          PROVE  n > token[t] <=> ~(n <= token[t])
      <4>1. n \in Nat /\ token[t] \in Nat
        BY <1>3
      <4>. QED
        BY <4>1
    <3>. QED
      BY <3>1 DEF NamesAfter
  <2>4. \A m \in ToSet(names[t]), n \in ToSet(page) : m < n
    <3>1. ToSet(names[t]) \subseteq Nat /\ ToSet(page) \subseteq Nat
      BY <1>3, <2>2, NameAssumption, MembersAre
    <3>2. SUFFICES ASSUME NEW m \in ToSet(names[t]), NEW n \in ToSet(page) PROVE m < n
      OBVIOUS
    <3>3. m \in Nat /\ n \in Nat /\ m <= token[t] /\ ~(n <= token[t])
      BY <1>3, <2>2, <2>3, <3>1
    <3>. QED
      BY <1>3, <3>3
  <2>5. /\ names[t] \o page \in Seq(Nat) /\ Sorted(names[t] \o page)
        /\ ToSet(names[t] \o page) = ToSet(names[t]) \cup ToSet(page)
    <3>1. names[t] \in Seq(Nat)
      BY <1>3, NameAssumption, SeqMonotonic
    <3>. QED
      BY <1>3, <2>2, <2>4, <3>1, SortedConcat
  <2>6. /\ after \in Nat
        /\ page # <<>> /\ after # 0 => after = Last(page)
        /\ page # <<>> /\ after = 0 => lister[t] = "plain" \/ NamesAfter(Last(page)) = {}
    <3>1. CASE page = <<>>
      BY <1>3, <3>1 DEF TokenOf
    <3>2. CASE page # <<>>
      <4>1. Last(page) \in Nat /\ Last(page) \in Name
        BY <2>2, <3>2, ElementOfSeq, LenProperties, EmptySeq DEF Last
      <4>. QED
        BY <3>2, <4>1, NameAssumption DEF TokenOf
    <3>. QED
      BY <3>1, <3>2
  <2>7. page # <<>> => /\ Last(page) \in ToSet(page) /\ Last(page) \in Nat
                       /\ \A n \in ToSet(page) : n <= Last(page)
    BY <2>2, LastIsGreatest
  <2>8. names[t] \o page \in Seq(Name)
    BY <1>3, <2>2, ConcatProperties
  <2> HIDE DEF after, left
  <2>9. ToSet(names[t] \o page) \subseteq during[t]
    BY <1>3, <2>2, <2>3, <2>5
  <2>10. /\ pc' = [pc EXCEPT ![t] = IF last THEN "returned" ELSE "listing"]
         /\ pc'[t] = (IF last THEN "returned" ELSE "listing")
         /\ names'[t] = names[t] \o page /\ token'[t] = after
    BY <1>1, <1>5, <2>1 DEF Goto, ListingTypeOK, CachesTypeOK, after
  <2>11. ListingTypeOK'
    BY <1>1, <1>2, <2>1, <2>6, <2>8 DEF ListingTypeOK, after
  <2>12. \A u \in Thread \ {t} :
           pc'[u] = pc[u] /\ names'[u] = names[u] /\ token'[u] = token[u]
    BY <1>1, <2>1, <2>10 DEF ListingTypeOK, CachesTypeOK
  <2>13. CASE last = TRUE
    <3>1. after = 0 \/ page = <<>>
      BY <2>1, <2>13 DEF LastPage, after
    <3>2. left \subseteq ToSet(page)
      <4>1. CASE page = <<>>
        BY <2>2, <4>1
      <4>2. CASE page # <<>> /\ lister[t] # "plain"
        <5>1. NamesAfter(Last(page)) = {}
          BY <2>6, <3>1, <4>2
        <5>2. \A n \in left : n \in tables /\ n \in Nat /\ ~(n > Last(page))
          BY <1>3, <2>3, <5>1 DEF NamesAfter
        <5>3. \A n \in left : n <= Last(page)
          BY <2>7, <4>2, <5>2
        <5>. QED
          BY <2>2, <2>7, <4>2, <5>3
      <4>. QED
        BY <2>2, <4>1, <4>2
    <3>3. throughout[t] \subseteq ToSet(names[t] \o page)
      BY <1>3, <2>3, <2>5, <3>2
    <3>4. IsInjective(names[t] \o page)
      BY <2>5, SortedIsInjective
    <3>5. Gathered(t)' /\ Exact(t)'
      BY <1>2, <2>9, <2>10, <2>13, <3>3, <3>4 DEF Gathered, Exact
    <3>. QED
      BY <1>1, <1>2, <2>11, <2>12, <3>5, OneThreadSteps
  <2>14. CASE last = FALSE
    <3>1. page # <<>> /\ after = Last(page)
      BY <2>1, <2>6, <2>14 DEF LastPage, after
    <3>2. \A n \in ToSet(names[t] \o page) : n <= after
      <4>1. ToSet(names[t]) \subseteq Nat
        BY <1>3, NameAssumption, MembersAre
      <4>2. \A n \in ToSet(names[t]) : n < Last(page)
        BY <2>4, <2>7, <3>1
      <4>3. \A n \in ToSet(names[t]) : n <= Last(page)
        BY <2>7, <3>1, <4>1, <4>2
      <4>. QED
        BY <2>5, <2>7, <3>1, <4>3
    <3>3. ASSUME NEW n \in throughout[t], n <= after
          PROVE  n \in ToSet(names[t] \o page)
      <4>1. CASE n <= token[t]
        BY <1>3, <2>5, <4>1
      <4>2. CASE ~(n <= token[t])
        <5>1. n \in left
          BY <1>3, <2>3, <4>2
        <5>. QED
          BY <2>2, <2>5, <2>7, <3>1, <3>3, <5>1
      <4>. QED
        BY <4>1, <4>2
    <3>4. Gathered(t)' /\ Exact(t)'
      BY <1>2, <1>3, <2>5, <2>9, <2>10, <2>14, <3>2, <3>3 DEF Gathered, Exact
    <3>. QED
      BY <1>1, <1>2, <2>11, <2>12, <3>4, OneThreadSteps
  <2>. QED
    BY <2>13, <2>14
<1>6. CASE NextPage(t, TRUE) /\ Goto(t, "listing", "returned")
  BY <1>5, <1>6
<1>7. CASE NextPage(t, FALSE) /\ Goto(t, "listing", "listing")
  BY <1>5, <1>7
<1>. QED
  BY <1>4, <1>6, <1>7 DEF List

LEMMA CallGathers ==
  ASSUME ListingInv, NEW t \in Thread,
         ReturnConnection(t) \/ ListingRaises(t) \/ \E c \in Calls[t] : StartCall(t, c)
  PROVE  ListingInv'
<1>1. CachesTypeOK /\ UNCHANGED listingVars
  BY DEF ListingInv, TypeInv, ReturnConnection, ListingRaises, StartCall
<1>2. CASE ReturnConnection(t) \/ ListingRaises(t)
  <2>1. TypeInv' /\ call' = call
    BY <1>2, ListTypes DEF ListingInv, ReturnConnection, ListingRaises
  <2>2. PICK from \in {"connected", "listing"}, to \in {"returned", "failed"} :
          Goto(t, from, to) /\ (to = "returned" => call[t].op = "connect")
    BY <1>2 DEF ReturnConnection, ListingRaises
  <2>3. pc'[t] = to /\ \A u \in Thread \ {t} : pc'[u] = pc[u]
    BY <1>1, <2>2 DEF Goto, CachesTypeOK
  <2>. QED
    BY <1>1, <2>1, <2>2, <2>3, QuietSteps
<1>3. ASSUME NEW c \in Calls[t], StartCall(t, c) PROVE ListingInv'
  <2>1. TypeInv' /\ c \in Call
    BY <1>3, CallTypes, CallsAssumption DEF ListingInv
  <2>2. FirstStep(c) \in {"clear", "handle", "resolve"}
    BY <2>1 DEF FirstStep
  <2>3. pc' = [pc EXCEPT ![t] = FirstStep(c)] /\ call' = [call EXCEPT ![t] = c]
    BY <1>3 DEF StartCall, Goto
  <2>4. pc'[t] = FirstStep(c) /\ \A u \in Thread \ {t} : pc'[u] = pc[u] /\ call'[u] = call[u]
    BY <1>1, <2>3 DEF CachesTypeOK
  <2>. QED
    BY <1>1, <2>1, <2>2, <2>4, QuietSteps
<1>. QED
  BY <1>2, <1>3

LEMMA ReturnGathers ==
  ASSUME ListingInv, NEW t \in Thread, Return(t)
  PROVE  ListingInv'
<1>1. TypeInv' /\ CachesTypeOK /\ ListingTypeOK
  BY CallTypes DEF ListingInv, TypeInv
<1>2. /\ pc' = [pc EXCEPT ![t] = "idle"] /\ call' = [call EXCEPT ![t] = None]
      /\ ForgetListing(t)
  BY DEF Return, Goto
<1>3. <<>> \in Seq(Name)
  BY EmptySeq
<1>4. ListingTypeOK'
  BY <1>1, <1>2, <1>3 DEF ForgetListing, ListingTypeOK
<1>5. pc'[t] = "idle"
  BY <1>1, <1>2 DEF CachesTypeOK
<1>6. Gathered(t)' /\ Exact(t)'
  BY <1>5 DEF Gathered, Exact
<1>7. \A u \in Thread \ {t} :
        /\ pc'[u] = pc[u] /\ call'[u] = call[u] /\ names'[u] = names[u]
        /\ token'[u] = token[u] /\ throughout'[u] = throughout[u] /\ during'[u] = during[u]
  BY <1>1, <1>2 DEF ForgetListing, ListingTypeOK, CachesTypeOK
<1>8. tables' = tables
  BY <1>2 DEF ForgetListing
<1>. QED
  BY <1>1, <1>4, <1>6, <1>7, <1>8, OneThreadSteps

(* A table created during a listing is one more it may name; one dropped is *)
(* one less it must.                                                        *)
LEMMA OthersGather ==
  ASSUME ListingInv, OthersChangeTables
  PROVE  ListingInv'
<1>1. ListingTypeOK /\ IsFiniteSet(tables) /\ TypeInv /\ UNCHANGED <<env, cacheVars, threadVars>>
  BY DEF ListingInv, OthersChangeTables
<1>2. TypeInv'
  BY <1>1 DEF cacheVars, threadVars, TypeInv, CachesTypeOK, CallOK, Pinned
<1>3. pc' = pc /\ call' = call
  BY <1>1 DEF threadVars
<1> DEFINE callers == {t \in Thread : pc[t] = "listing"}
<1>4. ASSUME NEW n \in Name, CreateTable(n, callers) PROVE ListingInv'
  <2>1. /\ tables' = tables \cup {n} /\ UNCHANGED <<lister, names, token, throughout>>
        /\ during' = [t \in Thread |-> IF t \in callers THEN during[t] \cup {n} ELSE during[t]]
    BY <1>4 DEF CreateTable
  <2>2. IsFiniteSet(tables')
    BY <1>1, <2>1, FS_AddElement
  <2>3. ListingTypeOK'
    BY <1>1, <2>1 DEF ListingTypeOK
  <2>4. ASSUME NEW t \in Thread PROVE Gathered(t)' /\ Exact(t)'
    <3>1. during[t] \subseteq during'[t] /\ (pc[t] = "listing" => n \in during'[t])
      BY <2>1
    <3>. QED
      BY <1>3, <2>1, <3>1 DEF ListingInv, Gathered, Exact
  <2>. QED
    BY <1>2, <2>2, <2>3, <2>4 DEF ListingInv
<1>5. ASSUME NEW n \in Name, DropTable(n) PROVE ListingInv'
  <2>1. /\ tables' = tables \ {n} /\ UNCHANGED <<lister, names, token, during>>
        /\ throughout' = [t \in Thread |-> throughout[t] \ {n}]
    BY <1>5 DEF DropTable
  <2>2. IsFiniteSet(tables')
    BY <1>1, <2>1, FS_RemoveElement
  <2>3. ListingTypeOK'
    BY <1>1, <2>1 DEF ListingTypeOK
  <2>4. ASSUME NEW t \in Thread PROVE Gathered(t)' /\ Exact(t)'
    BY <1>3, <2>1 DEF ListingInv, Gathered, Exact
  <2>. QED
    BY <1>2, <2>2, <2>3, <2>4 DEF ListingInv
<1>. QED
  BY <1>4, <1>5 DEF OthersChangeTables

LEMMA NextGathers == ListingInv /\ [Next]_vars => ListingInv'
<1> SUFFICES ASSUME ListingInv, [Next]_vars PROVE ListingInv'
  OBVIOUS
<1>1. ASSUME NEW t \in Thread, Steps(t) \/ ListingRaises(t) PROVE ListingInv'
  BY <1>1, ConnectGathers, StartGathers, PageGathers, CallGathers, ReturnGathers DEF Steps, Lists
<1>2. ASSUME NEW t \in Thread, \E c \in Calls[t] : StartCall(t, c) PROVE ListingInv'
  BY <1>2, CallGathers
<1>3. CASE (\E pair \in Rotations : Rotate(pair[2])) \/ UNCHANGED vars
  <2>1. TypeInv'
    BY NextTypes DEF ListingInv
  <2>2. UNCHANGED <<pc, call, listingVars>>
    BY <1>3 DEF Rotate, threadVars, vars
  <2>. QED
    BY <2>1, <2>2 DEF ListingInv, ListingTypeOK, Gathered, Exact, listingVars, callerVars
<1>4. CASE OthersChangeTables
  BY <1>4, OthersGather
<1>. QED
  BY <1>1, <1>2, <1>3, <1>4 DEF Next, Idle

(* Every variable of the process, of its listings and of the service has    *)
(* its type.                                                                *)
THEOREM ConnectionsTypeCorrect == Spec => []TypeOK
<1>1. ListingInv => TypeOK
  BY DEF ListingInv, TypeInv, TypeOK
<1>. QED
  BY <1>1, InitListing, NextGathers, PTL DEF Spec

(* However other clients create and drop tables between its pages, and      *)
(* whichever of its two ways the listing ends: it names every table that    *)
(* was there throughout, none that was never there, and none twice.         *)
THEOREM ListingsExact == Spec => []ListingIsExact
<1>1. ListingInv => ListingIsExact
  BY DEF ListingInv, Exact, ListingIsExact
<1>. QED
  BY <1>1, InitListing, NextGathers, PTL DEF Spec
=============================================================================
