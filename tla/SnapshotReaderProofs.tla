------------------------ MODULE SnapshotReaderProofs ------------------------
(***************************************************************************)
(* What readers of Steam's pushes are given, for any number of readers,    *)
(* logons and messages and any depth of their buffers.                     *)
(***************************************************************************)
EXTENDS SnapshotReader, TLAPS

Places == {"call", "cache", "ask", "wait", "done"}
Outcomes == {"none", "Ok", "Codec", "Timeout", "WebSocket"}
AllKinds == {"friends", "nicknames", "groups", "persona"}
Marks == {"incremental", "removal", "partial", "garbled"}
Msg == {m \in [kind : AllKinds, epoch : Nat, flags : SUBSET Marks,
                ids : SUBSET (Readers \union {Stranger})] : m.flags \in Flags(m.kind)}

\* The atomic steps a step of the system may be.
LEMMA Steps ==
    ASSUME [ReadersNext]_snapshotVars
    PROVE  \/ \E k \in Kinds : Dispatch(k)
           \/ Dispatching \/ Drop \/ Logon \/ End \/ Relogin
           \/ \E r \in Readers : Subscribe(r) \/ (KindOf[r] \in Lists /\ ReadCache(r))
                                 \/ (KindOf[r] = "persona" /\ Ask(r)) \/ Recv(r) \/ Timeout(r)
           \/ UNCHANGED snapshotVars
BY DEF ReadersNext, Driver, Reader, request_friends_list, request_nicknames,
       request_friends_groups_list, request_player_summary, ReadList, Stopped, Lists

Held == \E m \in Msg : held = <<m>> /\ m.epoch = epoch /\ m.kind \in Kinds
Cached(k) == \E m \in Msg : cache[k] = <<m>> /\ m.kind = k

\* The shape of the state: what is in dispatch() is of this logon, and LoggedOn is
\* only ever published for it.
Types == /\ epoch \in Nat /\ watch \in Nat /\ watch <= epoch
         /\ drv \in {"idle", "first", "second", "down", "live", "cleared", "ended"}
         /\ drv \in {"first", "second"} => Held
         /\ DOMAIN cache = Lists /\ cache = [k \in Lists |-> cache[k]]
         /\ \A k \in Lists : cache[k] = Nothing \/ Cached(k)
         /\ at \in [Readers -> Places] /\ verdict \in [Readers -> Outcomes]
         /\ events \in [Readers -> Seq(Msg)]
         /\ \A r \in Readers : Len(events[r]) <= Depth
         /\ given \in [Readers -> {Nothing} \union {<<m>> : m \in Msg}]
         /\ calledAt \in [Readers -> Nat]
         /\ \A r \in Readers : calledAt[r] <= epoch
         /\ pushed \in [Kinds -> Nat] /\ lagged \subseteq Readers

\* A broadcast leaves every buffer a sequence of messages.
LEMMA SendTypes ==
    ASSUME NEW m \in Msg, events \in [Readers -> Seq(Msg)], Send(m),
           \A r \in Readers : Len(events[r]) <= Depth
    PROVE  /\ events' \in [Readers -> Seq(Msg)]
           /\ \A r \in Readers : Len(events'[r]) <= Depth
           /\ \A r \in Readers :
                 \/ events'[r] = events[r] /\ r \notin Subscribed
                 \/ r \in Subscribed /\ events'[r] = Append(events[r], m)
                 \/ r \in Subscribed /\ r \in lagged' /\ events[r] # <<>> /\ events'[r] = Append(Tail(events[r]), m)
<1>. DEFINE Q(r) == IF r \notin Subscribed THEN events[r]
                    ELSE Append(IF Len(events[r]) < Depth THEN events[r] ELSE Tail(events[r]), m)
<1>1. events' = [r \in Readers |-> Q(r)]
  BY DEF Send
<1>2. ASSUME NEW r \in Readers
      PROVE  /\ Q(r) \in Seq(Msg) /\ Len(Q(r)) <= Depth
             /\ \/ Q(r) = events[r] /\ r \notin Subscribed
                \/ r \in Subscribed /\ Q(r) = Append(events[r], m)
                \/ r \in Subscribed /\ Len(events[r]) = Depth /\ events[r] # <<>>
                   /\ Q(r) = Append(Tail(events[r]), m)
  <2>1. events[r] \in Seq(Msg)
    OBVIOUS
  <2>2. CASE Len(events[r]) < Depth \/ r \notin Subscribed
    BY <2>1, <2>2, SnapshotAssumption
  <2>3. CASE ~(Len(events[r]) < Depth) /\ r \in Subscribed
    <3>1. Len(events[r]) = Depth /\ events[r] # <<>>
      BY <2>1, <2>3, SnapshotAssumption
    <3>2. Tail(events[r]) \in Seq(Msg)
      BY <2>1, <3>1
    <3>3. Len(Append(Tail(events[r]), m)) = Depth
      BY <2>1, <3>1, <3>2, SnapshotAssumption
    <3>. QED
      BY <2>3, <3>1, <3>2, <3>3, SnapshotAssumption
  <2>. QED
    BY Zenon, <2>2, <2>3
<1>. HIDE DEF Q
<1>. QED
  BY <1>1, <1>2, Zenon DEF Send

\* What Steam sends is a message of this logon.
LEMMA MessageTypes ==
    ASSUME NEW k \in Kinds, epoch \in Nat, NEW m \in Messages(k)
    PROVE  m \in Msg /\ m.kind = k /\ m.epoch = epoch
<1>1. k \in {"friends", "nicknames", "groups", "persona"}
  BY SnapshotAssumption DEF Kinds, Lists
<1>2. Flags(k) \subseteq SUBSET Marks
  <2>1. CASE k = "friends"
    BY <2>1 DEF Flags, Marks
  <2>2. CASE k = "persona"
    BY <2>2 DEF Flags, Marks
  <2>3. CASE k = "nicknames" \/ k = "groups"
    BY <2>3 DEF Flags, Marks
  <2>. QED
    BY <1>1, <2>1, <2>2, <2>3
<1>3. m.kind = k /\ m.epoch = epoch /\ m.flags \in Flags(k)
  BY DEF Messages
<1>4. m.ids \in SUBSET (Readers \union {Stranger})
  BY DEF Messages
<1>5. m = [kind |-> m.kind, epoch |-> m.epoch, flags |-> m.flags, ids |-> m.ids]
  BY DEF Messages
<1>6. m.kind \in AllKinds
  BY <1>1, <1>3 DEF AllKinds
<1>7. m \in [kind : AllKinds, epoch : Nat, flags : SUBSET Marks, ids : SUBSET (Readers \union {Stranger})]
  BY <1>2, <1>3, <1>4, <1>5, <1>6
<1>. QED
  BY <1>3, <1>7 DEF Msg

LEMMA TypesInitially == ReadersInit => Types
<1>. SUFFICES ASSUME ReadersInit PROVE Types
  OBVIOUS
<1>1. events \in [Readers -> Seq(Msg)] /\ \A r \in Readers : Len(events[r]) <= Depth
  BY SnapshotAssumption DEF ReadersInit
<1>2. DOMAIN cache = Lists /\ cache = [k \in Lists |-> cache[k]] /\ \A k \in Lists : cache[k] = Nothing
  BY DEF ReadersInit
<1>3. given \in [Readers -> {Nothing} \union {<<m>> : m \in Msg}]
  BY DEF ReadersInit
<1>4. at \in [Readers -> Places] /\ verdict \in [Readers -> Outcomes]
  BY DEF ReadersInit, Places, Outcomes
<1>5. pushed \in [Kinds -> Nat]
  BY DEF ReadersInit
<1>6. calledAt \in [Readers -> Nat] /\ \A r \in Readers : calledAt[r] <= 1
  BY DEF ReadersInit
<1>. QED
  BY <1>1, <1>2, <1>3, <1>4, <1>5, <1>6 DEF ReadersInit, Types

\* A reader's own step changes only its own entries.
LEMMA ReaderTypes ==
    ASSUME Types, NEW r \in Readers,
           Subscribe(r) \/ (KindOf[r] \in Lists /\ ReadCache(r)) \/ Ask(r) \/ Recv(r) \/ Timeout(r)
    PROVE  Types'
<1>1. \/ events' = events
      \/ events[r] # <<>> /\ events' = [events EXCEPT ![r] = Tail(@)]
  BY Zenon DEF Subscribe, ReadCache, Ask, Recv, Timeout, Return
<1>2. events' \in [Readers -> Seq(Msg)] /\ \A q \in Readers : Len(events'[q]) <= Depth
  <2>1. CASE events' = events
    BY <2>1 DEF Types
  <2>2. CASE events[r] # <<>> /\ events' = [events EXCEPT ![r] = Tail(@)]
    <3>1. events[r] \in Seq(Msg)
      BY DEF Types
    <3>2. Tail(events[r]) \in Seq(Msg) /\ Len(Tail(events[r])) <= Depth
      BY <2>2, <3>1, SnapshotAssumption DEF Types
    <3>. QED
      BY <2>2, <3>2 DEF Types
  <2>. QED
    BY <1>1, <2>1, <2>2
<1>3. given' \in [Readers -> {Nothing} \union {<<m>> : m \in Msg}]
  <2>1. CASE KindOf[r] \in Lists /\ ReadCache(r)
    <3>1. given' = given \/ given' = [given EXCEPT ![r] = Nothing]
          \/ given' = [given EXCEPT ![r] = cache[KindOf[r]]]
      BY <2>1 DEF ReadCache, Return
    <3>2. cache[KindOf[r]] \in {Nothing} \union {<<m>> : m \in Msg}
      BY ZenonT(30), <2>1, ZenonT(60) DEF Types, Cached
    <3>. QED
      BY <3>1, <3>2, Zenon DEF Types
  <2>2. CASE Recv(r)
    <3>1. Head(events[r]) \in Msg
      BY <2>2 DEF Recv, Types
    <3>2. given' = given \/ given' = [given EXCEPT ![r] = Nothing]
          \/ given' = [given EXCEPT ![r] = <<Head(events[r])>>]
      BY <2>2 DEF Recv, Return
    <3>. QED
      BY <3>1, <3>2, ZenonT(60) DEF Types
  <2>3. CASE Subscribe(r) \/ Ask(r) \/ Timeout(r)
    BY <2>3 DEF Subscribe, Ask, Timeout, Return, Types
  <2>. QED
    BY <2>1, <2>2, <2>3
<1>4. at' \in [Readers -> Places] /\ verdict' \in [Readers -> Outcomes]
  <2>1. \/ at' = at
        \/ \E a \in Places : at' = [at EXCEPT ![r] = a]
    BY Zenon DEF Places, Subscribe, ReadCache, Ask, Recv, Timeout, Return
  <2>2. \/ verdict' = verdict
        \/ \E a \in Outcomes : verdict' = [verdict EXCEPT ![r] = a]
    BY DEF Outcomes, Subscribe, ReadCache, Ask, Recv, Timeout, Return
  <2>. QED
    BY <2>1, <2>2, Zenon DEF Types
<1>5. driver' = driver /\ lagged' = lagged
  BY DEF Subscribe, ReadCache, Ask, Recv, Timeout, Return
<1>6. calledAt' = calledAt \/ calledAt' = [calledAt EXCEPT ![r] = watch]
  BY DEF Subscribe, ReadCache, Ask, Recv, Timeout, Return
<1>7. calledAt' \in [Readers -> Nat] /\ \A q \in Readers : calledAt'[q] <= epoch
  BY <1>6, Zenon DEF Types
<1>. QED
  BY Zenon, <1>2, <1>3, <1>4, <1>5, <1>7 DEF Types, driver, Held, Cached

LEMMA TypesStep == Types /\ [ReadersNext]_snapshotVars => Types'
<1>. SUFFICES ASSUME Types, [ReadersNext]_snapshotVars PROVE Types'
  OBVIOUS
<1>1. ASSUME NEW k \in Kinds, Dispatch(k) PROVE Types'
  <2>1. PICK m \in Messages(k) : held' = <<m>>
    BY <1>1 DEF Dispatch
  <2>2. Held'
    BY <1>1, <2>1, MessageTypes DEF Held, Dispatch, Types
  <2>3. pushed' \in [Kinds -> Nat]
    BY <1>1 DEF Dispatch, Types
  <2>. QED
    BY <1>1, <2>2, <2>3 DEF Dispatch, Types, readers, Cached
<1>2. CASE Dispatching
  <2>1. PICK m \in Msg : held = <<m>> /\ m.epoch = epoch /\ m.kind \in Kinds
    BY <1>2 DEF Dispatching, Types, Held
  <2>2. CASE drv = "first"
    <3>1. CacheInsert(m) /\ drv' = "second" /\ held' = held
      BY <1>2, <2>1, <2>2 DEF Dispatching, DispatchStep
    <3>2. \A k \in Lists : (cache[k] = Nothing \/ Cached(k))'
      BY <2>1, <3>1, Zenon DEF CacheInsert, Types, Cached
    <3>3. DOMAIN cache' = Lists /\ cache' = [k \in Lists |-> cache'[k]]
      BY <3>1, Zenon DEF CacheInsert, Types
    <3>. QED
      BY <1>2, <3>1, <3>2, <3>3 DEF Dispatching, CacheInsert, Types, Held
  <2>3. CASE drv = "second"
    <3>1. Send(m) /\ drv' = "idle"
      BY <1>2, <2>1, <2>3 DEF Dispatching, DispatchStep
    <3>2. events' \in [Readers -> Seq(Msg)] /\ \A r \in Readers : Len(events'[r]) <= Depth
      BY <2>1, <3>1, SendTypes DEF Types
    <3>3. lagged' \subseteq Readers /\ cache' = cache
      BY <3>1 DEF Send, Types, Subscribed
    <3>. QED
      BY <1>2, <3>1, <3>2, <3>3 DEF Dispatching, Types, Cached
  <2>. QED
    BY <1>2, <2>2, <2>3 DEF Dispatching
<1>3. CASE Drop \/ End
  BY <1>3 DEF Drop, End, Types, readers, Cached
<1>4. CASE Logon
  BY <1>4 DEF Logon, Types, readers, Cached
<1>5. CASE Relogin
  BY <1>5 DEF Relogin, ReloginStep, Clear, Publish, Types, readers, Cached, Nothing
<1>6. ASSUME NEW r \in Readers,
             Subscribe(r) \/ (KindOf[r] \in Lists /\ ReadCache(r)) \/ Ask(r) \/ Recv(r) \/ Timeout(r)
      PROVE  Types'
  BY <1>6, ReaderTypes
<1>7. CASE UNCHANGED snapshotVars
  BY <1>7 DEF snapshotVars, driver, readers, Types, Held, Cached
<1>. QED
  BY <1>1, <1>2, <1>3, <1>4, <1>5, <1>6, <1>7, Steps

-----------------------------------------------------------------------------
\* Nothing a reader can be given is older than the logon it saw when it called:
\* its buffer starts at the call, and the cache is cleared before LoggedOn is
\* published.
Fresh == /\ \A r \in Readers : at[r] = "call" => events[r] = <<>> /\ given[r] = Nothing
         /\ \A r \in Readers : verdict[r] = "Ok" => given[r] # Nothing
         /\ \A r \in Readers : \A i \in 1..Len(events[r]) : calledAt[r] <= events[r][i].epoch
         /\ \A k \in Lists : cache[k] # Nothing =>
                watch <= cache[k][1].epoch /\ \A r \in Readers : calledAt[r] <= cache[k][1].epoch
         /\ drv = "cleared" => \A k \in Lists : cache[k] = Nothing
         /\ \A r \in Readers : given[r] # Nothing =>
                calledAt[r] <= given[r][1].epoch /\ given[r][1].flags = {}

\* What a reader takes is unmarked.
LEMMA WantedIsWhole ==
    ASSUME NEW r \in Readers, NEW m \in Msg, m.kind = KindOf[r], "garbled" \notin m.flags,
           Wanted(r, m)
    PROVE  m.flags = {}
<1>1. m.flags \in Flags(KindOf[r]) /\ KindOf[r] \in AllKinds
  BY SnapshotAssumption DEF Msg, AllKinds, Lists
<1>2. CASE KindOf[r] = "friends"
  BY <1>1, <1>2 DEF Flags, Wanted, Full
<1>3. CASE KindOf[r] = "persona"
  BY <1>1, <1>3 DEF Flags, Wanted, Summary
<1>4. CASE KindOf[r] = "nicknames" \/ KindOf[r] = "groups"
  BY <1>1, <1>4 DEF Flags, Wanted, Full, is_full_nicknames, is_full_groups
<1>. QED
  BY <1>1, <1>2, <1>3, <1>4 DEF AllKinds

\* Receiving keeps the rest of the buffer.
LEMMA TailEntries ==
    ASSUME NEW q \in Seq(Msg), q # <<>>
    PROVE  /\ Head(q) = q[1] /\ Head(q) \in Msg /\ 1 \in 1..Len(q)
           /\ Len(Tail(q)) = Len(q) - 1
           /\ \A i \in 1..Len(Tail(q)) : i + 1 \in 1..Len(q) /\ Tail(q)[i] = q[i + 1]
OBVIOUS

\* So does a broadcast.
LEMMA AppendEntries ==
    ASSUME NEW q \in Seq(Msg), NEW m \in Msg
    PROVE  /\ Len(Append(q, m)) = Len(q) + 1
           /\ \A i \in 1..Len(q) : Append(q, m)[i] = q[i]
           /\ Append(q, m)[Len(q) + 1] = m
           /\ \A i \in 1..Len(Append(q, m)) : i \in 1..Len(q) \/ i = Len(q) + 1
OBVIOUS

LEMMA FreshInitially == ReadersInit => Fresh
<1>. SUFFICES ASSUME ReadersInit PROVE Fresh
  OBVIOUS
<1>1. \A r \in Readers : events[r] = <<>> /\ given[r] = Nothing /\ verdict[r] = "none"
  BY DEF ReadersInit
<1>2. \A k \in Lists : cache[k] = Nothing
  BY DEF ReadersInit
<1>. QED
  BY <1>1, <1>2 DEF ReadersInit, Fresh

LEMMA FreshSend ==
    ASSUME Types, Fresh, NEW m \in Msg, m.epoch = epoch, Send(m)
    PROVE  /\ \A r \in Readers : \A i \in 1..Len(events'[r]) : calledAt[r] <= events'[r][i].epoch
           /\ \A r \in Readers : at[r] = "call" => events'[r] = <<>>
<1>. SUFFICES ASSUME NEW r \in Readers
              PROVE  /\ \A i \in 1..Len(events'[r]) : calledAt[r] <= events'[r][i].epoch
                     /\ at[r] = "call" => events'[r] = <<>>
  OBVIOUS
<1>1. events[r] \in Seq(Msg) /\ calledAt[r] <= m.epoch
      /\ \A i \in 1..Len(events[r]) : calledAt[r] <= events[r][i].epoch
  BY DEF Types, Fresh
<1>2. CASE r \notin Subscribed /\ events'[r] = events[r]
  BY <1>1, <1>2 DEF Fresh
<1>3. CASE r \in Subscribed /\ events'[r] = Append(events[r], m)
  BY <1>1, <1>3, AppendEntries DEF Subscribed
<1>4. CASE r \in Subscribed /\ events[r] # <<>> /\ events'[r] = Append(Tail(events[r]), m)
  <2>1. Tail(events[r]) \in Seq(Msg)
    BY <1>1, <1>4
  <2>2. \A i \in 1..Len(Tail(events[r])) : calledAt[r] <= Tail(events[r])[i].epoch
    BY <1>1, <1>4, TailEntries
  <2>. QED
    BY SMTT(30), <1>1, <1>4, <2>1, <2>2, AppendEntries DEF Subscribed
<1>. QED
  BY <1>2, <1>3, <1>4, SendTypes, Zenon DEF Types

LEMMA FreshStep == Types /\ Fresh /\ [ReadersNext]_snapshotVars => Fresh'
<1>. SUFFICES ASSUME Types, Fresh, [ReadersNext]_snapshotVars PROVE Fresh'
  OBVIOUS
<1>1. ASSUME NEW k \in Kinds, Dispatch(k) PROVE Fresh'
  BY <1>1 DEF Dispatch, Fresh, readers
<1>2. CASE Dispatching
  <2>1. PICK m \in Msg : held = <<m>> /\ m.epoch = epoch /\ m.kind \in Kinds
    BY <1>2 DEF Dispatching, Types, Held
  <2>2. CASE drv = "first"
    <3>1. CacheInsert(m) /\ drv' = "second"
      BY <1>2, <2>1, <2>2 DEF Dispatching, DispatchStep
    <3>2. \A k \in Lists : cache'[k] = cache[k] \/ cache'[k] = <<m>>
      BY <3>1 DEF CacheInsert, Types
    <3>3. watch <= m.epoch /\ \A r \in Readers : calledAt[r] <= m.epoch
      BY <2>1 DEF Types
    <3>4. \A k \in Lists : cache'[k] # Nothing =>
              watch <= cache'[k][1].epoch /\ \A r \in Readers : calledAt[r] <= cache'[k][1].epoch
      BY <3>2, <3>3 DEF Fresh
    <3>. QED
      BY Zenon, <1>2, <3>1, <3>4 DEF Dispatching, CacheInsert, Fresh
  <2>3. CASE drv = "second"
    <3>1. Send(m) /\ drv' = "idle" /\ cache' = cache
      BY Zenon, <1>2, <2>1, <2>3 DEF Dispatching, DispatchStep, Send
    <3>. QED
      BY Zenon, <1>2, <2>1, <3>1, FreshSend DEF Dispatching, Fresh
  <2>. QED
    BY <1>2, <2>2, <2>3 DEF Dispatching
<1>3. CASE Drop \/ End
  BY <1>3 DEF Drop, End, Fresh, readers, Types, Cached, Msg
<1>4. CASE Logon
  BY Zenon, <1>4 DEF Logon, Fresh, readers
<1>5. CASE Relogin
  <2>1. \A k \in Lists : cache'[k] = Nothing
    BY <1>5 DEF Relogin, ReloginStep, Clear, Publish, Fresh
  <2>. QED
    BY Zenon, <1>5, <2>1 DEF Relogin, Fresh, readers
<1>6. ASSUME NEW r \in Readers, Subscribe(r) PROVE Fresh'
  <2>1. events[r] = <<>> /\ given[r] = Nothing
    BY <1>6 DEF Subscribe, Fresh
  <2>2. at'[r] # "call" /\ calledAt'[r] = watch
        /\ \A q \in Readers \ {r} : at'[q] = at[q] /\ calledAt'[q] = calledAt[q]
    BY <1>6 DEF Subscribe, Types
  <2>. QED
    BY <1>6, <2>1, <2>2 DEF Subscribe, Fresh, driver
<1>7. ASSUME NEW r \in Readers, KindOf[r] \in Lists, ReadCache(r) PROVE Fresh'
  <2>1. driver' = driver /\ events' = events /\ calledAt' = calledAt
    BY <1>7 DEF ReadCache, Return
  <2>2. at'[r] # "call" /\ \A q \in Readers \ {r} :
            at'[q] = at[q] /\ verdict'[q] = verdict[q] /\ given'[q] = given[q]
    BY <1>7 DEF ReadCache, Return, Types
  <2>3. \/ verdict'[r] = verdict[r] /\ given'[r] = given[r]
        \/ verdict'[r] # "Ok" /\ given'[r] = Nothing
        \/ \E m \in Msg : /\ cache[KindOf[r]] = <<m>> /\ given'[r] = <<m>> /\ m.kind = KindOf[r]
                          /\ "garbled" \notin m.flags /\ Wanted(r, m)
    <3>1. cache[KindOf[r]] # Nothing => \E m \in Msg : cache[KindOf[r]] = <<m>> /\ m.kind = KindOf[r]
      BY <1>7, Zenon DEF Types, Cached
    <3>2. \A m : Full(r, m) => Wanted(r, m)
      BY <1>7 DEF Wanted, Lists
    <3>3. CASE cache[KindOf[r]] = Nothing
      BY Zenon, <1>7, <3>3 DEF ReadCache, Return, Types
    <3>4. CASE cache[KindOf[r]] # Nothing
      <4>1. PICK m \in Msg : cache[KindOf[r]] = <<m>> /\ m.kind = KindOf[r]
        BY <3>1, <3>4
      <4>2. cache[KindOf[r]][1] = m
        BY <4>1
      <4>3. CASE "garbled" \in m.flags
        <5>1. Return(r, "Codec", Nothing)
          BY <1>7, <3>4, <4>2, <4>3 DEF ReadCache
        <5>. QED
          BY <5>1 DEF Return, Types
      <4>4. CASE "garbled" \notin m.flags /\ Full(r, m)
        <5>1. Return(r, "Ok", <<m>>)
          BY <1>7, <3>4, <4>1, <4>2, <4>4 DEF ReadCache
        <5>. QED
          BY <3>2, <4>1, <4>4, <5>1, Zenon DEF Return, Types
      <4>5. CASE "garbled" \notin m.flags /\ ~Full(r, m)
        <5>1. verdict' = verdict /\ given' = given
          BY <1>7, <3>4, <4>2, <4>5 DEF ReadCache
        <5>. QED
          BY Zenon, <5>1
      <4>. QED
        BY <4>3, <4>4, <4>5
    <3>. QED
      BY Zenon, <3>3, <3>4
  <2>4. given'[r] # Nothing => calledAt[r] <= given'[r][1].epoch /\ given'[r][1].flags = {}
    BY <1>7, <2>3, WantedIsWhole DEF Fresh, Nothing
  <2>5. verdict'[r] = "Ok" => given'[r] # Nothing
    BY <2>3 DEF Fresh, Nothing
  <2>. QED
    BY <2>1, <2>2, <2>4, <2>5 DEF Fresh, driver
<1>8. ASSUME NEW r \in Readers, Ask(r) \/ Timeout(r) PROVE Fresh'
  <2>1. driver' = driver /\ events' = events /\ calledAt' = calledAt /\ at[r] # "call"
    BY <1>8 DEF Ask, Timeout, Return
  <2>2. at'[r] # "call" /\ \A q \in Readers \ {r} :
            at'[q] = at[q] /\ verdict'[q] = verdict[q] /\ given'[q] = given[q]
    BY <1>8 DEF Ask, Timeout, Return, Types
  <2>3. \/ verdict'[r] = verdict[r] /\ given'[r] = given[r]
        \/ verdict'[r] # "Ok" /\ given'[r] = Nothing
    BY <1>8 DEF Ask, Timeout, Return, Types
  <2>. QED
    BY <2>1, <2>2, <2>3 DEF Fresh, driver
<1>9. ASSUME NEW r \in Readers, Recv(r) PROVE Fresh'
  <2>. DEFINE m == Head(events[r])
  <2>1. events[r] \in Seq(Msg) /\ events[r] # <<>> /\ at[r] = "wait"
    BY <1>9 DEF Recv, Types
  <2>2. m \in Msg /\ calledAt[r] <= m.epoch
    BY <2>1, TailEntries DEF Fresh
  <2>3. driver' = driver /\ calledAt' = calledAt
    BY <1>9 DEF Recv, Return
  <2>4. at'[r] # "call" /\ \A q \in Readers \ {r} :
            /\ at'[q] = at[q] /\ verdict'[q] = verdict[q] /\ given'[q] = given[q]
            /\ events'[q] = events[q]
    BY <1>9, <2>1 DEF Recv, Return, Types
  <2>5. \/ verdict'[r] = verdict[r] /\ given'[r] = given[r]
        \/ verdict'[r] # "Ok" /\ given'[r] = Nothing
        \/ given'[r] = <<m>> /\ m.kind = KindOf[r] /\ "garbled" \notin m.flags /\ Wanted(r, m)
    BY <1>9 DEF Recv, Return, Types
  <2>6. events'[r] = Tail(events[r])
    BY <1>9 DEF Recv, Types
  <2>7. \A i \in 1..Len(events'[r]) : calledAt[r] <= events'[r][i].epoch
    BY <2>1, <2>6, TailEntries DEF Fresh
  <2>. HIDE DEF m
  <2>8. given'[r] # Nothing => calledAt[r] <= given'[r][1].epoch /\ given'[r][1].flags = {}
    BY <2>2, <2>5, WantedIsWhole DEF Fresh
  <2>9. verdict'[r] = "Ok" => given'[r] # Nothing
    BY <2>5 DEF Fresh, Nothing
  <2>. QED
    BY SMTT(30), <2>3, <2>4, <2>7, <2>8, <2>9 DEF Fresh, driver
<1>10. CASE UNCHANGED snapshotVars
  BY <1>10 DEF snapshotVars, driver, readers, Fresh
<1>. QED
  BY <1>1, <1>2, <1>3, <1>4, <1>5, <1>6, <1>7, <1>8, <1>9, <1>10, Steps

LEMMA FreshInvariant == ReadersSpec => [](Types /\ Fresh)
BY TypesInitially, TypesStep, FreshInitially, FreshStep, PTL DEF ReadersSpec

\* ListIsCurrent holds: a caller that saw LoggedOn never gets a list of an earlier
\* logon, from the cache or from the broadcast.
THEOREM CurrentHolds == ReadersSpec => []ListIsCurrent
<1>1. Types /\ Fresh => ListIsCurrent
  <2>. SUFFICES ASSUME Types, Fresh, NEW r \in Readers, Answered(r)
                PROVE  given[r][1].epoch >= calledAt[r]
    BY DEF ListIsCurrent
  <2>1. given[r] # Nothing
    BY DEF Answered, Fresh
  <2>2. calledAt[r] <= given[r][1].epoch
    BY <2>1 DEF Fresh
  <2>. QED
    BY <2>2
<1>. QED
  BY <1>1, FreshInvariant, PTL

\* WholeAnswers holds: a delta, a removal or a partial state never passes for the
\* whole.
THEOREM WholeHolds == ReadersSpec => []WholeAnswers
<1>1. Fresh => WholeAnswers
  BY DEF Fresh, WholeAnswers, Answered
<1>. QED
  BY <1>1, FreshInvariant, PTL

-----------------------------------------------------------------------------
Whole(k) == cache[k] # Nothing /\ cache[k][1].flags = {}

\* A whole list is the first push of its kind, so it is in the cache before it is
\* broadcast and stays there until the next logon.
CachedFirst ==
    /\ \A k \in Lists : k \in sent => Whole(k)
    /\ \A k \in Lists \intersect Kinds : drv # "live" /\ pushed[k] = 0 => cache[k] = Nothing
    /\ drv \in {"first", "second"} => pushed[held[1].kind] # 0
    /\ drv = "first" /\ held[1].kind \in Lists /\ held[1].flags = {} => cache[held[1].kind] = Nothing
    /\ drv = "second" /\ held[1].kind \in Lists /\ held[1].flags = {} => Whole(held[1].kind)

LEMMA CachedFirstStep == Types /\ CachedFirst /\ [ReadersNext]_snapshotVars => CachedFirst'
<1>. SUFFICES ASSUME Types, CachedFirst, [ReadersNext]_snapshotVars PROVE CachedFirst'
  OBVIOUS
<1>1. ASSUME NEW k \in Kinds, Dispatch(k) PROVE CachedFirst'
  <2>1. PICK m \in Messages(k) :
            /\ k \in Lists /\ pushed[k] > 0 => m.flags \notin {{}, {"garbled"}}
            /\ held' = <<m>>
    BY <1>1 DEF Dispatch
  <2>2. m.kind = k /\ held'[1] = m
    BY <2>1, MessageTypes DEF Types
  <2>3. pushed'[k] # 0 /\ \A j \in Kinds \ {k} : pushed'[j] = pushed[j]
    BY <1>1 DEF Dispatch, Types
  <2>4. drv = "idle" /\ drv' = "first" /\ cache' = cache /\ sent' = sent
    BY Zenon, <1>1 DEF Dispatch
  <2>5. m.flags = {} /\ k \in Lists => cache[k] = Nothing
    <3>1. m.flags = {} /\ k \in Lists => ~(pushed[k] > 0)
      BY <2>1
    <3>2. pushed[k] \in Nat
      BY DEF Types
    <3>3. m.flags = {} /\ k \in Lists => pushed[k] = 0
      BY <3>1, <3>2
    <3>. QED
      BY <2>4, <3>3 DEF CachedFirst
  <2>. QED
    BY Zenon, <2>2, <2>3, <2>4, <2>5 DEF CachedFirst, Whole
<1>2. CASE Dispatching
  <2>1. PICK m \in Msg : held = <<m>> /\ m.epoch = epoch /\ m.kind \in Kinds
    BY <1>2 DEF Dispatching, Types, Held
  <2>2. held[1] = m /\ pushed' = pushed
    BY <1>2, <2>1 DEF Dispatching
  <2>3. CASE drv = "first"
    <3>1. CacheInsert(m) /\ drv' = "second" /\ held' = held /\ sent' = sent
      BY <1>2, <2>1, <2>3 DEF Dispatching, DispatchStep, CacheInsert
    <3>2. ASSUME NEW k \in Lists
          PROVE  cache'[k] = cache[k] \/ (k = m.kind /\ cache[k] = Nothing /\ cache'[k] = <<m>>)
      BY <3>1 DEF CacheInsert, Types
    <3>3. m.kind \in Lists /\ cache[m.kind] = Nothing => cache'[m.kind] = <<m>>
      BY <3>1 DEF CacheInsert, Types
    <3>4. m.kind \in Lists /\ m.flags = {} => Whole(m.kind)'
      BY <2>2, <2>3, <3>3 DEF CachedFirst, Whole, Nothing
    <3>5. \A k \in Lists : k \in sent => Whole(k)'
      BY <3>2 DEF CachedFirst, Whole
    <3>6. pushed[m.kind] # 0
      BY <2>2, <2>3 DEF CachedFirst
    <3>. QED
      BY Zenon, <2>2, <2>3, <3>1, <3>2, <3>4, <3>5, <3>6 DEF CachedFirst
  <2>4. CASE drv = "second"
    <3>1. drv' = "idle" /\ cache' = cache
          /\ sent' = (IF m.flags = {} THEN sent \union {m.kind} ELSE sent)
      BY Zenon, <1>2, <2>1, <2>4 DEF Dispatching, DispatchStep, Send
    <3>2. m.kind \in Lists /\ m.flags = {} => Whole(m.kind)
      BY <2>2, <2>4 DEF CachedFirst
    <3>. QED
      BY Zenon, <2>2, <2>4, <3>1, <3>2 DEF CachedFirst, Whole
  <2>. QED
    BY <1>2, <2>3, <2>4 DEF Dispatching
<1>3. CASE Drop \/ End \/ Logon
  BY <1>3, Zenon DEF Drop, End, Logon, CachedFirst, Whole
<1>4. CASE Relogin
  <2>1. CASE drv = "live"
    BY <1>4, <2>1 DEF Relogin, ReloginStep, Clear, CachedFirst
  <2>2. CASE drv = "cleared"
    BY <1>4, <2>2 DEF Relogin, ReloginStep, Publish, CachedFirst, Whole
  <2>. QED
    BY <1>4, <2>1, <2>2 DEF Relogin
<1>5. ASSUME driver' = driver PROVE CachedFirst'
  BY Zenon, <1>5 DEF driver, CachedFirst, Whole
<1>6. ASSUME NEW r \in Readers,
             Subscribe(r) \/ ReadCache(r) \/ Ask(r) \/ Recv(r) \/ Timeout(r)
      PROVE  CachedFirst'
  <2>1. driver' = driver
    BY Zenon, <1>6 DEF Subscribe, ReadCache, Ask, Recv, Timeout, Return
  <2>. QED
    BY <1>5, <2>1
<1>7. CASE UNCHANGED snapshotVars
  BY <1>5, <1>7 DEF snapshotVars
<1>. QED
  BY <1>1, <1>2, <1>3, <1>4, <1>6, <1>7, Steps

\* The list is still to be received by r.
Due(r) == \E i \in 1..Len(events[r]) : events[r][i].kind = KindOf[r] /\ events[r][i].flags = {}
\* r waits for a list that was broadcast on this logon and lost nothing.
Owed(r) == at[r] = "wait" /\ KindOf[r] \in sent \intersect Lists /\ r \notin lagged
NotMissed == \A r \in Readers : Owed(r) => Due(r)

\* A broadcast reaches every reader that waits.
LEMMA NotMissedSend ==
    ASSUME Types, NotMissed, NEW m \in Msg, Send(m), UNCHANGED at, NEW r \in Readers, Owed(r)'
    PROVE  Due(r)'
<1>1. r \in Subscribed /\ r \notin lagged' /\ r \notin lagged
  BY Zenon DEF Owed, Subscribed, Send
<1>2. events'[r] = Append(events[r], m) /\ events[r] \in Seq(Msg)
  BY <1>1, SendTypes, Zenon DEF Types
<1>3. CASE KindOf[r] \in sent
  <2>1. Due(r)
    BY <1>1, <1>3 DEF NotMissed, Owed
  <2>2. PICK i \in 1..Len(events[r]) : events[r][i].kind = KindOf[r] /\ events[r][i].flags = {}
    BY <2>1 DEF Due
  <2>3. i \in 1..Len(events'[r]) /\ events'[r][i] = events[r][i]
    BY <1>2, <2>2, AppendEntries
  <2>. QED
    BY <2>2, <2>3 DEF Due
<1>4. CASE KindOf[r] \notin sent
  <2>1. m.kind = KindOf[r] /\ m.flags = {}
    BY <1>4 DEF Owed, Send
  <2>2. Len(events[r]) + 1 \in 1..Len(events'[r]) /\ events'[r][Len(events[r]) + 1] = m
    BY <1>2, AppendEntries
  <2>. QED
    BY <2>1, <2>2 DEF Due
<1>. QED
  BY <1>3, <1>4

LEMMA NotMissedStep == Types /\ CachedFirst /\ NotMissed /\ [ReadersNext]_snapshotVars => NotMissed'
<1>. SUFFICES ASSUME Types, CachedFirst, NotMissed, [ReadersNext]_snapshotVars PROVE NotMissed'
  OBVIOUS
<1>1. ASSUME at' = at, events' = events, lagged' = lagged, sent' \subseteq sent PROVE NotMissed'
  BY <1>1, Zenon DEF NotMissed, Owed, Due
<1>2. ASSUME NEW k \in Kinds, Dispatch(k) PROVE NotMissed'
  BY <1>1, <1>2 DEF Dispatch, readers
<1>3. CASE Dispatching
  <2>1. PICK m \in Msg : held = <<m>>
    BY <1>3 DEF Dispatching, Types, Held
  <2>2. CASE drv = "first"
    BY <1>1, <1>3, <2>1, <2>2 DEF Dispatching, DispatchStep, CacheInsert
  <2>3. CASE drv = "second"
    <3>1. Send(m) /\ at' = at
      BY <1>3, <2>1, <2>3 DEF Dispatching, DispatchStep
    <3>. QED
      BY <3>1, NotMissedSend DEF NotMissed
  <2>. QED
    BY <1>3, <2>2, <2>3 DEF Dispatching
<1>4. CASE Drop \/ End \/ Logon
  BY <1>1, <1>4 DEF Drop, End, Logon, readers
<1>5. CASE Relogin
  BY <1>1, <1>5 DEF Relogin, ReloginStep, Clear, Publish, readers
<1>6. ASSUME NEW r \in Readers, driver' = driver, lagged' = lagged, Owed(r)' => Due(r)',
             \A q \in Readers \ {r} : at'[q] = at[q] /\ events'[q] = events[q]
      PROVE  NotMissed'
  <2>. SUFFICES ASSUME NEW q \in Readers, Owed(q)' PROVE Due(q)'
    BY Zenon DEF NotMissed
  <2>1. CASE q = r
    BY Zenon, <1>6, <2>1
  <2>2. CASE q # r
    <3>0. sent' = sent
      BY <1>6 DEF driver
    <3>1. Owed(q)
      BY <1>6, <2>2, <3>0 DEF Owed
    <3>2. events'[q] = events[q]
      BY Zenon, <1>6, <2>2
    <3>. QED
      BY ZenonT(60), <3>1, <3>2 DEF NotMissed, Due
  <2>. QED
    BY Zenon, <2>1, <2>2
<1>7. ASSUME NEW r \in Readers, Subscribe(r) PROVE NotMissed'
  <2>1. at'[r] # "wait"
    BY <1>7 DEF Subscribe, Types
  <2>2. \A q \in Readers \ {r} : at'[q] = at[q] /\ events'[q] = events[q]
    BY <1>7 DEF Subscribe, Types
  <2>. QED
    BY <1>6, <1>7, <2>1, <2>2 DEF Subscribe, Owed
<1>8. ASSUME NEW r \in Readers, KindOf[r] \in Lists, ReadCache(r) PROVE NotMissed'
  <2>1. driver' = driver /\ events' = events /\ lagged' = lagged
    BY <1>8 DEF ReadCache, Return
  <2>2. \A q \in Readers \ {r} : at'[q] = at[q] /\ events'[q] = events[q]
    BY <1>8 DEF ReadCache, Return, Types
  \* A list that was broadcast is in the cache, and would have been the answer.
  <2>3. KindOf[r] \in sent => at'[r] # "wait"
    <3>. SUFFICES ASSUME KindOf[r] \in sent PROVE at'[r] # "wait"
      OBVIOUS
    <3>1. cache[KindOf[r]] # Nothing /\ cache[KindOf[r]][1].flags = {}
      BY Zenon, <1>8 DEF CachedFirst, Whole
    <3>2. Full(r, cache[KindOf[r]][1])
      BY <3>1 DEF Full, is_full_nicknames, is_full_groups
    <3>3. Return(r, "Ok", cache[KindOf[r]])
      BY <1>8, <3>1, <3>2 DEF ReadCache
    <3>. QED
      BY <3>3 DEF Return, Types
  <2>. QED
    BY Zenon, <1>6, <2>1, <2>2, <2>3 DEF Owed, driver
<1>9. ASSUME NEW r \in Readers, KindOf[r] = "persona", Ask(r) PROVE NotMissed'
  <2>1. driver' = driver /\ lagged' = lagged
    BY <1>9 DEF Ask, Return
  <2>2. \A q \in Readers \ {r} : at'[q] = at[q] /\ events'[q] = events[q]
    BY <1>9 DEF Ask, Return, Types
  <2>. QED
    BY <1>6, <1>9, <2>1, <2>2 DEF Owed, Lists
<1>10. ASSUME NEW r \in Readers, Timeout(r) PROVE NotMissed'
  <2>1. driver' = driver /\ lagged' = lagged /\ at'[r] # "wait"
    BY <1>10, Zenon DEF Timeout, Return, Types
  <2>2. \A q \in Readers \ {r} : at'[q] = at[q] /\ events'[q] = events[q]
    BY <1>10 DEF Timeout, Return, Types
  <2>. QED
    BY Zenon, <1>6, <2>1, <2>2 DEF Owed
<1>11. ASSUME NEW r \in Readers, Recv(r) PROVE NotMissed'
  <2>1. driver' = driver /\ lagged' = lagged /\ at[r] = "wait" /\ events[r] # <<>>
    BY <1>11 DEF Recv, Return
  <2>2. \A q \in Readers \ {r} : at'[q] = at[q] /\ events'[q] = events[q]
    BY <1>11 DEF Recv, Return, Types
  <2>3. events[r] \in Seq(Msg) /\ events'[r] = Tail(events[r])
    BY <1>11 DEF Recv, Types
  <2>4. ASSUME Owed(r)' PROVE Due(r)'
    <3>1. Owed(r)
      BY <2>1, <2>4 DEF Owed, driver
    <3>2. PICK i \in 1..Len(events[r]) : events[r][i].kind = KindOf[r] /\ events[r][i].flags = {}
      BY <3>1, Zenon DEF NotMissed, Due
    <3>3. i # 1
      <4>. SUFFICES ASSUME i = 1 PROVE FALSE
        OBVIOUS
      <4>1. Head(events[r]).kind = KindOf[r] /\ Head(events[r]).flags = {}
        BY <2>1, <2>3, <3>2, TailEntries
      <4>2. Wanted(r, Head(events[r]))
        BY <3>1, <4>1 DEF Wanted, Full, is_full_nicknames, is_full_groups, Owed, Lists
      <4>3. Return(r, "Ok", <<Head(events[r])>>)
        BY <1>11, <4>1, <4>2 DEF Recv
      <4>. QED
        BY <2>4, <4>3 DEF Return, Owed, Types
    <3>4. i - 1 \in 1..Len(events'[r]) /\ events'[r][i - 1] = events[r][i]
      BY <2>1, <2>3, <3>2, <3>3
    <3>. QED
      BY Zenon, <3>2, <3>4 DEF Due
  <2>. QED
    BY Zenon, <1>6, <2>1, <2>2, <2>4
<1>12. CASE UNCHANGED snapshotVars
  BY <1>1, <1>12 DEF snapshotVars, driver, readers
<1>. QED
  BY <1>2, <1>3, <1>4, <1>5, <1>7, <1>8, <1>9, <1>10, <1>11, <1>12, Steps

\* ListNotMissed holds: subscribing first and reading the cache second loses no list
\* that is cached first and broadcast second, in any interleaving of the two.
THEOREM NotMissedHolds == ReadersSpec => []ListNotMissed
<1>1. ReadersInit => CachedFirst /\ NotMissed
  BY DEF ReadersInit, CachedFirst, NotMissed, Owed
<1>2. Types /\ NotMissed => ListNotMissed
  <2>. SUFFICES ASSUME Types, NotMissed, NEW r \in Readers, at[r] = "wait",
                       KindOf[r] \in sent \ {"persona"}, r \notin lagged
                PROVE  \E i \in DOMAIN events[r] : events[r][i].kind = KindOf[r]
                                                  /\ events[r][i].flags = {}
    BY DEF ListNotMissed
  <2>1. KindOf[r] \in Lists
    BY SnapshotAssumption
  <2>2. Due(r)
    BY <2>1 DEF NotMissed, Owed
  <2>3. DOMAIN events[r] = 1..Len(events[r])
    BY DEF Types
  <2>. QED
    BY <2>2, <2>3 DEF Due
<1>. QED
  BY <1>1, <1>2, CachedFirstStep, NotMissedStep, FreshInvariant, PTL DEF ReadersSpec
=============================================================================
