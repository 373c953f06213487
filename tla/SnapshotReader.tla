---------------------------- MODULE SnapshotReader ----------------------------
(***************************************************************************)
(* Reading what Steam pushes (friends.rs request_friends_list,             *)
(* request_nicknames and request_friends_groups_list, persona.rs           *)
(* request_player_summary) against a driver that runs on another thread:   *)
(* dispatch() caches a snapshot and then broadcasts it, a new logon clears *)
(* the cache and then publishes LoggedOn.  A reader subscribes and then    *)
(* reads the cache (lists) or asks Steam (summary), and waits.             *)
(***************************************************************************)
EXTENDS Integers, Sequences, FiniteSets

CONSTANTS Readers,   \* calls
          KindOf,    \* the list each wants, or "persona"
          Depth,     \* EVENT_CAPACITY
          MaxEpoch,  \* bound: logons
          MaxPushes, \* bound: messages per kind and logon
          MaxKinds,  \* bound: kinds of message per logon
          MaxCalls   \* bound: readers that call

Lists == {"friends", "nicknames", "groups"}   \* POST_LOGIN_SNAPSHOT_EMSGS
\* A kind that nobody reads only fills buffers, as another reader's kind does.
Kinds == {KindOf[r] : r \in Readers}
Stranger == "stranger"
Nothing == <<>>

ASSUME SnapshotAssumption == /\ Depth \in Nat \ {0}
                             /\ KindOf \in [Readers -> Lists \union {"persona"}]

VARIABLES drv,        \* what the driver does next
          held,       \* the message in dispatch(), or None
          epoch,      \* logon of the connection
          watch,      \* state watch: the epoch published, 0 if not LoggedOn
          cache,      \* first body per snapshot emsg, or None
          pushed,     \* messages Steam sent on this logon, by kind
          sent,       \* history: kinds whose whole list was broadcast this logon
          at, events, verdict, given,   \* per reader: step, event buffer, result, message
          calledAt,   \* history: the logon a reader could see when it called
          lagged      \* history: readers whose buffer overflowed
driver == <<drv, held, epoch, watch, cache, pushed, sent>>
readers == <<at, events, verdict, given, calledAt, lagged>>
snapshotVars == <<driver, readers>>

ReadersInit ==
    /\ drv = "idle" /\ held = Nothing /\ epoch = 1 /\ watch = 1
    /\ cache = [k \in Lists |-> Nothing]
    /\ pushed = [k \in Kinds |-> 0] /\ sent = {}
    /\ at = [r \in Readers |-> "call"]
    /\ events = [r \in Readers |-> <<>>]
    /\ verdict = [r \in Readers |-> "none"]
    /\ given = [r \in Readers |-> Nothing]
    /\ calledAt = [r \in Readers |-> 0]
    /\ lagged = {}

\* What Steam's pushes are marked with: a friends list has no removal flag, and
\* a persona state is partial if it lacks the player name.
Flags(k) == CASE k = "friends" -> {{}, {"incremental"}, {"garbled"}}
              [] k = "persona" -> {{}, {"partial"}, {"garbled"}}
              [] OTHER -> {{}, {"incremental"}, {"removal"}, {"garbled"}}

Messages(k) == [kind : {k}, epoch : {epoch}, flags : Flags(k),
                ids : IF k = "persona" THEN {{Stranger}} \union
                          {{r, Stranger} : r \in {q \in Readers : KindOf[q] = "persona"}}
                      ELSE {{}}]

-----------------------------------------------------------------------------
\* Steam sends a message and the driver enters dispatch().  The whole list, when
\* the account has one, precedes any delta.
Dispatch(k) ==
    /\ drv = "idle"
    /\ pushed[k] < MaxPushes
    /\ Cardinality({k} \union {j \in Kinds : pushed[j] > 0}) <= MaxKinds
    /\ \E m \in Messages(k) :
          /\ k \in Lists /\ pushed[k] > 0 => m.flags \notin {{}, {"garbled"}}
          /\ held' = <<m>>
    /\ pushed' = [pushed EXCEPT ![k] = @ + 1]
    /\ drv' = "first"
    /\ UNCHANGED <<epoch, watch, cache, sent, readers>>

\* or_insert_with: the first body of this logon wins.
CacheInsert(m) ==
    /\ cache' = IF m.kind \in Lists /\ cache[m.kind] = Nothing
                THEN [cache EXCEPT ![m.kind] = <<m>>] ELSE cache
    /\ UNCHANGED <<events, lagged, sent>>

Subscribed == {r \in Readers : at[r] \in {"cache", "ask", "wait"}}

\* events.send: a full buffer loses its oldest message.
Send(m) ==
    /\ events' = [r \in Readers |->
                   IF r \notin Subscribed THEN events[r]
                   ELSE Append(IF Len(events[r]) < Depth THEN events[r]
                                                        ELSE Tail(events[r]), m)]
    /\ lagged' = lagged \union {r \in Subscribed : Len(events[r]) = Depth}
    /\ sent' = IF m.flags = {} THEN sent \union {m.kind} ELSE sent
    /\ UNCHANGED cache

\* fault: the message is broadcast before it is cached
DispatchStepSwapped(n, m) == IF n = "second" THEN CacheInsert(m) ELSE Send(m)
DispatchStep(n, m) == IF n = "first" THEN CacheInsert(m) ELSE Send(m)

Dispatching ==
    /\ drv \in {"first", "second"}
    /\ DispatchStep(drv, held[1])
    /\ IF drv = "first" THEN drv' = "second" /\ UNCHANGED held
                        ELSE drv' = "idle" /\ held' = Nothing
    /\ UNCHANGED <<epoch, watch, pushed, at, verdict, given, calledAt>>

\* The socket is lost, or the session ends.
Drop == /\ drv = "idle" /\ epoch < MaxEpoch
        /\ drv' = "down" /\ watch' = 0
        /\ UNCHANGED <<held, epoch, cache, pushed, sent, readers>>
Logon == /\ drv = "down"
         /\ drv' = "live" /\ epoch' = epoch + 1
         /\ pushed' = [k \in Kinds |-> 0]
         /\ UNCHANGED <<held, watch, cache, sent, readers>>
End == /\ drv \in {"idle", "down"}
       /\ drv' = "ended" /\ watch' = 0
       /\ UNCHANGED <<held, epoch, cache, pushed, sent, readers>>

Clear == cache' = [k \in Lists |-> Nothing] /\ sent' = {} /\ UNCHANGED watch
Publish == watch' = epoch /\ UNCHANGED <<cache, sent>>
\* fault: LoggedOn is published before the old snapshots are dropped
ReloginStepSwapped(n) == IF n = "live" THEN Publish ELSE Clear
ReloginStep(n) == IF n = "live" THEN Clear ELSE Publish

Relogin == /\ drv \in {"live", "cleared"}
           /\ ReloginStep(drv)
           /\ drv' = IF drv = "live" THEN "cleared" ELSE "idle"
           /\ UNCHANGED <<held, epoch, pushed, readers>>

-----------------------------------------------------------------------------
Subscribe(r) ==
    /\ at[r] = "call"
    /\ Cardinality({q \in Readers : at[q] # "call"}) < MaxCalls
    /\ at' = [at EXCEPT ![r] = IF KindOf[r] = "persona" THEN "ask" ELSE "cache"]
    /\ calledAt' = [calledAt EXCEPT ![r] = watch]
    /\ UNCHANGED <<driver, events, verdict, given, lagged>>

Return(r, res, a) == /\ at' = [at EXCEPT ![r] = "done"]
                     /\ verdict' = [verdict EXCEPT ![r] = res]
                     /\ given' = [given EXCEPT ![r] = a]
                     /\ UNCHANGED <<driver, calledAt, lagged>>

\* fault: a removal push passes for the whole list
is_full_with_removals(m) == "incremental" \notin m.flags
is_full_nicknames(m) == m.flags \intersect {"incremental", "removal"} = {}
is_full_groups(m) == m.flags \intersect {"incremental", "removal"} = {}
Full(r, m) == CASE KindOf[r] = "friends" -> "incremental" \notin m.flags
                [] KindOf[r] = "nicknames" -> is_full_nicknames(m)
                [] OTHER -> is_full_groups(m)

\* summary_from_persona_state: REQUIRED_SUMMARY_FLAGS and our account's entry
Summary(r, m) == "partial" \notin m.flags /\ r \in m.ids

Wanted(r, m) == IF KindOf[r] = "persona" THEN Summary(r, m) ELSE Full(r, m)

\* cached_snapshot: an undecodable body fails the call, a delta is passed over.
ReadCache(r) ==
    /\ at[r] = "cache"
    /\ LET c == cache[KindOf[r]] IN
        CASE c # Nothing /\ "garbled" \in c[1].flags ->
                 Return(r, "Codec", Nothing) /\ UNCHANGED events
          [] c # Nothing /\ "garbled" \notin c[1].flags /\ Full(r, c[1]) ->
                 Return(r, "Ok", c) /\ UNCHANGED events
          [] OTHER -> /\ at' = [at EXCEPT ![r] = "wait"]
                      /\ UNCHANGED <<driver, events, verdict, given, calledAt, lagged>>

\* notify(): the driver writes the request between dispatches, or is down.
Ask(r) ==
    /\ at[r] = "ask"
    /\ \/ /\ drv = "idle" /\ at' = [at EXCEPT ![r] = "wait"]
          /\ UNCHANGED <<driver, events, verdict, given, calledAt, lagged>>
       \/ drv \in {"down", "ended"} /\ Return(r, "WebSocket", Nothing) /\ UNCHANGED events

Recv(r) ==
    /\ at[r] = "wait" /\ events[r] # <<>>
    /\ LET m == Head(events[r]) IN
        /\ events' = [events EXCEPT ![r] = Tail(@)]
        /\ CASE m.kind # KindOf[r] -> UNCHANGED <<driver, at, verdict, given, calledAt, lagged>>
             [] m.kind = KindOf[r] /\ "garbled" \in m.flags -> Return(r, "Codec", Nothing)
             [] m.kind = KindOf[r] /\ "garbled" \notin m.flags /\ Wanted(r, m) ->
                    Return(r, "Ok", <<m>>)
             [] OTHER -> UNCHANGED <<driver, at, verdict, given, calledAt, lagged>>

\* The wait's timer, with nothing left to read.  The handle's own sender keeps
\* the channel open: the end of the session is not seen here.
Timeout(r) == /\ at[r] = "wait" /\ events[r] = <<>>
              /\ Return(r, "Timeout", Nothing) /\ UNCHANGED events

Stopped == drv = "ended" /\ UNCHANGED snapshotVars
Driver == Dispatching \/ Drop \/ Logon \/ End \/ Relogin
ReadList(r) == Subscribe(r) \/ ReadCache(r) \/ Recv(r) \/ Timeout(r)
request_friends_list(r) == KindOf[r] = "friends" /\ ReadList(r)
request_nicknames(r) == KindOf[r] = "nicknames" /\ ReadList(r)
request_friends_groups_list(r) == KindOf[r] = "groups" /\ ReadList(r)
request_player_summary(r) ==
    KindOf[r] = "persona" /\ (Subscribe(r) \/ Ask(r) \/ Recv(r) \/ Timeout(r))
Reader(r) == \/ request_friends_list(r) \/ request_nicknames(r)
             \/ request_friends_groups_list(r) \/ request_player_summary(r)
ReadersNext ==
    \/ \E k \in Kinds : Dispatch(k)
    \/ Driver
    \/ \E r \in Readers : Reader(r)
    \/ Stopped
ReadersSpec == ReadersInit /\ [][ReadersNext]_snapshotVars

-----------------------------------------------------------------------------
Answered(r) == verdict[r] = "Ok"

\* A caller is given the whole list, or a persona state with a name: never a
\* delta or a removal, from the cache or from the broadcast.
WholeAnswers == \A r \in Readers : Answered(r) => given[r][1].flags = {}

\* A caller that saw LoggedOn is not given a list of an earlier logon.
ListIsCurrent == \A r \in Readers : Answered(r) => given[r][1].epoch >= calledAt[r]

\* "Subscribe first, then read the cache" is race-free: a reader still waiting
\* has not missed a list that was broadcast on this logon, unless it lagged.
ListNotMissed ==
    \A r \in Readers :
        at[r] = "wait" /\ KindOf[r] \in sent \ {"persona"} /\ r \notin lagged =>
            \E i \in DOMAIN events[r] : events[r][i].kind = KindOf[r]
                                       /\ events[r][i].flags = {}
=============================================================================
