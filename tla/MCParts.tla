------------------------------- MODULE MCParts -------------------------------
(***************************************************************************)
(* The parts that share no state with each other or with a session, side   *)
(* by side: a behaviour is one of theirs, chosen in the initial state,     *)
(* while the others stand still in an initial state.                       *)
(***************************************************************************)
EXTENDS ProxyPool, ProxyTunnel, MCProxyUrl, FriendOps, MCWireFormat, SnapshotReader

CONSTANTS w1, w2,
          U32, Answers

VARIABLES part,
          answer, view   \* SteamViews

viewVars == <<answer, view>>
Views == INSTANCE SteamViews

-----------------------------------------------------------------------------
\* The instances.
MCWorkers == {w1, w2}

\* ProxyTunnel: one tick is 15 seconds, the timeouts keep the proportions of the code.
Times(n, x) == [i \in 1..n |-> x]
MCReplies == {<<s>> \o Times(h, "header") \o e \o Times(u, "byte") :
                 s \in {"200", "407"}, h \in 0..3, e \in {<<>>, <<"blank">>}, u \in 0..2}
             \union {<<>>}

\* SteamViews: lists of up to two entries with any field missing, values up to one past
\* each enum, every hash of up to two bytes of interest, and short documents.
Opt(S) == {<<>>} \union {<<x>> : x \in S}
Of(kind, S) == {[kind |-> kind, of |-> x] : x \in S}
FriendEntries == [id : Opt({1, 2}), rel : Opt({0, 3, 6, 7})]
Nicknames == [id : Opt({1, 2}), name : Opt({"", "n"})]
GroupLists == [groups : BoundedSeq([id : Opt({1, 2}), name : Opt({"g"})], 2),
               memberships : BoundedSeq([id : Opt({1, 2}), group : Opt({1, 2})], 2)]
Summaries == [hash : Opt(BoundedSeq({0, 1, 16, 255}, 2)), state : Opt({0, 7, 8}),
              app : Opt({0, 3}), game : Opt({0, 3, U32, U32 + 3})]
Profiles == [eresult : {Absent, OK, FAIL}, real_name : Opt({"", "n"}), created : Opt({0, 5})]
Http(bodies) == [sent : BOOLEAN, status : {200, 302, 429, 503}, whole : BOOLEAN, body : bodies]
Documents == BoundedSeq({"<steamID64>", "</steamID64>", "7", " ", "x"}, 4)
MCAnswers ==
    Of("friends", BoundedSeq(FriendEntries, 2)) \union Of("nicknames", BoundedSeq(Nicknames, 2))
    \union Of("groups", GroupLists) \union Of("summary", Summaries)
    \union Of("profile", Profiles) \union Of("vanity", Http(Documents))
    \union Of("avatar", Http({<<"x">>}))

\* FriendOps: every function, the looping ones with no and with two friends.  The
\* callers are interchangeable, so the first one's call is not after the second's.
MCAccounts == {"a", "b"}
Base == [fn |-> "", id |-> "a", ids |-> <<>>, group |-> 1, text |-> "new"]
Simple == <<"add_friend", "remove_friend", "set_nickname", "clear_nickname", "hide_friend",
            "unhide_friend", "send_message", "send_typing", "delete_friends_group",
            "rename_friends_group">>
Listed == <<"create_friends_group", "add_friends_to_group", "remove_friends_from_group">>
MCCalls == {[Base EXCEPT !.fn = f] : f \in Range(Simple)} \union
           {[Base EXCEPT !.fn = f, !.ids = s] : f \in Range(Listed), s \in {<<>>, <<"a", "b">>}}
Rank(k) == 3 * (CHOOSE i \in DOMAIN (Simple \o Listed) : (Simple \o Listed)[i] = k.fn) + Len(k.ids)

\* SnapshotReader: a reader of each kind.  One of them calls, and of the kinds that
\* only fill its buffer Steam pushes one.
MCReaders == Lists \union {"persona"}
MCKindOf == [r \in MCReaders |-> r]
Pushed(r) == {KindOf[r], IF r = "persona" THEN "friends" ELSE "persona"}
OnlyCalls(r) == /\ \A q \in MCReaders \ {r} : at[q] = "call"
                /\ \A k \in Kinds \ Pushed(r) : pushed[k] = 0

-----------------------------------------------------------------------------
Parts == {"pool", "tunnel", "url", "wire", "views", "ops"} \union MCReaders

\* One initial state of each part, for when it stands still.
TunnelStill == /\ route = "direct" /\ wss = FALSE /\ reply = <<>> /\ closes = FALSE
               /\ TunnelInit
UrlStill == /\ written = [text |-> <<"http", ":", "/", "/", "w">>, scheme |-> "http", slashes |-> 2, user |-> <<>>, pass |-> <<>>,
                          host |-> <<"w">>, port |-> <<>>, tail |-> <<>>]
            /\ config = <<>> /\ shown = <<>> /\ webRoute = <<>>
ViewsStill == answer = [kind |-> "friends", of |-> <<>>] /\ view = <<>>
FriendsStill == /\ friends = {} /\ groups = <<>>
                /\ call = [c \in Callers |-> [Base EXCEPT !.fn = "add_friend"]]
                /\ FriendsInit
WireStill == wire = <<>> /\ inbox = <<>> /\ got = <<>> /\ failed = FALSE /\ last = <<>> /\ gave = <<>>

PartsInit ==
    /\ part \in Parts
    /\ Init
    /\ IF part = "tunnel" THEN TunnelInit ELSE TunnelStill
    /\ IF part = "url" THEN UrlInit ELSE UrlStill
    /\ IF part = "views" THEN Views!Init ELSE ViewsStill
    /\ IF part = "ops" THEN FriendsInit /\ Rank(call["c1"]) <= Rank(call["c2"])
       ELSE FriendsStill
    /\ IF part = "wire" THEN WireInit ELSE WireStill
    /\ ReadersInit

PartsNext ==
    /\ UNCHANGED part
    /\ \/ part = "pool" /\ Next
          /\ UNCHANGED <<wireVars, tunnelVars, urlVars, viewVars, friendVars, snapshotVars>>
       \/ part = "wire" /\ WireNext
          /\ UNCHANGED <<vars, tunnelVars, urlVars, viewVars, friendVars, snapshotVars>>
       \/ part = "tunnel" /\ TunnelNext
          /\ UNCHANGED <<vars, wireVars, urlVars, viewVars, friendVars, snapshotVars>>
       \/ part = "url" /\ UrlNext
          /\ UNCHANGED <<vars, wireVars, tunnelVars, viewVars, friendVars, snapshotVars>>
       \/ part = "views" /\ Views!Next
          /\ UNCHANGED <<vars, wireVars, tunnelVars, urlVars, friendVars, snapshotVars>>
       \/ part = "ops" /\ FriendsNext
          /\ UNCHANGED <<vars, wireVars, tunnelVars, urlVars, viewVars, snapshotVars>>
       \/ part \in MCReaders /\ ReadersNext /\ OnlyCalls(part)'
          /\ UNCHANGED <<vars, wireVars, tunnelVars, urlVars, viewVars, friendVars>>

PartsSpec == PartsInit /\ [][PartsNext]_<<part, vars, tunnelVars, urlVars, wireVars, viewVars,
                                          friendVars, snapshotVars>>

-----------------------------------------------------------------------------
=============================================================================
