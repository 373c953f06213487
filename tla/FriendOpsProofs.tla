--------------------------- MODULE FriendOpsProofs ---------------------------
(***************************************************************************)
(* Why the outcome of a friend operation is what happened at Steam, for    *)
(* any number of callers and any of their calls.                           *)
(***************************************************************************)
EXTENDS FriendOps, WellFoundedInduction, TLAPS

Listed == {"add_friends_to_group", "remove_friends_from_group"}

\* One request for every function but the two that loop over friends.
LEMMA RequestsOf ==
    ASSUME NEW c \in Calls
    PROVE  /\ c.fn = "add_friend" => Requests(c) = <<add_friend(c)>>
           /\ c.fn = "remove_friend" => Requests(c) = <<remove_friend(c)>>
           /\ c.fn = "set_nickname" => Requests(c) = <<set_nickname(c)>>
           /\ c.fn = "clear_nickname" => Requests(c) = <<clear_nickname(c)>>
           /\ c.fn = "hide_friend" => Requests(c) = <<hide_friend(c)>>
           /\ c.fn = "unhide_friend" => Requests(c) = <<unhide_friend(c)>>
           /\ c.fn = "send_message" => Requests(c) = <<send_message(c)>>
           /\ c.fn = "send_typing" => Requests(c) = <<send_typing(c)>>
           /\ c.fn = "create_friends_group" =>
                 Requests(c) = <<create_friends_group(c)>>
           /\ c.fn = "delete_friends_group" =>
                 Requests(c) = <<delete_friends_group(c)>>
           /\ c.fn = "rename_friends_group" =>
                 Requests(c) = <<rename_friends_group(c)>>
           /\ c.fn = "add_friends_to_group" =>
                 Requests(c) = add_friends_to_group(c)
           /\ c.fn = "remove_friends_from_group" =>
                 Requests(c) = remove_friends_from_group(c)
BY Zenon DEF Requests

\* The i-th request of a looping call is about its i-th friend.
LEMMA ListedRequests ==
    ASSUME NEW c \in Calls, c.fn \in Listed
    PROVE  /\ Len(Requests(c)) = Len(c.ids) /\ Len(c.ids) \in Nat
           /\ DOMAIN c.ids = 1..Len(c.ids)
           /\ \A i \in 1..Len(c.ids) :
                 LET w == Requests(c)[i] IN
                 /\ w.emsg = IF c.fn = "add_friends_to_group" THEN "AddToGroup"
                                                              ELSE "RemoveFromGroup"
                 /\ w.group = c.group /\ w.id = c.ids[i]
<1>1. Len(c.ids) \in Nat /\ DOMAIN c.ids = 1..Len(c.ids)
    BY CallsAssumption
<1> DEFINE added(k) == [Wire EXCEPT !.emsg = "AddToGroup", !.group = c.group,
                                          !.id = c.ids[k]]
           removed(k) == [Wire EXCEPT !.emsg = "RemoveFromGroup", !.group = c.group,
                                             !.id = c.ids[k]]
<1>2. \A k : /\ added(k).emsg = "AddToGroup" /\ added(k).group = c.group /\ added(k).id = c.ids[k]
             /\ removed(k).emsg = "RemoveFromGroup" /\ removed(k).group = c.group
             /\ removed(k).id = c.ids[k]
    BY DEF Wire
<1>3. c.fn = "add_friends_to_group" => Requests(c) = [k \in 1..Len(c.ids) |-> added(k)]
    BY <1>1, RequestsOf, Zenon DEF add_friends_to_group
<1>4. c.fn = "remove_friends_from_group" =>
          Requests(c) = [k \in 1..Len(c.ids) |-> removed(k)]
    BY <1>1, RequestsOf, Zenon DEF remove_friends_from_group
<1> HIDE DEF added, removed
<1>5. CASE c.fn = "add_friends_to_group"
    BY <1>1, <1>2, <1>3, <1>5
<1>6. CASE c.fn = "remove_friends_from_group"
    BY <1>1, <1>2, <1>4, <1>6
<1> QED
    BY <1>5, <1>6 DEF Listed

\* Every other call makes exactly one request.
LEMMA SingleRequest ==
    ASSUME NEW c \in Calls, c.fn \notin Listed
    PROVE  Len(Requests(c)) = 1
<1>1. c.fn \in FriendFunctions
    BY CallsAssumption
<1>2. \E w : Requests(c) = <<w>>
    BY <1>1, RequestsOf DEF FriendFunctions, Listed
<1> QED
    BY <1>2

\* The number of requests.
LEMMA RequestCount ==
    ASSUME NEW c \in Calls
    PROVE  Len(Requests(c)) \in Nat
BY ListedRequests, SingleRequest

\* Only the functions that Steam does not answer notify.
LEMMA NotifyRequests ==
    ASSUME NEW c \in Calls, NEW i \in 1..Len(Requests(c)),
           IsNotify(Requests(c)[i])
    PROVE  c.fn \in Notifies /\ c.fn \notin Listed
<1>1. c.fn \in FriendFunctions
    BY CallsAssumption
<1>2. c.fn \notin Listed
    BY ListedRequests DEF IsNotify
<1>3. i = 1
    BY <1>2, SingleRequest
<1>4. ~IsNotify(add_friend(c)) /\ ~IsNotify(set_nickname(c))
      /\ ~IsNotify(clear_nickname(c))
    BY DEF IsNotify, add_friend, set_nickname, clear_nickname,
        Wire
<1>5. ~IsNotify(create_friends_group(c))
      /\ ~IsNotify(delete_friends_group(c))
      /\ ~IsNotify(rename_friends_group(c))
    BY DEF IsNotify, create_friends_group, delete_friends_group,
        rename_friends_group, Wire
<1>6. ASSUME NEW w, Requests(c) = <<w>> PROVE IsNotify(w)
    BY <1>3, <1>6
<1> QED
    BY <1>1, <1>2, <1>4, <1>5, <1>6, RequestsOf DEF FriendFunctions, Listed, Notifies

-----------------------------------------------------------------------------
Texts == {"", "old"} \union {c.text : c \in Calls}

\* The account at Steam.
SteamTyped ==
    /\ nick \in [Accounts -> Texts]
    /\ groups \in [DOMAIN groups -> [name : Texts, members : SUBSET Accounts]]
    /\ DOMAIN groups \subseteq GroupIds

\* What a request has brought about once it is applied.
Effect(w) ==
    /\ w.emsg = "AddFriend" => w.id \in friends
    /\ w.emsg = "RemoveFriend" => w.id \notin friends
    /\ w.emsg = "SetPlayerNickname" => nick[w.id] = w.text
    /\ w.emsg = "HideFriend" => IF w.flag THEN w.id \in hidden ELSE w.id \notin hidden
    /\ w.emsg = "FriendMsg" => <<w.id, w.group, w.text>> \in chat
    /\ w.emsg = "CreateGroup" =>
          \E g \in DOMAIN groups : groups[g] = [name |-> w.text, members |-> w.ids]
    /\ w.emsg = "DeleteGroup" => w.group \notin DOMAIN groups
    /\ w.emsg = "ManageGroup" => groups[w.group].name = w.text
    /\ w.emsg = "AddToGroup" => w.group \in DOMAIN groups /\ w.id \in groups[w.group].members
    /\ w.emsg = "RemoveFromGroup" =>
          w.group \in DOMAIN groups /\ w.id \notin groups[w.group].members

EMsgs == {"AddFriend", "RemoveFriend", "SetPlayerNickname", "HideFriend", "FriendMsg",
          "CreateGroup", "DeleteGroup", "ManageGroup", "AddToGroup", "RemoveFromGroup"}

\* The requests there are, and what is in them.
WireTyped(w) == /\ w.emsg \in EMsgs /\ w.text \in Texts /\ w.ids \in SUBSET Accounts
                /\ w.emsg \in {"AddFriend", "SetPlayerNickname", "AddToGroup"} => w.id \in Accounts
                /\ w.flag \in BOOLEAN

LEMMA RequestsTyped ==
    ASSUME NEW c \in Calls, NEW i \in 1..Len(Requests(c))
    PROVE  WireTyped(Requests(c)[i])
<1>1. /\ c.fn \in FriendFunctions /\ c.id \in Accounts /\ c.text \in Texts
      /\ {c.ids[k] : k \in DOMAIN c.ids} \in SUBSET Accounts
      /\ \A k \in DOMAIN c.ids : c.ids[k] \in Accounts
    <2>1. c.fn \in FriendFunctions /\ c.id \in Accounts /\ c.ids \in Seq(Accounts)
        BY CallsAssumption
    <2>2. \A k \in DOMAIN c.ids : c.ids[k] \in Accounts
        BY <2>1
    <2>3. c.text \in Texts
        BY Zenon DEF Texts
    <2> QED
        BY <2>1, <2>2, <2>3
<1>2. "" \in Texts
    BY DEF Texts
<1> USE DEF WireTyped, EMsgs, Wire
<1>3. WireTyped(add_friend(c)) /\ WireTyped(remove_friend(c))
    BY <1>1, <1>2, Zenon DEF add_friend, remove_friend
<1>4. WireTyped(set_nickname(c)) /\ WireTyped(clear_nickname(c))
    BY <1>1, <1>2, Zenon DEF set_nickname, clear_nickname
<1>5. WireTyped(hide_friend(c)) /\ WireTyped(unhide_friend(c))
    BY <1>1, <1>2, Zenon DEF hide_friend, unhide_friend
<1>6. WireTyped(send_message(c)) /\ WireTyped(send_typing(c))
    BY <1>1, <1>2, Zenon DEF send_message, send_typing
<1>7. WireTyped(create_friends_group(c)) /\ WireTyped(delete_friends_group(c))
      /\ WireTyped(rename_friends_group(c))
    BY <1>1, <1>2, Zenon DEF create_friends_group, delete_friends_group,
        rename_friends_group
<1>8. ASSUME NEW k \in DOMAIN c.ids
      PROVE  /\ WireTyped(add_friends_to_group(c)[k])
             /\ WireTyped(remove_friends_from_group(c)[k])
    BY <1>1, <1>2, Zenon DEF add_friends_to_group, remove_friends_from_group
<1> HIDE DEF WireTyped, EMsgs, Wire
<1>9. CASE c.fn \in Listed
    <2>1. i \in DOMAIN c.ids
        BY <1>9, ListedRequests
    <2> QED
        BY <1>8, <1>9, <2>1, RequestsOf DEF Listed
<1>10. CASE c.fn \notin Listed
    <2>1. i = 1
        <3>1. Len(Requests(c)) = 1
            BY <1>10, SingleRequest, Zenon
        <3> QED
            BY <3>1
    <2>2. /\ c.fn = "add_friend" => Requests(c)[i] = add_friend(c)
          /\ c.fn = "remove_friend" => Requests(c)[i] = remove_friend(c)
          /\ c.fn = "set_nickname" => Requests(c)[i] = set_nickname(c)
          /\ c.fn = "clear_nickname" => Requests(c)[i] = clear_nickname(c)
          /\ c.fn = "hide_friend" => Requests(c)[i] = hide_friend(c)
          /\ c.fn = "unhide_friend" => Requests(c)[i] = unhide_friend(c)
          /\ c.fn = "send_message" => Requests(c)[i] = send_message(c)
          /\ c.fn = "send_typing" => Requests(c)[i] = send_typing(c)
          /\ c.fn = "create_friends_group" => Requests(c)[i] = create_friends_group(c)
          /\ c.fn = "delete_friends_group" => Requests(c)[i] = delete_friends_group(c)
          /\ c.fn = "rename_friends_group" => Requests(c)[i] = rename_friends_group(c)
        BY <2>1, RequestsOf
    <2> QED
        BY <1>1, <1>3, <1>4, <1>5, <1>6, <1>7, <1>10, <2>2 DEF FriendFunctions, Listed
<1> QED
    BY <1>9, <1>10

\* All of a call's requests in effect are what the call is for.
LEMMA EffectsMeetGoal ==
    ASSUME NEW c \in Calls, \A i \in 1..Len(Requests(c)) : Effect(Requests(c)[i])
    PROVE  Goal(c)
<1>1. c.fn \in FriendFunctions
    BY CallsAssumption
<1> DEFINE ids == {c.ids[k] : k \in DOMAIN c.ids}
<1>2. CASE c.fn \in Listed
    <2>1. /\ DOMAIN c.ids = 1..Len(c.ids)
          /\ \A i \in 1..Len(c.ids) :
                LET w == Requests(c)[i] IN
                /\ w.emsg = IF c.fn = "add_friends_to_group" THEN "AddToGroup"
                                                             ELSE "RemoveFromGroup"
                /\ w.group = c.group /\ w.id = c.ids[i] /\ Effect(w)
        BY <1>2, ListedRequests
    <2>2. CASE c.fn = "add_friends_to_group"
        <3>1. \A k \in DOMAIN c.ids :
                  c.group \in DOMAIN groups /\ c.ids[k] \in groups[c.group].members
            BY <2>1, <2>2, Zenon DEF Effect
        <3>2. ids # {} => c.group \in DOMAIN groups /\ ids \subseteq groups[c.group].members
            BY <3>1
        <3> QED
            BY <2>2, <3>2, Zenon DEF Goal
    <2>3. CASE c.fn = "remove_friends_from_group"
        <3>1. \A k \in DOMAIN c.ids :
                  c.group \in DOMAIN groups /\ c.ids[k] \notin groups[c.group].members
            BY <2>1, <2>3, Zenon DEF Effect
        <3>2. ids # {} => c.group \in DOMAIN groups /\ ids \intersect groups[c.group].members = {}
            BY <3>1
        <3> QED
            BY <2>3, <3>2, Zenon DEF Goal
    <2> QED
        BY <1>2, <2>2, <2>3 DEF Listed
<1>3. CASE c.fn \notin Listed
    <2>1. ASSUME NEW w, Requests(c) = <<w>> PROVE Effect(w)
        BY <1>3, <2>1, SingleRequest
    <2>2. CASE c.fn = "add_friend"
        <3>1. Effect(add_friend(c))
            BY <2>1, <2>2, RequestsOf
        <3>2. c.id \in friends
            BY <3>1 DEF Effect, add_friend, Wire
        <3> QED
            BY <2>2, <3>2 DEF Goal
    <2>3. CASE c.fn = "remove_friend"
        <3>1. Effect(remove_friend(c))
            BY <2>1, <2>3, RequestsOf
        <3>2. c.id \notin friends
            BY <3>1 DEF Effect, remove_friend, Wire
        <3> QED
            BY <2>3, <3>2 DEF Goal
    <2>4. CASE c.fn = "set_nickname"
        <3>1. Effect(set_nickname(c))
            BY <2>1, <2>4, RequestsOf
        <3>2. nick[c.id] = c.text
            BY <3>1 DEF Effect, set_nickname, Wire
        <3> QED
            BY <2>4, <3>2 DEF Goal
    <2>5. CASE c.fn = "clear_nickname"
        <3>1. Effect(clear_nickname(c))
            BY <2>1, <2>5, RequestsOf
        <3>2. nick[c.id] = ""
            BY <3>1, Zenon DEF Effect, clear_nickname, Wire
        <3> QED
            BY <2>5, <3>2, Zenon DEF Goal
    <2>6. CASE c.fn = "hide_friend"
        <3>1. Effect(hide_friend(c))
            BY <2>1, <2>6, RequestsOf
        <3>2. c.id \in hidden
            BY <3>1 DEF Effect, hide_friend, Wire
        <3> QED
            BY <2>6, <3>2 DEF Goal
    <2>7. CASE c.fn = "unhide_friend"
        <3>1. Effect(unhide_friend(c))
            BY <2>1, <2>7, RequestsOf
        <3>2. c.id \notin hidden
            BY <3>1 DEF Effect, unhide_friend, Wire
        <3> QED
            BY <2>7, <3>2 DEF Goal
    <2>8. CASE c.fn = "send_message"
        <3>1. Effect(send_message(c))
            BY <2>1, <2>8, RequestsOf
        <3>2. <<c.id, 1, c.text>> \in chat
            BY <3>1 DEF Effect, send_message, Wire
        <3> QED
            BY <2>8, <3>2 DEF Goal
    <2>9. CASE c.fn = "send_typing"
        <3>1. Effect(send_typing(c))
            BY <2>1, <2>9, RequestsOf
        <3>2. <<c.id, 2, "">> \in chat
            BY <3>1, Zenon DEF Effect, send_typing, Wire
        <3> QED
            BY <2>9, <3>2, Zenon DEF Goal
    <2>10. CASE c.fn = "create_friends_group"
        <3>1. Effect(create_friends_group(c))
            BY <2>1, <2>10, RequestsOf
        <3>2. \E g \in DOMAIN groups : groups[g] = [name |-> c.text, members |-> ids]
            BY <3>1 DEF Effect, create_friends_group, Wire
        <3> QED
            BY <2>10, <3>2 DEF Goal
    <2>11. CASE c.fn = "delete_friends_group"
        <3>1. Effect(delete_friends_group(c))
            BY <2>1, <2>11, RequestsOf
        <3>2. c.group \notin DOMAIN groups
            BY <3>1 DEF Effect, delete_friends_group, Wire
        <3> QED
            BY <2>11, <3>2 DEF Goal
    <2>12. CASE c.fn = "rename_friends_group"
        <3>1. Effect(rename_friends_group(c))
            BY <2>1, <2>12, RequestsOf
        <3>2. groups[c.group].name = c.text
            BY <3>1 DEF Effect, rename_friends_group, Wire
        <3> QED
            BY <2>12, <3>2 DEF Goal
    <2> QED
        BY <1>1, <1>3, <2>2, <2>3, <2>4, <2>5, <2>6, <2>7, <2>8, <2>9, <2>10, <2>11, <2>12
        DEF FriendFunctions, Listed
<1> QED
    BY <1>2, <1>3

-----------------------------------------------------------------------------
\* What applying a request changes, by its kind.
LEMMA ApplyFacts ==
    ASSUME NEW w, w.emsg \in EMsgs, Apply(w)
    PROVE  /\ w.emsg = "AddFriend" => friends' = friends \union {w.id}
           /\ w.emsg = "RemoveFriend" => friends' = friends \ {w.id}
           /\ w.emsg = "SetPlayerNickname" => nick' = [nick EXCEPT ![w.id] = w.text]
           /\ w.emsg # "SetPlayerNickname" => nick' = nick
           /\ w.emsg = "HideFriend" /\ w.flag => hidden' = hidden \union {w.id}
           /\ w.emsg = "HideFriend" /\ ~w.flag => hidden' = hidden \ {w.id}
           /\ w.emsg = "FriendMsg" => chat' = chat \union {<<w.id, w.group, w.text>>}
           /\ w.emsg = "CreateGroup" =>
                 groups' = With(groups, NewId, [name |-> w.text, members |-> w.ids])
           /\ w.emsg = "DeleteGroup" => groups' = Without(groups, w.group)
           /\ w.emsg = "ManageGroup" => groups' = [groups EXCEPT ![w.group].name = w.text]
           /\ w.emsg = "AddToGroup" =>
                 groups' = [groups EXCEPT ![w.group].members = @ \union {w.id}]
           /\ w.emsg = "RemoveFromGroup" =>
                 groups' = [groups EXCEPT ![w.group].members = @ \ {w.id}]
           /\ w.emsg \notin {"CreateGroup", "DeleteGroup", "ManageGroup", "AddToGroup",
                             "RemoveFromGroup"} => groups' = groups
<1>1. /\ w.emsg = "AddFriend" => friends' = friends \union {w.id}
      /\ w.emsg = "RemoveFriend" => friends' = friends \ {w.id}
    BY DEF Apply
<1>2. /\ w.emsg = "SetPlayerNickname" => nick' = [nick EXCEPT ![w.id] = w.text]
      /\ w.emsg # "SetPlayerNickname" => nick' = nick
    BY DEF Apply
<1>3. /\ w.emsg = "HideFriend" /\ w.flag => hidden' = hidden \union {w.id}
      /\ w.emsg = "HideFriend" /\ ~w.flag => hidden' = hidden \ {w.id}
    BY DEF Apply
<1>4. w.emsg = "FriendMsg" => chat' = chat \union {<<w.id, w.group, w.text>>}
    BY DEF Apply
<1>5. w.emsg = "CreateGroup" =>
          groups' = With(groups, NewId, [name |-> w.text, members |-> w.ids])
    BY DEF Apply
<1>6. w.emsg = "DeleteGroup" => groups' = Without(groups, w.group)
    BY DEF Apply
<1>7. w.emsg = "ManageGroup" => groups' = [groups EXCEPT ![w.group].name = w.text]
    BY DEF Apply
<1>8. w.emsg = "AddToGroup" => groups' = [groups EXCEPT ![w.group].members = @ \union {w.id}]
    BY DEF Apply
<1>9. w.emsg = "RemoveFromGroup" => groups' = [groups EXCEPT ![w.group].members = @ \ {w.id}]
    BY DEF Apply
<1>10. w.emsg \notin {"CreateGroup", "DeleteGroup", "ManageGroup", "AddToGroup",
                      "RemoveFromGroup"} => groups' = groups
    BY DEF Apply
<1> QED
    BY <1>1, <1>2, <1>3, <1>4, <1>5, <1>6, <1>7, <1>8, <1>9, <1>10

\* While a group id is free, the next one Steam gives out is one of them.
LEMMA NewIdIsFree ==
    ASSUME SteamTyped, DOMAIN groups # GroupIds
    PROVE  NewId \in GroupIds /\ NewId \notin DOMAIN groups
<1> DEFINE R == {ss \in Nat \X Nat : ss[1] < ss[2]}
           T == GroupIds \ DOMAIN groups
<1>1. IsWellFoundedOn(R, Nat)
    BY NatLessThanWellFounded DEF OpToRel
<1>2. T \subseteq Nat /\ T # {}
    BY CallsAssumption, Zenon DEF SteamTyped
<1>3. PICK x \in T : \A y \in T : ~(<<y, x>> \in R)
    <2> HIDE DEF R, T
    <2> QED
        BY <1>1, <1>2, WFMin, Zenon
<1>4. \A h \in GroupIds : h < x => h \in DOMAIN groups
    BY <1>2, <1>3, CallsAssumption, Zenon
<1> QED
    BY <1>3, <1>4 DEF NewId

\* Steam keeps the account in order, whatever it applies.
LEMMA ApplyTyped ==
    ASSUME SteamTyped, NEW w, WireTyped(w), Known(w), Apply(w)
    PROVE  SteamTyped'
<1> DEFINE Group == [name : Texts, members : SUBSET Accounts]
<1>1. w.emsg \in EMsgs /\ w.text \in Texts /\ w.ids \in SUBSET Accounts
    BY DEF WireTyped
<1>2. nick' \in [Accounts -> Texts]
    <2>1. nick \in [Accounts -> Texts]
        BY DEF SteamTyped
    <2>2. nick' = nick \/ nick' = [nick EXCEPT ![w.id] = w.text]
        BY <1>1, ApplyFacts, Zenon
    <2> QED
        BY <1>1, <2>1, <2>2
<1>3. groups \in [DOMAIN groups -> Group] /\ DOMAIN groups \subseteq GroupIds
    BY DEF SteamTyped
<1>4. CASE w.emsg = "CreateGroup"
    <2>1. DOMAIN groups # GroupIds
        BY <1>4 DEF Known
    <2> DEFINE g == NewId
               v == [name |-> w.text, members |-> w.ids]
    <2>2. g \in GroupIds /\ v \in Group
        BY <1>1, <2>1, NewIdIsFree
    <2> HIDE DEF g, v, Group
    <2>3. groups' = [x \in DOMAIN groups \union {g} |-> IF x = g THEN v ELSE groups[x]]
        BY <1>1, <1>4, ApplyFacts, Zenon DEF With, g, v
    <2>4. groups' \in [DOMAIN groups' -> Group] /\ DOMAIN groups' \subseteq GroupIds
        BY <1>3, <2>2, <2>3
    <2> QED
        BY <1>2, <2>4 DEF SteamTyped, Group
<1>5. CASE w.emsg = "DeleteGroup"
    <2>1. groups' = [x \in DOMAIN groups \ {w.group} |-> groups[x]]
        BY <1>1, <1>5, ApplyFacts, Zenon DEF Without
    <2> HIDE DEF Group
    <2>2. groups' \in [DOMAIN groups' -> Group] /\ DOMAIN groups' \subseteq GroupIds
        BY <1>3, <2>1
    <2> QED
        BY <1>2, <2>2 DEF SteamTyped, Group
<1>6. CASE w.emsg \in {"ManageGroup", "AddToGroup", "RemoveFromGroup"}
    <2>1. w.group \in DOMAIN groups /\ (w.emsg = "AddToGroup" => w.id \in Accounts)
        BY <1>6 DEF Known, WireTyped
    <2>2. groups[w.group] \in Group
        BY <1>3, <2>1
    <2>3. PICK v \in Group : groups' = [groups EXCEPT ![w.group] = v]
        <3>1. CASE w.emsg = "ManageGroup"
            <4>1. groups' = [groups EXCEPT ![w.group] = [groups[w.group] EXCEPT !.name = w.text]]
                BY <1>1, <3>1, ApplyFacts, Zenon
            <4>2. [groups[w.group] EXCEPT !.name = w.text] \in Group
                BY <1>1, <2>2
            <4> QED
                BY <4>1, <4>2, Zenon
        <3>2. CASE w.emsg = "AddToGroup"
            <4>1. groups' = [groups EXCEPT ![w.group] =
                                [groups[w.group] EXCEPT !.members = @ \union {w.id}]]
                BY <1>1, <3>2, ApplyFacts, Zenon
            <4>2. [groups[w.group] EXCEPT !.members = @ \union {w.id}] \in Group
                BY <2>1, <2>2, <3>2
            <4> QED
                BY <4>1, <4>2, Zenon
        <3>3. CASE w.emsg = "RemoveFromGroup"
            <4>1. groups' = [groups EXCEPT ![w.group] =
                                [groups[w.group] EXCEPT !.members = @ \ {w.id}]]
                BY <1>1, <3>3, ApplyFacts, Zenon
            <4>2. [groups[w.group] EXCEPT !.members = @ \ {w.id}] \in Group
                BY <2>2
            <4> QED
                BY <4>1, <4>2, Zenon
        <3> QED
            BY <1>6, <3>1, <3>2, <3>3
    <2> HIDE DEF Group
    <2>4. groups' \in [DOMAIN groups' -> Group] /\ DOMAIN groups' \subseteq GroupIds
        BY <1>3, <2>3, Zenon
    <2> QED
        BY <1>2, <2>4 DEF SteamTyped, Group
<1>7. CASE w.emsg \notin {"CreateGroup", "DeleteGroup", "ManageGroup", "AddToGroup",
                          "RemoveFromGroup"}
    <2>1. groups' = groups
        BY <1>1, <1>7, ApplyFacts, Zenon
    <2> QED
        BY <1>2, <2>1 DEF SteamTyped
<1> QED
    BY <1>4, <1>5, <1>6, <1>7

\* A request that Steam applies is in effect.
LEMMA AppliedEffect ==
    ASSUME SteamTyped, NEW w, WireTyped(w), Known(w), Apply(w)
    PROVE  Effect(w)'
<1>1. w.emsg \in EMsgs /\ w.flag \in BOOLEAN
    BY DEF WireTyped
<1>2. CASE w.emsg \in {"AddFriend", "RemoveFriend", "FriendMsg"}
    BY <1>1, <1>2, ApplyFacts, Zenon DEF Effect
<1>3. CASE w.emsg = "HideFriend"
    BY <1>1, <1>3, ApplyFacts, Zenon DEF Effect
<1>4. CASE w.emsg = "SetPlayerNickname"
    <2>1. w.id \in Accounts
        BY <1>4 DEF WireTyped
    <2> QED
        BY <1>1, <1>4, <2>1, ApplyFacts, Zenon DEF Effect, SteamTyped
<1>5. CASE w.emsg = "CreateGroup"
    <2> DEFINE v == [name |-> w.text, members |-> w.ids]
    <2>1. groups' = With(groups, NewId, v)
        BY <1>1, <1>5, ApplyFacts, Zenon
    <2>2. \E g \in DOMAIN groups' : groups'[g] = v
        BY <2>1 DEF With
    <2> QED
        BY <1>5, <2>2 DEF Effect
<1>6. CASE w.emsg = "DeleteGroup"
    <2>1. groups' = Without(groups, w.group)
        BY <1>1, <1>6, ApplyFacts, Zenon
    <2> QED
        BY <1>6, <2>1 DEF Effect, Without
<1>7. CASE w.emsg \in {"ManageGroup", "AddToGroup", "RemoveFromGroup"}
    <2>1. w.group \in DOMAIN groups
        BY <1>7 DEF Known
    <2>2. groups[w.group] \in [name : Texts, members : SUBSET Accounts]
        BY <2>1 DEF SteamTyped
    <2>3. CASE w.emsg = "ManageGroup"
        <3>1. groups' = [groups EXCEPT ![w.group].name = w.text]
            BY <1>1, <2>3, ApplyFacts, Zenon
        <3> QED
            BY <2>1, <2>2, <2>3, <3>1 DEF Effect
    <2>4. CASE w.emsg = "AddToGroup"
        <3>1. groups' = [groups EXCEPT ![w.group].members = @ \union {w.id}]
            BY <1>1, <2>4, ApplyFacts, Zenon
        <3> QED
            BY <2>1, <2>2, <2>4, <3>1 DEF Effect
    <2>5. CASE w.emsg = "RemoveFromGroup"
        <3>1. groups' = [groups EXCEPT ![w.group].members = @ \ {w.id}]
            BY <1>1, <2>5, ApplyFacts, Zenon
        <3> QED
            BY <2>1, <2>2, <2>5, <3>1 DEF Effect
    <2> QED
        BY <1>7, <2>3, <2>4, <2>5
<1> QED
    BY <1>1, <1>2, <1>3, <1>4, <1>5, <1>6, <1>7 DEF EMsgs

\* A call's later request undoes none of its earlier ones.
LEMMA OwnEffectsStay ==
    ASSUME SteamTyped, NEW c \in Calls, NEW k \in 1..Len(Requests(c)),
           NEW i \in 1..(k - 1), Effect(Requests(c)[i]),
           Known(Requests(c)[k]), Apply(Requests(c)[k])
    PROVE  Effect(Requests(c)[i])'
<1> DEFINE u == Requests(c)[i]
           w == Requests(c)[k]
<1>1. Len(Requests(c)) \in Nat
    BY RequestCount
<1>2. i \in 1..Len(Requests(c)) /\ i < k
    BY <1>1
<1>3. c.fn \in Listed
    <2>1. Len(Requests(c)) # 1
        BY <1>1, <1>2
    <2> QED
        BY <2>1, SingleRequest
<1>4. /\ u.emsg = w.emsg /\ u.emsg \in {"AddToGroup", "RemoveFromGroup"} /\ u.group = w.group
    BY <1>2, <1>3, ListedRequests
<1>5. WireTyped(w)
    BY RequestsTyped
<1>6. Effect(u) /\ Known(w) /\ Apply(w)
    OBVIOUS
<1> SUFFICES Effect(u)'
    OBVIOUS
<1> HIDE DEF u, w
<1>7. w.group \in DOMAIN groups /\ w.emsg \in EMsgs
    BY <1>4, <1>5, <1>6 DEF Known, WireTyped
<1>8. groups[w.group] \in [name : Texts, members : SUBSET Accounts]
    BY <1>7 DEF SteamTyped
<1>9. CASE w.emsg = "AddToGroup"
    <2>1. groups' = [groups EXCEPT ![w.group].members = @ \union {w.id}]
        BY <1>6, <1>7, <1>9, ApplyFacts, Zenon
    <2>2. u.id \in groups[w.group].members
        BY Zenon, <1>4, <1>6, <1>9 DEF Effect
    <2> QED
        BY <1>4, <1>7, <1>8, <1>9, <2>1, <2>2 DEF Effect
<1>10. CASE w.emsg = "RemoveFromGroup"
    <2>1. groups' = [groups EXCEPT ![w.group].members = @ \ {w.id}]
        BY <1>6, <1>7, <1>10, ApplyFacts, Zenon
    <2>2. u.id \notin groups[w.group].members
        BY Zenon, <1>4, <1>6, <1>10 DEF Effect
    <2> QED
        BY <1>4, <1>7, <1>8, <1>10, <2>1, <2>2 DEF Effect
<1> QED
    BY <1>4, <1>9, <1>10

\* The answer to a request that was applied is accepted exactly when it names what it
\* should, with or without a result in its header, also when the friend was one already
\* and when the new group's id is 0.
LEMMA AppliedIsAccepted ==
    ASSUME SteamTyped, NEW w, WireTyped(w), Known(w),
           NEW code, code = IF w.emsg = "AddFriend" /\ w.id \in friends
                            THEN DUPLICATE_REQUEST ELSE OK,
           NEW id, w.emsg = "CreateGroup" => id \in {NewId, NoId},
                   w.emsg = "AddFriend" => id \in {1, NoId, ZeroId},
           NEW h \in {Absent, code}
    PROVE  Accepts(w, [header |-> h, body |-> code, id |-> id]) <=>
               ~ \/ w.emsg = "CreateGroup" /\ id = NoId
                 \/ w.emsg = "AddFriend" /\ id \in {NoId, ZeroId}
<1> DEFINE r == [header |-> h, body |-> code, id |-> id]
<1>1. r.header = h /\ r.body = code /\ r.id = id
    OBVIOUS
<1> HIDE DEF r
<1>2. OrFail(OK) = OK /\ OrFail(DUPLICATE_REQUEST) = DUPLICATE_REQUEST
    BY DEF OrFail, OK, DUPLICATE_REQUEST, Absent
<1>3. CASE w.emsg = "AddFriend"
    <2>1. add(r) <=> id \notin {NoId, ZeroId}
        BY <1>1, <1>2 DEF add
    <2> QED
        BY <1>3, <2>1 DEF Accepts, r
<1>4. CASE w.emsg # "AddFriend"
    <2>1. CheckedOk(r)
        BY <1>1, <1>2, <1>4 DEF CheckedOk
    <2>2. CASE w.emsg = "CreateGroup"
        BY <1>1, <2>1, <2>2 DEF Accepts, r
    <2>3. CASE w.emsg # "CreateGroup"
        BY <1>4, <2>1, <2>3 DEF Accepts, r
    <2> QED
        BY <2>2, <2>3
<1> QED
    BY <1>3, <1>4

\* The answer to a request that was refused is not, whatever part of it carries the result
\* and whomever it names.
LEMMA RefusedIsNotAccepted ==
    ASSUME NEW w, NEW h \in {Absent, FAIL}, NEW b \in {Absent, FAIL}, NEW id
    PROVE  ~Accepts(w, [header |-> h, body |-> b, id |-> id])
<1> DEFINE r == [header |-> h, body |-> b, id |-> id]
<1>1. r.body = b
    OBVIOUS
<1> HIDE DEF r
<1>2. OrFail(b) = FAIL /\ FAIL \notin {OK, DUPLICATE_REQUEST}
    BY DEF OrFail, FAIL, OK, DUPLICATE_REQUEST
<1>3. ~add(r) /\ ~CheckedOk(r)
    BY <1>1, <1>2 DEF add, CheckedOk
<1> QED
    BY <1>3 DEF Accepts, r

-----------------------------------------------------------------------------
RequestsFor(c) == Requests(call[c])
Request(c) == RequestsFor(c)[next[c]]

CallsTyped ==
    /\ call \in [Callers -> Calls]
    /\ pc \in [Callers -> {"ask", "sent", "replied", "done"}]
    /\ next \in [Callers -> Nat \ {0}]
    /\ DOMAIN inflight = Callers /\ DOMAIN steamReply = Callers /\ DOMAIN outcome = Callers

\* At most the current request of a call is on its way; a call is over once it has an
\* outcome, Ok after its last request, and Steam takes nothing before it is written.
InFlight(c) ==
    /\ pc[c] = "sent" => inflight[c] # <<>>
    /\ inflight[c] # <<>> => /\ pc[c] \in {"sent", "done"}
                             /\ inflight[c] = <<Request(c)>> /\ next[c] <= Total(c)
    /\ pc[c] = "replied" => next[c] <= Total(c)
    /\ outcome[c] # "none" => pc[c] = "done"
    /\ outcome[c] = "Ok" => next[c] >= Total(c)
    /\ c \in taken => next[c] > 1 \/ pc[c] \in {"replied", "done"}

Accepted(c) == pc[c] = "replied" /\ Accepts(Request(c), steamReply[c][1])

\* The requests of c that its caller takes, or may take, for done.
Covered(c) == {i \in 1..Total(c) :
                  \/ i < next[c]
                  \/ i = next[c] /\ Accepted(c)
                  \/ i = next[c] /\ outcome[c] = "Ok" /\ (call[c].fn \in Notifies => c \in taken)}

\* They are done, unless another call has changed the account since.
InEffect(c) ==
    /\ Covered(c) # {} => c \in taken
    /\ c \notin disturbed => \A i \in Covered(c) : Effect(RequestsFor(c)[i])

\* Steam refused a request of the call, or answered it without the id it should name.
Denied(c) == c \in refused \union nameless

\* That is what a reply is rejected for, and no call goes on, or ends well, after it.
RefusedBySteam(c) ==
    /\ pc[c] \in {"ask", "sent"} => ~Denied(c)
    /\ pc[c] = "replied" => (Accepted(c) <=> ~Denied(c))
    /\ outcome[c] = "Remote" => Denied(c)
    /\ outcome[c] = "Ok" /\ call[c].fn \notin Notifies => ~Denied(c) /\ inflight[c] = <<>>

FriendInv == /\ SteamTyped /\ CallsTyped
             /\ \A c \in Callers : InFlight(c) /\ InEffect(c) /\ RefusedBySteam(c)

\* What a step of c leaves as it was of another caller d.
Apart(c, d) == /\ pc'[d] = pc[d] /\ next'[d] = next[d] /\ inflight'[d] = inflight[d]
               /\ steamReply'[d] = steamReply[d] /\ outcome'[d] = outcome[d]
               /\ (d \in taken' <=> d \in taken) /\ (Denied(d)' <=> Denied(d))

\* Such a caller stays in step and its requests stay covered or not.
LEMMA ApartKeeps ==
    ASSUME NEW c \in Callers, NEW d \in Callers, Apart(c, d), call' = call
    PROVE  /\ InFlight(d) => InFlight(d)'
           /\ RefusedBySteam(d) => RefusedBySteam(d)'
           /\ Covered(d)' = Covered(d) /\ RequestsFor(d)' = RequestsFor(d)
<1>1. RequestsFor(d)' = RequestsFor(d) /\ Request(d)' = Request(d)
      /\ Total(d)' = Total(d)
    BY DEF RequestsFor, Request, Total, Apart
<1>2. Accepted(d)' <=> Accepted(d)
    BY <1>1 DEF Accepted, Apart
<1>3. Covered(d)' = Covered(d)
    BY <1>1, <1>2 DEF Covered, Apart
<1>4. InFlight(d) => InFlight(d)'
    BY Zenon, <1>1 DEF InFlight, Apart
<1>5. RefusedBySteam(d) => RefusedBySteam(d)'
    BY Zenon, <1>2 DEF RefusedBySteam, Apart
<1> QED
    BY <1>1, <1>3, <1>4, <1>5

\* Where a step of c that changes nothing at Steam leaves the invariant to be shown for c.
LEMMA OneCaller ==
    ASSUME FriendInv, NEW c \in Callers, UNCHANGED <<steam, call, taken, disturbed>>,
           CallsTyped', \A d \in Callers \ {c} : Apart(c, d),
           InFlight(c)', RefusedBySteam(c)', Covered(c)' \subseteq Covered(c)
    PROVE  FriendInv'
<1>1. SteamTyped'
    BY DEF FriendInv, SteamTyped, steam
<1>2. \A w : Effect(w)' <=> Effect(w)
    BY DEF Effect, steam
<1>3. ASSUME NEW d \in Callers, d # c
      PROVE  InFlight(d)' /\ InEffect(d)' /\ RefusedBySteam(d)'
    <2>1. Apart(c, d) /\ InFlight(d) /\ InEffect(d) /\ RefusedBySteam(d)
        BY <1>3 DEF FriendInv
    <2>2. /\ InFlight(d)' /\ RefusedBySteam(d)' /\ Covered(d)' = Covered(d)
          /\ RequestsFor(d)' = RequestsFor(d)
        BY <2>1, ApartKeeps
    <2>3. InEffect(d)'
        BY <1>2, <2>1, <2>2 DEF InEffect
    <2> QED
        BY <2>2, <2>3
<1>4. InEffect(c)'
    <2>1. InEffect(c) /\ RequestsFor(c)' = RequestsFor(c)
        BY DEF FriendInv, RequestsFor
    <2> QED
        BY <1>2, <2>1 DEF InEffect
<1> QED
    BY <1>1, <1>3, <1>4 DEF FriendInv

\* Where a call stands, in numbers.
LEMMA CallNumbers ==
    ASSUME FriendInv, NEW c \in Callers
    PROVE  /\ call[c] \in Calls /\ Total(c) \in Nat /\ next[c] \in Nat \ {0}
           /\ RequestsFor(c) = Requests(call[c])
           /\ Total(c) = Len(Requests(call[c]))
           /\ next[c] <= Total(c) => WireTyped(Request(c))
<1>1. call[c] \in Calls /\ next[c] \in Nat \ {0}
    BY DEF FriendInv, CallsTyped
<1>2. Total(c) = Len(Requests(call[c])) /\ Total(c) \in Nat
    BY <1>1, RequestCount DEF Total
<1>3. ASSUME next[c] <= Total(c) PROVE WireTyped(Request(c))
    <2>1. next[c] \in 1..Len(Requests(call[c]))
        BY <1>1, <1>2, <1>3
    <2> QED
        BY <1>1, <2>1, RequestsTyped DEF Request, RequestsFor
<1> QED
    BY <1>1, <1>2, <1>3 DEF RequestsFor

\* A call that gives up, or has nothing to do, covers no request that it did not before.
LEMMA EndKeeps ==
    ASSUME FriendInv, NEW c \in Callers,
           NothingToDo(c) \/ GiveUp(c) \/ Lost(c)
    PROVE  FriendInv'
<1>1. /\ UNCHANGED <<steam, call, next, steamReply, taken, refused, nameless, disturbed>>
      /\ CallsTyped /\ InFlight(c) /\ RefusedBySteam(c)
    BY DEF NothingToDo, GiveUp, Lost, FriendInv
<1>2. /\ Total(c)' = Total(c) /\ Request(c)' = Request(c)
      /\ Total(c) \in Nat /\ next[c] \in Nat \ {0}
    BY <1>1, CallNumbers DEF Total, Request, RequestsFor
<1>3. CASE NothingToDo(c)
    <2>1. /\ pc[c] = "ask" /\ Total(c) = 0 /\ inflight' = inflight
          /\ pc' = [pc EXCEPT ![c] = "done"] /\ outcome' = [outcome EXCEPT ![c] = "Ok"]
        BY <1>3 DEF NothingToDo, Finish
    <2>2. CallsTyped' /\ \A d \in Callers \ {c} : Apart(c, d)
        BY Zenon, <1>1, <2>1 DEF CallsTyped, Apart, Denied
    <2>3. pc'[c] = "done" /\ outcome'[c] = "Ok" /\ inflight'[c] = <<>>
        BY <1>1, <2>1 DEF CallsTyped, InFlight
    <2>4. InFlight(c)' /\ RefusedBySteam(c)'
        BY <1>1, <1>2, <2>1, <2>3 DEF InFlight, RefusedBySteam, Denied
    <2>5. Covered(c)' \subseteq Covered(c)
        BY <1>2, <2>1 DEF Covered
    <2> QED
        BY <1>1, <2>2, <2>4, <2>5, OneCaller
<1>4. CASE GiveUp(c)
    <2>1. PICK e \in {"WebSocket", "Timeout", "Codec"} :
             pc' = [pc EXCEPT ![c] = "done"] /\ outcome' = [outcome EXCEPT ![c] = e]
        BY <1>4 DEF GiveUp, Finish
    <2>2. pc[c] \in {"ask", "sent"} /\ inflight' = inflight
        BY <1>4 DEF GiveUp
    <2>3. CallsTyped' /\ \A d \in Callers \ {c} : Apart(c, d)
        BY <1>1, <2>1, <2>2 DEF CallsTyped, Apart, Denied
    <2>4. pc'[c] = "done" /\ outcome'[c] \notin {"Ok", "Remote"}
        BY <1>1, <2>1 DEF CallsTyped
    <2>5. InFlight(c)' /\ RefusedBySteam(c)'
        BY <1>1, <1>2, <2>2, <2>4 DEF InFlight, RefusedBySteam
    <2>6. Covered(c)' \subseteq Covered(c)
        BY <1>1, <1>2, <2>4 DEF Covered, Accepted
    <2> QED
        BY <1>1, <2>3, <2>5, <2>6, OneCaller
<1>5. CASE Lost(c)
    <2>1. inflight' = [inflight EXCEPT ![c] = <<>>] /\ UNCHANGED <<pc, outcome>> /\ pc[c] = "done"
        BY <1>5 DEF Lost, None
    <2>2. CallsTyped' /\ \A d \in Callers \ {c} : Apart(c, d)
        BY <1>1, <2>1 DEF CallsTyped, Apart, Denied
    <2>3. InFlight(c)' /\ RefusedBySteam(c)'
        <3>1. inflight'[c] = <<>>
            BY <1>1, <2>1 DEF CallsTyped
        <3> QED
            BY <1>1, <1>2, <2>1, <3>1 DEF InFlight, RefusedBySteam, Denied
    <2>4. Covered(c)' \subseteq Covered(c)
        BY Zenon, <1>1, <1>2, <2>1 DEF Covered, Accepted
    <2> QED
        BY <1>1, <2>2, <2>3, <2>4, OneCaller
<1> QED
    BY <1>3, <1>4, <1>5

\* A request that is written is not done yet; a notification counts once Steam takes it.
LEMMA WriteKeeps ==
    ASSUME FriendInv, NEW c \in Callers, Write(c)
    PROVE  FriendInv'
<1>1. /\ UNCHANGED <<steam, call, next, steamReply, taken, refused, nameless, disturbed>>
      /\ CallsTyped /\ InFlight(c) /\ RefusedBySteam(c)
      /\ pc[c] = "ask" /\ next[c] <= Total(c)
      /\ inflight' = [inflight EXCEPT ![c] = <<Request(c)>>]
    BY Zenon DEF Write, FriendInv, Request, RequestsFor
<1>2. /\ Total(c)' = Total(c) /\ Request(c)' = Request(c)
      /\ Total(c) \in Nat /\ next[c] \in Nat \ {0} /\ call[c] \in Calls
      /\ Total(c) = Len(Requests(call[c]))
    BY <1>1, CallNumbers DEF Total, Request, RequestsFor
<1>3. CASE IsNotify(Request(c)) /\ Finish(c, "Ok")
    <2>1. pc' = [pc EXCEPT ![c] = "done"] /\ outcome' = [outcome EXCEPT ![c] = "Ok"]
        BY <1>3 DEF Finish
    <2>2. next[c] \in 1..Len(Requests(call[c]))
        BY <1>1, <1>2
    <2>3. call[c].fn \in Notifies /\ call[c].fn \notin Listed
        BY <1>2, <1>3, <2>2, NotifyRequests DEF Request, RequestsFor
    <2>4. Total(c) = 1 /\ next[c] = 1
        <3>1. Len(Requests(call[c])) = 1
            BY <1>2, <2>3, SingleRequest, Zenon
        <3> QED
            BY <1>2, <2>2, <3>1
    <2>5. c \notin taken
        BY <1>1, <2>4 DEF InFlight
    <2>6. CallsTyped' /\ \A d \in Callers \ {c} : Apart(c, d)
        BY <1>1, <2>1 DEF CallsTyped, Apart, Denied
    <2>7. pc'[c] = "done" /\ outcome'[c] = "Ok" /\ inflight'[c] = <<Request(c)>>
        BY <1>1, <2>1 DEF CallsTyped
    <2>8. InFlight(c)' /\ RefusedBySteam(c)'
        BY <1>1, <1>2, <2>3, <2>4, <2>7 DEF InFlight, RefusedBySteam
    <2>9. Covered(c)' \subseteq Covered(c)
        BY Zenon, <1>1, <1>2, <2>3, <2>5, <2>7 DEF Covered, Accepted
    <2> QED
        BY <1>1, <2>6, <2>8, <2>9, OneCaller
<1>4. CASE pc' = [pc EXCEPT ![c] = "sent"] /\ UNCHANGED outcome
    <2>1. CallsTyped' /\ \A d \in Callers \ {c} : Apart(c, d)
        BY Zenon, <1>1, <1>4 DEF CallsTyped, Apart, Denied
    <2>2. pc'[c] = "sent" /\ inflight'[c] = <<Request(c)>> /\ inflight'[c] # <<>>
        BY <1>1, <1>4 DEF CallsTyped
    <2>3. InFlight(c)' /\ RefusedBySteam(c)'
        <3>1. ~Denied(c)' /\ outcome'[c] = "none"
            BY <1>1, <1>4 DEF InFlight, RefusedBySteam, Denied
        <3>2. RefusedBySteam(c)'
            BY <2>2, <3>1 DEF RefusedBySteam
        <3>3. InFlight(c)'
            BY Zenon, <1>1, <1>2, <2>2, <3>1 DEF InFlight
        <3> QED
            BY <3>2, <3>3
    <2>4. Covered(c)' \subseteq Covered(c)
        BY Zenon, <1>1, <1>2, <1>4, <2>2 DEF Covered, Accepted
    <2> QED
        BY <1>1, <2>1, <2>3, <2>4, OneCaller
<1> QED
    BY <1>3, <1>4 DEF Write, Request, RequestsFor

\* A reply that is accepted covers its request, one that is not ends the call with a refusal
\* of Steam's.
LEMMA ReceiveKeeps ==
    ASSUME FriendInv, NEW c \in Callers, Receive(c)
    PROVE  FriendInv'
<1>1. /\ UNCHANGED <<steam, call, inflight, taken, refused, nameless, disturbed>>
      /\ steamReply' = [steamReply EXCEPT ![c] = <<>>]
      /\ CallsTyped /\ InFlight(c) /\ RefusedBySteam(c) /\ InEffect(c)
      /\ pc[c] = "replied" /\ outcome[c] = "none" /\ next[c] <= Total(c)
    BY Zenon DEF Receive, FriendInv, InFlight, None
<1>2. /\ Total(c)' = Total(c)
      /\ Total(c) \in Nat /\ next[c] \in Nat \ {0}
    BY Zenon, <1>1, CallNumbers DEF Total
<1>3. CASE ~Accepted(c) /\ Finish(c, "Remote") /\ UNCHANGED next
    <2>1. pc' = [pc EXCEPT ![c] = "done"] /\ outcome' = [outcome EXCEPT ![c] = "Remote"]
        BY <1>3 DEF Finish
    <2>2. CallsTyped' /\ \A d \in Callers \ {c} : Apart(c, d)
        BY <1>1, <1>3, <2>1 DEF CallsTyped, Apart, Denied
    <2>3. pc'[c] = "done" /\ outcome'[c] = "Remote" /\ inflight'[c] = <<>>
        BY Zenon, <1>1, <2>1 DEF CallsTyped, InFlight
    <2>4. InFlight(c)' /\ RefusedBySteam(c)'
        BY <1>1, <1>3, <2>3 DEF InFlight, RefusedBySteam, Denied
    <2>5. Covered(c)' \subseteq Covered(c)
        BY Zenon, <1>2, <1>3, <2>3 DEF Covered, Accepted
    <2> QED
        BY <1>1, <2>2, <2>4, <2>5, OneCaller
<1>4. CASE Accepted(c) /\ next[c] = Total(c) /\ Finish(c, "Ok") /\ UNCHANGED next
    <2>1. pc' = [pc EXCEPT ![c] = "done"] /\ outcome' = [outcome EXCEPT ![c] = "Ok"]
        BY <1>4 DEF Finish
    <2>2. CallsTyped' /\ \A d \in Callers \ {c} : Apart(c, d)
        BY <1>1, <1>4, <2>1 DEF CallsTyped, Apart, Denied
    <2>3. pc'[c] = "done" /\ outcome'[c] = "Ok" /\ inflight'[c] = <<>>
        BY Zenon, <1>1, <2>1 DEF CallsTyped, InFlight
    <2>4. InFlight(c)' /\ RefusedBySteam(c)'
        BY <1>1, <1>2, <1>4, <2>3 DEF InFlight, RefusedBySteam, Denied
    <2>5. Covered(c)' \subseteq Covered(c)
        BY ZenonT(30), <1>2, <1>4, <2>3 DEF Covered
    <2> QED
        BY <1>1, <2>2, <2>4, <2>5, OneCaller
<1>5. CASE /\ Accepted(c) /\ next[c] # Total(c)
           /\ pc' = [pc EXCEPT ![c] = "ask"] /\ next' = [next EXCEPT ![c] = @ + 1]
           /\ UNCHANGED outcome
    <2>1. CallsTyped' /\ \A d \in Callers \ {c} : Apart(c, d)
        BY <1>1, <1>5 DEF CallsTyped, Apart, Denied
    <2>2. pc'[c] = "ask" /\ outcome'[c] = "none" /\ inflight'[c] = <<>> /\ next'[c] = next[c] + 1
        BY Zenon, <1>1, <1>5 DEF CallsTyped, InFlight
    <2>3. InFlight(c)' /\ RefusedBySteam(c)'
        <3>1. next'[c] > 1
            BY SMTT(30), <1>2, <2>2
        <3> QED
            BY <1>1, <1>5, <2>2, <3>1 DEF InFlight, RefusedBySteam, Denied
    <2>4. Covered(c)' \subseteq Covered(c)
        BY <1>2, <1>5, <2>2 DEF Covered, Accepted
    <2> QED
        BY <1>1, <2>1, <2>3, <2>4, OneCaller
<1> QED
    BY Zenon, <1>1, <1>3, <1>4, <1>5 DEF Receive, Accepted, Request, RequestsFor

\* A refusal is remembered as one, and covers nothing.
LEMMA RefuseKeeps ==
    ASSUME FriendInv, NEW c \in Callers, SteamRefuses(c)
    PROVE  FriendInv'
<1>1. /\ UNCHANGED <<steam, call, next, outcome, taken, nameless, disturbed>>
      /\ inflight[c] # <<>> /\ inflight' = [inflight EXCEPT ![c] = <<>>]
      /\ refused' = refused \union {c}
      /\ CallsTyped /\ InFlight(c) /\ RefusedBySteam(c)
    BY DEF SteamRefuses, FriendInv, None
<1>2. /\ Total(c)' = Total(c) /\ Request(c)' = Request(c)
      /\ Total(c) \in Nat /\ next[c] \in Nat \ {0}
    BY Zenon, <1>1, CallNumbers DEF Total, Request, RequestsFor
<1>3. PICK r : Answer(c, r) /\ ~Accepts(Request(c), r)
    BY RefusedIsNotAccepted DEF SteamRefuses
<1>4. /\ \/ pc' = pc /\ steamReply' = steamReply
         \/ pc' = [pc EXCEPT ![c] = "replied"] /\ steamReply' = [steamReply EXCEPT ![c] = <<r>>]
      /\ pc[c] = "sent" => pc'[c] = "replied" /\ steamReply'[c][1] = r
      /\ pc[c] # "sent" => pc'[c] = pc[c] /\ steamReply'[c] = steamReply[c]
    BY <1>1, <1>3 DEF Answer, CallsTyped
<1>5. CallsTyped' /\ \A d \in Callers \ {c} : Apart(c, d)
    BY SMTT(30), <1>1, <1>4 DEF CallsTyped, Apart, Denied
<1>6. pc[c] \in {"sent", "done"} /\ next[c] <= Total(c) /\ inflight'[c] = <<>>
    BY Zenon, <1>1 DEF InFlight, CallsTyped
<1>7. ~Accepted(c)'
    BY Zenon, <1>2, <1>3, <1>4, <1>6 DEF Accepted
<1>8. InFlight(c)' /\ RefusedBySteam(c)'
    BY <1>1, <1>2, <1>4, <1>6, <1>7 DEF InFlight, RefusedBySteam, Denied
<1>9. Covered(c)' \subseteq Covered(c)
    BY Zenon, <1>1, <1>2, <1>7 DEF Covered
<1> QED
    BY <1>1, <1>5, <1>8, <1>9, OneCaller

\* A request applied is in effect and undoes no earlier one of its call; whoever else had
\* something done is disturbed.
LEMMA ApplyKeeps ==
    ASSUME FriendInv, NEW c \in Callers, SteamApplies(c)
    PROVE  FriendInv'
<1>1. /\ UNCHANGED <<call, next, outcome, refused>>
      /\ inflight[c] # <<>> /\ inflight' = [inflight EXCEPT ![c] = <<>>]
      /\ taken' = taken \union {c} /\ disturbed' = disturbed \union (taken \ {c})
      /\ CallsTyped /\ InFlight(c) /\ RefusedBySteam(c) /\ InEffect(c) /\ SteamTyped
    BY DEF SteamApplies, FriendInv, None
<1>2. /\ Total(c)' = Total(c) /\ Request(c)' = Request(c)
      /\ RequestsFor(c)' = RequestsFor(c) /\ RequestsFor(c) = Requests(call[c])
      /\ Total(c) \in Nat /\ next[c] \in Nat \ {0} /\ call[c] \in Calls
      /\ Total(c) = Len(Requests(call[c]))
    BY Zenon, <1>1, CallNumbers DEF Total, Request, RequestsFor
<1>3. /\ pc[c] \in {"sent", "done"} /\ next[c] <= Total(c) /\ inflight'[c] = <<>>
      /\ inflight[c] = <<Request(c)>>
    BY Zenon, <1>1 DEF InFlight, CallsTyped
<1> PICK w, k, n : w = Request(c) /\ k = call[c] /\ n = next[c]
    OBVIOUS
<1>4. WireTyped(w)
    BY Zenon, <1>3, CallNumbers
<1>5. Known(w) /\ Apply(w)
    BY <1>3 DEF SteamApplies
<1>6. PICK r : /\ Answer(c, r)
               /\ \/ Accepts(w, r) /\ nameless' = nameless
                  \/ ~Accepts(w, r) /\ nameless' = nameless \union {c}
    <2> DEFINE code == IF w.emsg = "AddFriend" /\ w.id \in friends
                       THEN DUPLICATE_REQUEST ELSE OK
               named == CASE w.emsg = "CreateGroup" -> {NewId} [] w.emsg = "AddFriend" -> {1}
                          [] OTHER -> {NoId}
               unnamed == CASE w.emsg = "CreateGroup" -> {NoId}
                            [] w.emsg = "AddFriend" -> {NoId, ZeroId} [] OTHER -> {}
    <2>1. PICK h \in {Absent, code}, id \in named \union unnamed :
              /\ Answer(c, [header |-> h, body |-> code, id |-> id])
              /\ nameless' = IF id \in unnamed THEN nameless \union {c} ELSE nameless
        <3>1. inflight[c][1] = w
            BY <1>3
        <3> QED
            BY Zenon, <3>1 DEF SteamApplies
    <2>2. /\ w.emsg = "CreateGroup" => id \in {NewId, NoId}
          /\ w.emsg = "AddFriend" => id \in {1, NoId, ZeroId}
        BY <2>1
    <2>3. id \in unnamed <=> \/ w.emsg = "CreateGroup" /\ id = NoId
                             \/ w.emsg = "AddFriend" /\ id \in {NoId, ZeroId}
        BY <2>1
    <2>4. code = IF w.emsg = "AddFriend" /\ w.id \in friends
                 THEN DUPLICATE_REQUEST ELSE OK
        OBVIOUS
    <2> HIDE DEF code, named, unnamed
    <2>5. Accepts(w, [header |-> h, body |-> code, id |-> id]) <=> id \notin unnamed
        BY <1>1, <1>4, <1>5, <2>2, <2>3, <2>4, AppliedIsAccepted, Zenon
    <2> QED
        BY Zenon, <2>1, <2>5
<1>7. /\ \/ pc' = pc /\ steamReply' = steamReply
         \/ pc' = [pc EXCEPT ![c] = "replied"] /\ steamReply' = [steamReply EXCEPT ![c] = <<r>>]
      /\ pc[c] = "sent" => pc'[c] = "replied" /\ steamReply'[c][1] = r
      /\ pc[c] # "sent" => pc'[c] = pc[c] /\ steamReply'[c] = steamReply[c]
    BY SMTT(30), <1>1, <1>6 DEF Answer, CallsTyped
<1>8. CallsTyped' /\ \A d \in Callers \ {c} : Apart(c, d)
    <2>1. CallsTyped'
        BY <1>1, <1>7 DEF CallsTyped
    <2>2. \A d \in Callers \ {c} : Denied(d)' <=> Denied(d)
        BY <1>1, <1>6 DEF Denied
    <2> QED
        BY <1>1, <1>7, <2>1, <2>2 DEF CallsTyped, Apart
<1>9. SteamTyped'
    BY Zenon, <1>1, <1>4, <1>5, ApplyTyped
<1>10. InFlight(c)' /\ RefusedBySteam(c)'
    <2>1. InFlight(c)'
        BY Zenon, <1>1, <1>2, <1>3, <1>7 DEF InFlight
    <2>2. pc'[c] = "replied" => pc[c] = "sent" /\ (Accepted(c)' <=> Accepts(w, r))
        BY Zenon, <1>2, <1>3, <1>6, <1>7 DEF Accepted
    <2>3. Accepts(w, r) => (Denied(c)' <=> Denied(c))
        BY <1>1, <1>6 DEF Denied
    <2>4. ~Accepts(w, r) => Denied(c)'
        BY <1>6 DEF Denied
    <2>5. /\ pc[c] = "sent" => ~Denied(c)
          /\ pc[c] = "done" => /\ outcome[c] = "Remote" => Denied(c)
                               /\ outcome[c] = "Ok" => call[c].fn \in Notifies
          /\ pc[c] = "sent" => outcome[c] \notin {"Ok", "Remote"}
        BY <1>1 DEF RefusedBySteam, InFlight
    <2>6. Denied(c) => Denied(c)'
        BY <2>3, <2>4
    <2> QED
        BY <1>1, <1>3, <1>7, <2>1, <2>2, <2>3, <2>4, <2>5, <2>6 DEF RefusedBySteam
<1>11. InEffect(c)'
    <2>1. c \in taken'
        BY <1>1
    <2>2. ASSUME c \notin disturbed', NEW i \in Covered(c)'
          PROVE  Effect(RequestsFor(c)[i])'
        <3>1. i \in 1..Total(c) /\ (i < next[c] \/ i = next[c])
            BY Zenon, <1>1, <1>2, <2>2 DEF Covered
        <3>2. CASE i = next[c]
            <4>1. RequestsFor(c)[i] = w
                BY Zenon, <3>2 DEF Request
            <4>2. Effect(w)'
                BY Zenon, <1>1, <1>4, <1>5, AppliedEffect
            <4> QED
                BY Zenon, <1>2, <4>1, <4>2
        <3>3. CASE i < next[c]
            <4>1. i \in Covered(c) /\ c \notin disturbed
                BY Zenon, <1>1, <2>2, <3>1, <3>3 DEF Covered
            <4>2. Effect(Requests(k)[i])
                BY Zenon, <1>1, <1>2, <4>1 DEF InEffect
            <4>3. /\ k \in Calls /\ n \in 1..Len(Requests(k)) /\ i \in 1..(n - 1)
                  /\ w = Requests(k)[n]
                BY <1>2, <1>3, <3>1, <3>3 DEF Request
            <4>4. Effect(Requests(k)[i])'
                BY Zenon, <1>1, <1>5, <4>2, <4>3, OwnEffectsStay
            <4>5. RequestsFor(c)'[i] = Requests(k)[i]
                BY Zenon, <1>2
            <4> QED
                BY Zenon, <4>4, <4>5
        <3> QED
            BY Zenon, <3>1, <3>2, <3>3
    <2> QED
        BY <2>1, <2>2 DEF InEffect
<1>12. ASSUME NEW d \in Callers, d # c
       PROVE  InFlight(d)' /\ InEffect(d)' /\ RefusedBySteam(d)'
    <2>1. Apart(c, d) /\ InFlight(d) /\ InEffect(d) /\ RefusedBySteam(d)
        BY <1>8, <1>12 DEF FriendInv
    <2>2. InFlight(d)' /\ RefusedBySteam(d)' /\ Covered(d)' = Covered(d)
        BY Zenon, <1>1, <2>1, ApartKeeps
    <2>3. Covered(d) # {} => d \in taken' /\ d \in disturbed'
        BY Zenon, <1>1, <1>12, <2>1 DEF InEffect
    <2>4. InEffect(d)'
        BY Zenon, <2>2, <2>3 DEF InEffect
    <2> QED
        BY Zenon, <2>2, <2>4
<1> QED
    BY <1>8, <1>9, <1>10, <1>11, <1>12 DEF FriendInv

\* Every caller starts with nothing done.
LEMMA FriendInvInitially == FriendsInit => FriendInv
<1> SUFFICES ASSUME FriendsInit PROVE FriendInv
    OBVIOUS
<1>1. SteamTyped
    <2>1. nick \in [Accounts -> Texts]
        BY Zenon DEF FriendsInit, Texts
    <2>2. CASE groups = <<>>
        BY <2>1, <2>2 DEF SteamTyped
    <2>3. CASE groups = [g \in {1} |-> [name |-> "old", members |-> {}]]
        BY <2>1, <2>3, CallsAssumption, Zenon DEF SteamTyped, Texts
    <2> QED
        BY Zenon, <2>2, <2>3 DEF FriendsInit
<1>2. CallsTyped
    BY DEF FriendsInit, CallsTyped
<1>3. ASSUME NEW c \in Callers PROVE InFlight(c) /\ InEffect(c) /\ RefusedBySteam(c)
    <2>1. /\ pc[c] = "ask" /\ next[c] = 1 /\ inflight[c] = <<>> /\ outcome[c] = "none"
          /\ c \notin taken /\ ~Denied(c)
        BY <1>3 DEF FriendsInit, None, Denied
    <2>2. Covered(c) = {}
        BY <2>1 DEF Covered, Accepted
    <2> QED
        BY Zenon, <2>1, <2>2 DEF InFlight, InEffect, RefusedBySteam
<1> QED
    BY <1>1, <1>2, <1>3 DEF FriendInv

\* The invariant is inductive.
LEMMA FriendInvStep == FriendInv /\ [FriendsNext]_friendVars => FriendInv'
<1> SUFFICES ASSUME FriendInv, [FriendsNext]_friendVars PROVE FriendInv'
    OBVIOUS
<1>1. CASE UNCHANGED friendVars
    <2>1. UNCHANGED <<steam, call, pc, next, inflight, steamReply, outcome, taken, refused,
                      nameless, disturbed>>
        BY <1>1 DEF friendVars
    <2>2. SteamTyped' /\ CallsTyped'
        BY Zenon, <2>1 DEF FriendInv, SteamTyped, CallsTyped, steam
    <2>3. \A w : Effect(w)' <=> Effect(w)
        BY <2>1 DEF Effect, steam
    <2>4. ASSUME NEW d \in Callers
          PROVE  InFlight(d)' /\ InEffect(d)' /\ RefusedBySteam(d)'
        <3>1. Apart(d, d) /\ InFlight(d) /\ InEffect(d) /\ RefusedBySteam(d)
            BY Zenon, <2>1 DEF FriendInv, Apart, Denied
        <3>2. /\ InFlight(d)' /\ RefusedBySteam(d)' /\ Covered(d)' = Covered(d)
              /\ RequestsFor(d)' = RequestsFor(d)
            BY Zenon, <2>1, <3>1, ApartKeeps
        <3>3. InEffect(d)'
            BY <2>1, <2>3, <3>1, <3>2 DEF InEffect
        <3> QED
            BY <3>2, <3>3
    <2> QED
        BY <2>2, <2>4 DEF FriendInv
<1>2. ASSUME NEW c \in Callers,
             \/ NothingToDo(c) \/ Write(c) \/ GiveUp(c)
             \/ Receive(c) \/ SteamApplies(c) \/ SteamRefuses(c)
             \/ Lost(c)
      PROVE  FriendInv'
    BY <1>2, EndKeeps, WriteKeeps, ReceiveKeeps, ApplyKeeps, RefuseKeeps
<1> QED
    BY Zenon, <1>1, <1>2 DEF FriendsNext, Finished

\* An outcome says what happened at Steam, however the calls of an account overlap and
\* whatever is lost or late: Ok means that everything the function is for is in effect unless
\* another call has changed it since, and a call that Steam answers ends in Remote exactly when
\* Steam refused one of its requests or answered one without the id it should name.
THEOREM OutcomesTrue == FriendsSpec => []OutcomeIsTrue
<1>1. FriendInv => OutcomeIsTrue
    <2> SUFFICES ASSUME FriendInv, NEW c \in Callers
                 PROVE  /\ /\ outcome[c] = "Ok" /\ c \notin disturbed
                           /\ call[c].fn \in Notifies => c \in taken
                           => Goal(call[c])
                        /\ outcome[c] = "Ok" /\ call[c].fn \notin Notifies =>
                              c \notin refused \union nameless
                        /\ outcome[c] = "Remote" => c \in refused \union nameless
        BY Zenon DEF OutcomeIsTrue
    <2>1. InFlight(c) /\ InEffect(c) /\ RefusedBySteam(c)
        BY DEF FriendInv
    <2>2. ASSUME outcome[c] = "Ok", c \notin disturbed,
                 call[c].fn \in Notifies => c \in taken
          PROVE  Goal(call[c])
        <3>1. next[c] >= Total(c)
            BY Zenon, <2>1, <2>2 DEF InFlight
        <3>2. Covered(c) = 1..Total(c)
            BY <2>2, <3>1, CallNumbers DEF Covered
        <3>3. \A i \in 1..Len(Requests(call[c])) : Effect(Requests(call[c])[i])
            BY Zenon, <2>1, <2>2, <3>2, CallNumbers DEF InEffect
        <3> QED
            BY Zenon, <3>3, CallNumbers, EffectsMeetGoal
    <2> QED
        BY Zenon, <2>1, <2>2 DEF RefusedBySteam, Denied
<1> QED
    BY <1>1, FriendInvInitially, FriendInvStep, PTL DEF FriendsSpec
=============================================================================
