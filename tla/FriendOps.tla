------------------------------ MODULE FriendOps ------------------------------
(***************************************************************************)
(* The friend operations (friends.rs) against an account's state at Steam. *)
(* A call is a sequence of wire requests: most make one, the group         *)
(* membership calls one per friend.  A request may be lost on its way, be  *)
(* refused, or be applied after its caller has given up; a notification is *)
(* done when it is written.                                                *)
(***************************************************************************)
EXTENDS Integers, Sequences, FiniteSets, EResult

CONSTANTS Callers,   \* concurrent calls
          Accounts,  \* other people's SteamIDs
          GroupIds,  \* group ids; 0 is one like any other
          Calls      \* the calls they may make

FriendFunctions == {"add_friend", "remove_friend", "set_nickname", "clear_nickname", "hide_friend",
              "unhide_friend", "send_message", "send_typing", "create_friends_group",
              "delete_friends_group", "rename_friends_group", "add_friends_to_group",
              "remove_friends_from_group"}

ASSUME CallsAssumption ==
    /\ GroupIds \subseteq Nat /\ 1 \in GroupIds
    /\ \A c \in Calls : c.fn \in FriendFunctions /\ c.id \in Accounts /\ c.ids \in Seq(Accounts)

VARIABLES friends, nick, hidden, groups, chat,   \* the account, at Steam
          call, pc, next,   \* per caller: its call, step, request number
          inflight,         \* per caller: its request on the way to Steam, or None
          steamReply, outcome,
          taken, refused, nameless, disturbed   \* history
steam == <<friends, nick, hidden, groups, chat>>
friendVars == <<steam, call, pc, next, inflight, steamReply, outcome, taken, refused, nameless, disturbed>>

None == <<>>
NoId == -1   \* a reply without an id
ZeroId == 0   \* no SteamID, but a group id like any other

-----------------------------------------------------------------------------
\* What each function puts on the wire.
Wire == [emsg |-> "", id |-> "", ids |-> {}, group |-> 0, text |-> "", flag |-> FALSE]
add_friend(c) == [Wire EXCEPT !.emsg = "AddFriend", !.id = c.id]
remove_friend(c) == [Wire EXCEPT !.emsg = "RemoveFriend", !.id = c.id]
set_nickname(c) == [Wire EXCEPT !.emsg = "SetPlayerNickname", !.id = c.id, !.text = c.text]
clear_nickname(c) == [Wire EXCEPT !.emsg = "SetPlayerNickname", !.id = c.id, !.text = ""]
hide_friend(c) == [Wire EXCEPT !.emsg = "HideFriend", !.id = c.id, !.flag = TRUE]
unhide_friend(c) == [Wire EXCEPT !.emsg = "HideFriend", !.id = c.id, !.flag = FALSE]
\* ChatEntryType: 1 is a text, 2 a typing notice.
send_message(c) == [Wire EXCEPT !.emsg = "FriendMsg", !.id = c.id, !.group = 1, !.text = c.text]
send_typing(c) == [Wire EXCEPT !.emsg = "FriendMsg", !.id = c.id, !.group = 2]
create_friends_group(c) == [Wire EXCEPT !.emsg = "CreateGroup", !.text = c.text,
                                        !.ids = {c.ids[k] : k \in DOMAIN c.ids}]
delete_friends_group(c) == [Wire EXCEPT !.emsg = "DeleteGroup", !.group = c.group]
rename_friends_group(c) == [Wire EXCEPT !.emsg = "ManageGroup", !.group = c.group,
                                        !.text = c.text]
add_friends_to_group(c) ==
    [k \in DOMAIN c.ids |-> [Wire EXCEPT !.emsg = "AddToGroup", !.group = c.group,
                                         !.id = c.ids[k]]]
remove_friends_from_group(c) ==
    [k \in DOMAIN c.ids |-> [Wire EXCEPT !.emsg = "RemoveFromGroup", !.group = c.group,
                                         !.id = c.ids[k]]]

Requests(c) == CASE c.fn = "add_friend" -> <<add_friend(c)>>
                 [] c.fn = "remove_friend" -> <<remove_friend(c)>>
                 [] c.fn = "set_nickname" -> <<set_nickname(c)>>
                 [] c.fn = "clear_nickname" -> <<clear_nickname(c)>>
                 [] c.fn = "hide_friend" -> <<hide_friend(c)>>
                 [] c.fn = "unhide_friend" -> <<unhide_friend(c)>>
                 [] c.fn = "send_message" -> <<send_message(c)>>
                 [] c.fn = "send_typing" -> <<send_typing(c)>>
                 [] c.fn = "create_friends_group" -> <<create_friends_group(c)>>
                 [] c.fn = "delete_friends_group" -> <<delete_friends_group(c)>>
                 [] c.fn = "rename_friends_group" -> <<rename_friends_group(c)>>
                 [] c.fn = "add_friends_to_group" -> add_friends_to_group(c)
                 [] OTHER -> remove_friends_from_group(c)

\* Steam does not answer these.
IsNotify(w) == w.emsg \in {"RemoveFriend", "HideFriend", "FriendMsg"}

FriendsInit ==
    /\ friends \in SUBSET Accounts
    /\ nick = [a \in Accounts |-> "old"] /\ hidden = {} /\ chat = {}
    /\ groups \in {<<>>, [g \in {1} |-> [name |-> "old", members |-> {}]]}
    /\ call \in [Callers -> Calls]
    /\ pc = [c \in Callers |-> "ask"] /\ next = [c \in Callers |-> 1]
    /\ inflight = [c \in Callers |-> None]
    /\ steamReply = [c \in Callers |-> None]
    /\ outcome = [c \in Callers |-> "none"]
    /\ taken = {} /\ refused = {} /\ nameless = {} /\ disturbed = {}

Finish(c, o) == pc' = [pc EXCEPT ![c] = "done"] /\ outcome' = [outcome EXCEPT ![c] = o]
Total(c) == Len(Requests(call[c]))

-----------------------------------------------------------------------------
\* An empty list of members makes no request at all.
NothingToDo(c) ==
    /\ pc[c] = "ask" /\ Total(c) = 0
    /\ Finish(c, "Ok")
    /\ UNCHANGED <<steam, call, next, inflight, steamReply, taken, refused, nameless, disturbed>>

\* session.request or session.notify: the driver writes the frame.
Write(c) ==
    /\ pc[c] = "ask" /\ next[c] <= Total(c) /\ inflight[c] = None
    /\ LET w == Requests(call[c])[next[c]] IN
        /\ inflight' = [inflight EXCEPT ![c] = <<w>>]
        /\ IF IsNotify(w) THEN Finish(c, "Ok")
           ELSE pc' = [pc EXCEPT ![c] = "sent"] /\ UNCHANGED outcome
    /\ UNCHANGED <<steam, call, next, steamReply, taken, refused, nameless, disturbed>>

\* The session is down, or goes down, or Steam does not answer in time; the
\* request may still be on its way.
GiveUp(c) ==
    /\ \/ pc[c] = "ask" /\ next[c] <= Total(c) /\ Finish(c, "WebSocket")
       \/ pc[c] = "sent" /\ \E e \in {"WebSocket", "Timeout", "Codec"} : Finish(c, e)
    /\ UNCHANGED <<steam, call, next, inflight, steamReply, taken, refused, nameless, disturbed>>

\* add(): the body's EResult decides, whether or not the reply names somebody.
add(r) == OrFail(r.body) \in {OK, DUPLICATE_REQUEST} /\ r.id \notin {NoId, ZeroId}

\* fault: a reply without a result is taken for success
ResultOptional(r) == r.header \in {Absent, OK} /\ r.body \in {Absent, OK}
\* check_reply_eresult on the header, then the body's own eresult
CheckedOk(r) == r.header \in {Absent, OK} /\ OrFail(r.body) = OK

Accepts(w, r) == CASE w.emsg = "AddFriend" -> add(r)
                   [] w.emsg = "CreateGroup" -> CheckedOk(r) /\ r.id # NoId
                   [] OTHER -> CheckedOk(r)

\* The reply is judged: the first rejection ends the call, the last success too.
Receive(c) ==
    /\ pc[c] = "replied"
    /\ IF ~Accepts(Requests(call[c])[next[c]], steamReply[c][1])
       THEN Finish(c, "Remote") /\ UNCHANGED next
       ELSE IF next[c] = Total(c) THEN Finish(c, "Ok") /\ UNCHANGED next
       ELSE /\ pc' = [pc EXCEPT ![c] = "ask"] /\ next' = [next EXCEPT ![c] = @ + 1]
            /\ UNCHANGED outcome
    /\ steamReply' = [steamReply EXCEPT ![c] = None]
    /\ UNCHANGED <<steam, call, inflight, taken, refused, nameless, disturbed>>

-----------------------------------------------------------------------------
\* Steam.
Answer(c, r) == IF pc[c] = "sent"
                THEN /\ pc' = [pc EXCEPT ![c] = "replied"]
                     /\ steamReply' = [steamReply EXCEPT ![c] = <<r>>]
                ELSE UNCHANGED <<pc, steamReply>>
NewId == CHOOSE g \in GroupIds : g \notin DOMAIN groups /\ \A h \in GroupIds :
             h < g => h \in DOMAIN groups
Known(w) == CASE w.emsg \in {"DeleteGroup", "ManageGroup", "RemoveFromGroup"} ->
                     w.group \in DOMAIN groups
              [] w.emsg = "AddToGroup" -> w.group \in DOMAIN groups /\ w.id \in friends
              [] w.emsg = "SetPlayerNickname" -> w.id \in Accounts
              [] w.emsg = "CreateGroup" -> DOMAIN groups # GroupIds
              [] OTHER -> TRUE
Without(f, k) == [x \in DOMAIN f \ {k} |-> f[x]]
With(f, k, v) == [x \in DOMAIN f \union {k} |-> IF x = k THEN v ELSE f[x]]

Apply(w) ==
    /\ friends' = CASE w.emsg = "AddFriend" -> friends \union {w.id}
                    [] w.emsg = "RemoveFriend" -> friends \ {w.id}
                    [] OTHER -> friends
    /\ nick' = IF w.emsg = "SetPlayerNickname" THEN [nick EXCEPT ![w.id] = w.text] ELSE nick
    /\ hidden' = CASE w.emsg = "HideFriend" /\ w.flag -> hidden \union {w.id}
                   [] w.emsg = "HideFriend" /\ ~w.flag -> hidden \ {w.id}
                   [] OTHER -> hidden
    /\ chat' = IF w.emsg = "FriendMsg" THEN chat \union {<<w.id, w.group, w.text>>} ELSE chat
    /\ groups' = CASE w.emsg = "CreateGroup" ->
                          With(groups, NewId, [name |-> w.text, members |-> w.ids])
                   [] w.emsg = "DeleteGroup" -> Without(groups, w.group)
                   [] w.emsg = "ManageGroup" -> [groups EXCEPT ![w.group].name = w.text]
                   [] w.emsg = "AddToGroup" ->
                          [groups EXCEPT ![w.group].members = @ \union {w.id}]
                   [] w.emsg = "RemoveFromGroup" ->
                          [groups EXCEPT ![w.group].members = @ \ {w.id}]
                   [] OTHER -> groups

\* A request applied: the header may carry its result or none.  An add of a
\* friend who is one already is answered DuplicateRequest.  The reply to an add
\* or to a new group may lack the id it should name.
SteamApplies(c) ==
    /\ inflight[c] # None
    /\ LET w == inflight[c][1]
           code == IF w.emsg = "AddFriend" /\ w.id \in friends THEN DUPLICATE_REQUEST ELSE OK
           named == CASE w.emsg = "CreateGroup" -> {NewId} [] w.emsg = "AddFriend" -> {1}
                      [] OTHER -> {NoId}
           unnamed == CASE w.emsg = "CreateGroup" -> {NoId} [] w.emsg = "AddFriend" -> {NoId, ZeroId}
                        [] OTHER -> {}
       IN /\ Known(w)
          /\ Apply(w)
          /\ \E h \in {Absent, code}, id \in named \union unnamed :
                /\ Answer(c, [header |-> h, body |-> code, id |-> id])
                /\ nameless' = IF id \in unnamed THEN nameless \union {c} ELSE nameless
    /\ inflight' = [inflight EXCEPT ![c] = None]
    /\ taken' = taken \union {c}
    /\ disturbed' = disturbed \union (taken \ {c})
    /\ UNCHANGED <<call, next, outcome, refused>>
\* A request refused: by the body's result, or by the header with an empty body.
\* The reply may still name the friend.
SteamRefuses(c) ==
    /\ inflight[c] # None
    /\ \E h \in {Absent, FAIL}, b \in {Absent, FAIL}, id \in {NoId, 1} :
          Answer(c, [header |-> h, body |-> b, id |-> id])
    /\ inflight' = [inflight EXCEPT ![c] = None]
    /\ refused' = refused \union {c}
    /\ UNCHANGED <<steam, call, next, outcome, taken, nameless, disturbed>>
\* A request lost with its connection.
Lost(c) == /\ inflight[c] # None /\ pc[c] = "done"
           /\ inflight' = [inflight EXCEPT ![c] = None]
           /\ UNCHANGED <<steam, call, pc, next, steamReply, outcome, taken, refused, nameless, disturbed>>

Finished == (\A c \in Callers : pc[c] = "done" /\ inflight[c] = None) /\ UNCHANGED friendVars
FriendsNext ==
    \/ \E c \in Callers : \/ NothingToDo(c) \/ Write(c) \/ GiveUp(c) \/ Receive(c)
                          \/ SteamApplies(c) \/ SteamRefuses(c) \/ Lost(c)
    \/ Finished
FriendsSpec == FriendsInit /\ [][FriendsNext]_friendVars

-----------------------------------------------------------------------------
\* What each function has brought about when Steam has taken all its requests.
Goal(c) == LET ids == {c.ids[k] : k \in DOMAIN c.ids} IN
    CASE c.fn = "add_friend" -> c.id \in friends
      [] c.fn = "set_nickname" -> nick[c.id] = c.text
      [] c.fn = "clear_nickname" -> nick[c.id] = ""
      [] c.fn = "create_friends_group" ->
             \E g \in DOMAIN groups : groups[g] = [name |-> c.text, members |-> ids]
      [] c.fn = "delete_friends_group" -> c.group \notin DOMAIN groups
      [] c.fn = "rename_friends_group" -> groups[c.group].name = c.text
      [] c.fn = "add_friends_to_group" ->
             ids # {} => c.group \in DOMAIN groups /\ ids \subseteq groups[c.group].members
      [] c.fn = "remove_friends_from_group" ->
             ids # {} => c.group \in DOMAIN groups /\ ids \intersect groups[c.group].members = {}
      [] c.fn = "remove_friend" -> c.id \notin friends
      [] c.fn = "hide_friend" -> c.id \in hidden
      [] c.fn = "unhide_friend" -> c.id \notin hidden
      [] c.fn = "send_message" -> <<c.id, 1, c.text>> \in chat
      [] c.fn = "send_typing" -> <<c.id, 2, "">> \in chat
Notifies == {"remove_friend", "hide_friend", "unhide_friend", "send_message", "send_typing"}

\* An outcome says what happened at Steam.  Ok means done: every member of a group
\* call, every single change, is in effect (a notification, once Steam has taken it),
\* unless another call has changed the account since.  A call that Steam answers ends
\* in Remote, and never in Ok, exactly when Steam refused one of its requests or
\* answered it without the id that the caller is to be given: a duplicate add or
\* group id 0 is no failure, a refusal that names the friend is no success.
OutcomeIsTrue ==
    \A c \in Callers :
        /\ /\ outcome[c] = "Ok" /\ c \notin disturbed
           /\ call[c].fn \in Notifies => c \in taken
           => Goal(call[c])
        /\ outcome[c] = "Ok" /\ call[c].fn \notin Notifies => c \notin refused \union nameless
        /\ outcome[c] = "Remote" => c \in refused \union nameless
=============================================================================
