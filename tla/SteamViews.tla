------------------------------ MODULE SteamViews ------------------------------
(***************************************************************************)
(* What the crate makes of Steam's answers: the friend, nickname and group *)
(* lists (friends.rs), a player's summary and profile, the avatar address  *)
(* and the two lookups over HTTP (persona.rs).  A protobuf field that may  *)
(* be missing is <<>> or <<value>>.  Ids are small and U32 is scaled down. *)
(***************************************************************************)
EXTENDS EResult, Integers, Sequences, SequencesExt

CONSTANTS U32,      \* values of a u32
          Answers   \* what Steam or its web sites may answer, by kind

VARIABLES answer,
          view      \* what the caller gets, if it was read
vars == <<answer, view>>

unwrap_or(o, d) == IF o = <<>> THEN d ELSE o[1]
filter_map(s, F(_)) == FlattenSeq([i \in DOMAIN s |-> F(s[i])])
Err(e) == [ok |-> FALSE, err |-> e]
Ok(v) == [ok |-> TRUE, val |-> v]

-----------------------------------------------------------------------------
\* An enum's value is its name and, for Unknown, the number.
FromRaw(value, names) == IF value \in DOMAIN names THEN [name |-> names[value], raw |-> <<>>]
                         ELSE [name |-> "Unknown", raw |-> <<value>>]
Relationships == [v \in 0..6 |-> <<"None", "Blocked", "RequestRecipient", "Friend",
                                   "RequestInitiator", "Ignored", "IgnoredFriend">>[v + 1]]
PersonaStates == [v \in 0..7 |-> <<"Offline", "Online", "Busy", "Away", "Snooze",
                                   "LookingToTrade", "LookingToPlay", "Invisible">>[v + 1]]

friends_from(list) ==
    filter_map(list, LAMBDA f : IF f.id = <<>> THEN <<>>
                                ELSE <<[steam_id |-> f.id[1],
                                        relationship |-> FromRaw(unwrap_or(f.rel, 0), Relationships)]>>)
nicknames_from(list) ==
    filter_map(list, LAMBDA n : IF n.id = <<>> THEN <<>>
                                ELSE <<[steam_id |-> n.id[1], nickname |-> unwrap_or(n.name, "")]>>)

IsMember(m, group) == m.group = <<group>>
groups_from(list) ==
    filter_map(list.groups, LAMBDA g : IF g.id = <<>> THEN <<>>
        ELSE <<[group_id |-> g.id[1], name |-> unwrap_or(g.name, ""),
                members |-> filter_map(list.memberships,
                                LAMBDA m : IF IsMember(m, g.id[1]) THEN m.id ELSE <<>>)]>>)

-----------------------------------------------------------------------------
CurrentGame(app, game) ==
    IF app = 0 /\ game = 0 THEN <<>>
    ELSE <<[app_id |-> IF app # 0 THEN app ELSE game % U32, game_id |-> game]>>

\* A lower-case hex string is the sequence of its digits; the host and the suffix
\* of an avatar's address are left out.
hash_to_hex(hash) == filter_map(hash, LAMBDA b : <<b \div 16, b % 16>>)
DEFAULT_AVATAR_HASH == <<15, 14, 15, 4>>
NoAvatar(hash) == hash_to_hex(hash) = <<>> \/ \A i \in DOMAIN hash : hash[i] = 0
avatar_url(hash) == IF NoAvatar(hash) THEN DEFAULT_AVATAR_HASH ELSE hash_to_hex(hash)

\* Once the flags and the account match (SnapshotReader), the entry as it is shown.
Summary(f) == [avatar_url |-> avatar_url(unwrap_or(f.hash, <<>>)),
               avatar_hash |-> hash_to_hex(unwrap_or(f.hash, <<>>)),
               state |-> FromRaw(unwrap_or(f.state, 0), PersonaStates),
               current_game |-> CurrentGame(unwrap_or(f.app, 0), unwrap_or(f.game, 0))]

some_if_set(s) == IF s = <<"">> THEN <<>> ELSE s
profile_info_from_response(r) ==
    IF OrFail(r.eresult) # OK THEN Err("Remote")
    ELSE Ok([real_name |-> some_if_set(r.real_name),
             created_at |-> IF r.created = <<0>> THEN <<>> ELSE r.created])

-----------------------------------------------------------------------------
\* An XML document is a sequence of tags, digits, blanks and other text.
extract_steam_id64(xml) ==
    LET from(i) == SubSeq(xml, i, Len(xml))
        start == SelectInSeq(xml, LAMBDA t : t = "<steamID64>")
        rest == from(start + 1)
        end == SelectInSeq(rest, LAMBDA t : t = "</steamID64>")
        text == SubSeq(rest, 1, end - 1)
        used == {i \in DOMAIN text : text[i] # " "}
        trimmed == IF used = {} THEN <<>>
                   ELSE SubSeq(text, CHOOSE i \in used : \A j \in used : i <= j,
                                     CHOOSE i \in used : \A j \in used : i >= j)
    IN IF start = 0 \/ end = 0 \/ trimmed = <<>> \/ \E i \in DOMAIN trimmed : trimmed[i] # "7"
       THEN <<>> ELSE <<trimmed>>

is_success(r) == r.status \in 200..299
\* The request is sent, the status looked at, the body read: each may fail.
HttpBody(r) == IF ~r.sent \/ ~is_success(r) \/ ~r.whole THEN Err("Network") ELSE Ok(r.body)
resolve_vanity_url(r) == IF HttpBody(r).ok THEN Ok(extract_steam_id64(HttpBody(r).val)) ELSE HttpBody(r)
fetch_avatar(r) == HttpBody(r)

-----------------------------------------------------------------------------
Init == answer \in Answers /\ view = <<>>

Reads(kind, v) == /\ answer.kind = kind /\ view = <<>> /\ view' = <<v>> /\ UNCHANGED answer
Lists == \/ Reads("friends", friends_from(answer.of))
         \/ Reads("nicknames", nicknames_from(answer.of))
         \/ Reads("groups", groups_from(answer.of))
Personas == \/ Reads("summary", Summary(answer.of))
            \/ Reads("profile", profile_info_from_response(answer.of))
Lookups == \/ Reads("vanity", resolve_vanity_url(answer.of))
           \/ Reads("avatar", fetch_avatar(answer.of))
Done == view # <<>> /\ UNCHANGED vars
Next == Lists \/ Personas \/ Lookups \/ Done
Spec == Init /\ [][Next]_vars

-----------------------------------------------------------------------------
Seen(kind) == view # <<>> /\ answer.kind = kind
Shown == view[1]
Count(s, Test(_)) == Len(SelectSeq(s, Test))

\* Every list entry that names an account becomes one entry, in order, and every
\* group keeps exactly its members.
ListsAreExact ==
    /\ Seen("friends") \/ Seen("nicknames") =>
           [i \in DOMAIN Shown |-> <<Shown[i].steam_id>>] =
               SelectSeq([i \in DOMAIN answer.of |-> answer.of[i].id], LAMBDA o : o # <<>>)
    /\ Seen("groups") =>
           \A i \in DOMAIN Shown : \A a \in {1, 2} :
               Count(Shown[i].members, LAMBDA x : x = a) =
               Count(answer.of.memberships, LAMBDA m : m.id = <<a>> /\ m.group = <<Shown[i].group_id>>)

\* The game is named by either id; a wide id leaves an app id of 32 bits.
GameIsShown ==
    Seen("summary") =>
        LET app == unwrap_or(answer.of.app, 0)
            game == unwrap_or(answer.of.game, 0)
            shown == Shown.current_game
        IN /\ shown = <<>> <=> app = 0 /\ game = 0
           /\ shown # <<>> => shown[1].app_id < U32
           /\ shown # <<>> /\ app = 0 => (game - shown[1].app_id) % U32 = 0

\* The hash is shown byte for byte; the address names it, or the default picture if
\* there is none.
Spells(digits, hash) == /\ Len(digits) = 2 * Len(hash)
                        /\ \A i \in DOMAIN hash : hash[i] = 16 * digits[2 * i - 1] + digits[2 * i]
AvatarIsTheirs ==
    Seen("summary") =>
        LET hash == unwrap_or(answer.of.hash, <<>>)
        IN /\ Spells(Shown.avatar_hash, hash)
           /\ IF \E i \in DOMAIN hash : hash[i] # 0 THEN Spells(Shown.avatar_url, hash)
              ELSE Shown.avatar_url = DEFAULT_AVATAR_HASH

\* Only a good answer is a profile, a name or a picture.
RefusedIsNotEmpty ==
    /\ Seen("profile") => (Shown.ok <=> answer.of.eresult = OK)
    /\ Seen("vanity") \/ Seen("avatar") => (Shown.ok => answer.of.sent /\ answer.of.status = 200)

=============================================================================
