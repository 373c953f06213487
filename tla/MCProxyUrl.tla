------------------------------ MODULE MCProxyUrl ------------------------------
\* The URLs written: every scheme, host, port and path with few userinfos, every
\* userinfo of up to three pieces with few of those, and some spelled otherwise.
EXTENDS ProxyUrl, SequencesExt

MCPortNo == ("80" :> 80) @@ ("443" :> 443) @@ ("1080" :> 1080) @@ ("8080" :> 8080)
            @@ ("99999" :> 99999)
Pieces == {<<"w">>, <<"%">>, <<"4">>, <<"%", "4", "1">>, <<"%", "C", "3">>, <<"%", "a", "9">>,
           <<"@">>, <<"]">>}
Texts == {FlattenSeq(p) : p \in BoundedSeq(Pieces, 3)}
Hosts == {<<"w">>, <<"[", ":", ":", "1", "]">>}
Ports == {<<>>, <<<<>>>>} \union {<<<<d>>>> : d \in DOMAIN MCPortNo}
Tails == {<<>>, <<"/">>, <<"/", "w", ":", "80">>, <<"?", "w", ":", "80">>, <<"#", "@", "w", ":", "80">>}
Shapes ==
    [scheme : {"socks5", "socks5h", "http", "https", "ftp"}, slashes : 0..3,
     user : {<<>>, <<"w", "@">>}, pass : {<<>>, <<<<"1">>>>, <<<<"w", ":", "4">>>>},
     host : Hosts, port : Ports, tail : Tails]
    \union
    [scheme : {"socks5", "http"}, slashes : {2}, user : Texts, pass : {<<>>, <<<<>>>>, <<<<"%", "4">>>>},
     host : {<<"w">>}, port : {<<>>}, tail : {<<>>}]
Spelled(p, text) == p @@ ("text" :> text)

\* The same URL with a space at an end, a line break anywhere, or a backslash.
Respelt ==
    [scheme : {"socks5", "http", "https"}, slashes : {2}, user : {<<>>, <<"w">>}, pass : {<<>>},
     host : Hosts, port : {<<>>, <<<<"80">>>>, <<<<"443">>>>, <<<<"1080">>>>}, tail : {<<>>, <<"/">>}]
Spellings(p) ==
    LET s == Joined(p) IN
    {<<"sp">> \o s, s \o <<"sp">>} \union {InsertAt(s, i, "nl") : i \in 1..(Len(s) + 1)}
    \union {[s EXCEPT ![i] = "\\"] : i \in {j \in DOMAIN s : s[j] = "/" /\ p.scheme \in Special}}

MCWritten == {Spelled(p, Joined(p)) : p \in Shapes}
             \union UNION {{Spelled(p, text) : text \in Spellings(p)} : p \in Respelt}
=============================================================================
