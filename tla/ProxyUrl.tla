------------------------------- MODULE ProxyUrl -------------------------------
(***************************************************************************)
(* From the URL a user writes to the proxy the library connects to:        *)
(* ProxyConfig::parse with its port and userinfo rules, display, and       *)
(* http.rs's client (proxy.rs, transport/mod.rs, http.rs).  A URL is a     *)
(* sequence of tokens: the delimiters the code scans for, words, and the   *)
(* characters of a percent escape.  A character stands for its byte.       *)
(***************************************************************************)
EXTENDS Integers, Sequences, FiniteSetsExt

CONSTANTS Written,   \* the URLs a user may write: their text, and the parts of it
          PortNo     \* the decimal numerals in them, with their values

\* Of the blanks, "sp" stands for a space and "nl" for a tab or a line break.
Blanks == {"sp", "nl"}
Delimiters == {":", "/", "?", "#", "@", "[", "]", "\\"} \union Blanks
\* The parts are the ones url::Url tells apart: no delimiter that would end a part
\* stands in it, and a host with a colon is an IPv6 literal in brackets.
Free(s, chars) == \A i \in DOMAIN s : s[i] \notin chars
HostForm(h) == \/ Free(h, Delimiters)
               \/ /\ Len(h) > 2 /\ h[1] = "[" /\ h[Len(h)] = "]"
                  /\ \A i \in 2..(Len(h) - 1) : h[i] \notin Delimiters \ {":"}
                  /\ \E i \in 2..(Len(h) - 1) : h[i] = ":"
PartsForm(w) ==
    /\ w.scheme \notin Delimiters /\ w.slashes \in Nat
    /\ w.user \in Seq(STRING) /\ Free(w.user, {"/", "?", "#"})
    /\ w.pass = <<>> \/ (Len(w.pass) = 1 /\ w.pass[1] \in Seq(STRING)
                           /\ Free(w.pass[1], {"/", "?", "#"}))
    /\ w.host \in Seq(STRING) /\ HostForm(w.host)
    /\ \/ w.port = <<>> \/ w.port = <<<<>>>>
       \/ \E d \in DOMAIN PortNo : w.port = <<<<d>>>>
    /\ w.tail \in Seq(STRING) /\ (w.tail # <<>> => w.tail[1] \in {"/", "?", "#"})

\* The parts put together: userinfo is a name and, after a colon, a password.
Slashes(n) == [i \in 1..n |-> "/"]
UserInfo(w) == IF w.user = <<>> /\ w.pass = <<>> THEN <<>>
               ELSE w.user \o (IF w.pass = <<>> THEN <<>> ELSE <<":">> \o w.pass[1]) \o <<"@">>
Joined(w) == <<w.scheme, ":">> \o Slashes(w.slashes) \o UserInfo(w) \o w.host
             \o (IF w.port = <<>> THEN <<>> ELSE <<":">> \o w.port[1]) \o w.tail

\* What url::Url takes apart is not the text itself.  It trims blanks at both ends,
\* removes every tab and line break, and reads a backslash as a slash in the schemes
\* it knows (in the query too, here: nothing looks there).
Special == {"http", "https", "ftp"}
Cleaned(text, scheme) ==
    LET kept == {i \in DOMAIN text : text[i] \notin Blanks}
        trimmed == IF kept = {} THEN <<>> ELSE SubSeq(text, Min(kept), Max(kept))
        OnLine(c) == c # "nl"
        line == SelectSeq(trimmed, OnLine)
    IN [i \in DOMAIN line |-> IF line[i] = "\\" /\ scheme \in Special THEN "/" ELSE line[i]]

ASSUME UrlAssumption ==
    /\ PortNo \in [DOMAIN PortNo -> Nat] /\ DOMAIN PortNo \subseteq STRING \ Delimiters
    /\ \A n \in {80, 443, 1080, 8080} : \E d \in DOMAIN PortNo : PortNo[d] = n
    /\ \A w \in Written : PartsForm(w) /\ Cleaned(w.text, w.scheme) = Joined(w)

VARIABLES written,
          config,   \* ProxyConfig::parse of it, if parsed
          shown,    \* parse of what display gave, if tried
          webRoute     \* how the HTTP client built from it sends requests, if built
urlVars == <<written, config, shown, webRoute>>

Fails(e) == [ok |-> FALSE, err |-> e]

\* Tokens that are digits: numerals, and the digits of an escape.
Digits == DOMAIN PortNo \union {"0", "1", "3", "4", "5", "9"}
ToDecimal(n) == CHOOSE d \in DOMAIN PortNo : PortNo[d] = n

-----------------------------------------------------------------------------
\* url::Url.  It forgives the number of slashes of a scheme it knows, drops a port
\* that is that scheme's default, and keeps an IPv6 host's brackets.
KnownPort(scheme) == CASE scheme = "http" -> <<80>> [] scheme = "https" -> <<443>>
                   [] scheme = "ftp" -> <<21>> [] OTHER -> <<>>
HasAuthority(w) == w.scheme \in Special \/ w.slashes = 2
UrlParses(w) == HasAuthority(w) =>
                    /\ w.host # <<>>
                    /\ w.port # <<>> => w.port[1] = <<>> \/ PortNo[w.port[1][1]] < 2 ^ 16
UrlHost(w) == IF HasAuthority(w) THEN <<w.host>> ELSE <<>>
UrlPort(w) == LET p == IF w.port = <<>> \/ w.port[1] = <<>> THEN <<>> ELSE <<PortNo[w.port[1][1]]>>
              IN IF p = KnownPort(w.scheme) THEN <<>> ELSE p
Flattened(seqs) ==
    LET upto[i \in 0..Len(seqs)] == IF i = 0 THEN <<>> ELSE upto[i - 1] \o seqs[i]
    IN upto[Len(seqs)]
\* It escapes the delimiters in a name or password and leaves "%" alone.
UrlUserinfo(s) == Flattened([i \in DOMAIN s |->
                      CASE s[i] = "@" -> <<"%", "4", "0">> [] s[i] = "]" -> <<"%", "5", "D">>
                        [] s[i] = ":" -> <<"%", "3", "A">> [] OTHER -> <<s[i]>>])
PortOrKnown(w) == IF UrlPort(w) # <<>> THEN UrlPort(w) ELSE KnownPort(w.scheme)

\* String::from_utf8_lossy on these bytes: %C3%A9 is one character, a half of it
\* alone the replacement character.
from_utf8_lossy(b) ==
    LET from[i \in 1..(Len(b) + 1)] ==
            IF i > Len(b) THEN <<>>
            ELSE IF b[i] < 128 THEN <<b[i]>> \o from[i + 1]
            ELSE IF i < Len(b) /\ b[i] = 195 /\ b[i + 1] = 169 THEN <<233>> \o from[i + 2]
            ELSE <<65533>> \o from[i + 1]
    IN from[1]

-----------------------------------------------------------------------------
\* `None` of hex_nibble is <<>>.
Code == [c \in {"w", "%", "0", "1", "3", "4", "5", "9", "A", "C", "D", "a", "@", "]", ":"} |->
            CASE c = "w" -> 119 [] c = "%" -> 37 [] c = "0" -> 48 [] c = "1" -> 49
              [] c = "3" -> 51 [] c = "4" -> 52 [] c = "5" -> 53 [] c = "9" -> 57
              [] c = "A" -> 65 [] c = "C" -> 67 [] c = "D" -> 68 [] c = "a" -> 97
              [] c = "@" -> 64 [] c = "]" -> 93 [] c = ":" -> 58]
Chars(s) == [i \in DOMAIN s |-> Code[s[i]]]
hex_nibble(b) == CASE b \in 48..57 -> <<b - 48>>
                   [] b \in 97..102 -> <<b - 97 + 10>>
                   [] b \in 65..70 -> <<b - 65 + 10>>
                   [] OTHER -> <<>>

EscapeFits(b, i) == i + 2 <= Len(b)

percent_decode(input) ==
    LET b == Chars(input)
        from[i \in 1..(Len(b) + 1)] ==
            IF i > Len(b) THEN <<>>
            ELSE IF /\ b[i] = 37 /\ EscapeFits(b, i)
                    /\ hex_nibble(b[i + 1]) # <<>> /\ hex_nibble(b[i + 2]) # <<>>
            THEN <<hex_nibble(b[i + 1])[1] * 16 + hex_nibble(b[i + 2])[1]>> \o from[i + 3]
            ELSE <<b[i]>> \o from[i + 1]
    IN from_utf8_lossy(from[1])

\* Where str::split and split_once cut, and rsplit_once; 0 is nowhere.
split_pos(s, chars) == LET places == {i \in 1..Len(s) : s[i] \in chars}
                       IN IF places = {} THEN 0 ELSE Min(places)
rsplit_pos(s, char) == LET places == {i \in 1..Len(s) : s[i] = char}
                       IN IF places = {} THEN 0 ELSE Max(places)

BeforeFirst(s, chars) == LET end == split_pos(s, chars)
                         IN IF end = 0 THEN s ELSE SubSeq(s, 1, end - 1)
AfterLast(s, char) == SubSeq(s, rsplit_pos(s, char) + 1, Len(s))
\* What follows the userinfo and an IPv6 literal.
HostTail(authority) == AfterLast(AfterLast(authority, "@"), "]")

has_explicit_port(raw) ==
    LET start == {i \in 1..(Len(raw) - 2) : raw[i] = ":" /\ raw[i + 1] = "/" /\ raw[i + 2] = "/"}
    IN /\ start # {}
       /\ LET rest == SubSeq(raw, Min(start) + 3, Len(raw))
              tail == HostTail(BeforeFirst(rest, {"/", "?", "#"}))
              colon == split_pos(tail, {":"})
          IN colon # 0 /\ colon < Len(tail) /\ \A k \in colon + 1..Len(tail) : tail[k] \in Digits

DefaultPort(scheme) == CASE scheme \in {"socks5", "socks5h"} -> <<1080>>
                         [] scheme = "http" -> <<8080>> [] scheme = "https" -> <<443>>
                         [] OTHER -> <<>>
\* fault: the default of a proxy is used whenever the URL gives no port
PortOrProxyDefault(w) == IF UrlPort(w) # <<>> THEN UrlPort(w) ELSE DefaultPort(w.scheme)
resolve_port(w) == IF UrlPort(w) # <<>> THEN UrlPort(w)
                   ELSE IF has_explicit_port(w.text) THEN PortOrKnown(w)
                   ELSE DefaultPort(w.scheme)

unbracket(host) == IF Len(host) > 1 /\ host[1] = "[" /\ host[Len(host)] = "]"
                   THEN SubSeq(host, 2, Len(host) - 1) ELSE host
authority(host, port) ==
    IF \E i \in DOMAIN host : host[i] = ":" THEN <<"[">> \o host \o <<"]", ":", ToDecimal(port)>>
    ELSE host \o <<":", ToDecimal(port)>>

Credentials(username, password) ==
    IF username = <<>> /\ password = <<>> THEN <<>>
    ELSE <<[username |-> username, password |-> password]>>

parse(w) ==
    IF ~UrlParses(w) THEN Fails("InvalidUrl")
    ELSE IF w.scheme \notin {"socks5", "socks5h", "http", "https"} THEN Fails("InvalidConfig")
    ELSE IF UrlHost(w) = <<>> \/ resolve_port(w) = <<>> THEN Fails("InvalidUrl")
    ELSE [ok |-> TRUE,
          kind |-> IF w.scheme \in {"socks5", "socks5h"} THEN "Socks5" ELSE "HttpConnect",
          host |-> unbracket(UrlHost(w)[1]),
          port |-> resolve_port(w)[1],
          credentials |-> Credentials(percent_decode(UrlUserinfo(w.user)),
                              percent_decode(UrlUserinfo(IF w.pass = <<>> THEN <<>> ELSE w.pass[1]))),
          tls_to_proxy |-> w.scheme = "https"]

scheme_label(c) == IF c.kind = "Socks5" THEN "socks5"
                   ELSE IF c.tls_to_proxy THEN "https" ELSE "http"
display(c) == <<scheme_label(c), ":", "/", "/">> \o authority(c.host, c.port)

\* url::Url on a text of that form: the host ends at its bracket or its first colon.
ReadBack(text) ==
    LET a == SubSeq(text, 5, Len(text))
        end == IF a[1] = "[" THEN split_pos(a, {"]"}) ELSE split_pos(a, {":"}) - 1
    IN [text |-> text, scheme |-> text[1], slashes |-> 2, user |-> <<>>, pass |-> <<>>,
        host |-> SubSeq(a, 1, end), port |-> <<SubSeq(a, end + 2, Len(a))>>, tail |-> <<>>]

\* fault: a proxy reached over TLS is used in the clear
ClearScheme(c) == IF c.kind = "Socks5" THEN "socks5h" ELSE "http"
ReqwestScheme(c) == IF c.kind = "Socks5" THEN "socks5h"
                    ELSE IF c.tls_to_proxy THEN "https" ELSE "http"
\* reqwest takes the proxy's address from the URL, with the scheme's own default.
build_proxy(c) ==
    LET w == ReadBack(<<ReqwestScheme(c), ":", "/", "/">> \o authority(c.host, c.port)) IN
    IF ~UrlParses(w) THEN Fails("InvalidConfig")
    ELSE [ok |-> TRUE, via |-> "proxy", socks |-> w.scheme = "socks5h", tls |-> w.scheme = "https",
          host |-> unbracket(w.host), port |-> PortOrKnown(w), auth |-> c.credentials]
client(proxy) == IF proxy = <<>> THEN [ok |-> TRUE, via |-> "direct"] ELSE build_proxy(proxy[1])

-----------------------------------------------------------------------------
UrlInit == /\ written \in Written
           /\ config = <<>> /\ shown = <<>> /\ webRoute = <<>>

Parse == /\ config = <<>> /\ config' = <<parse(written)>>
         /\ UNCHANGED <<written, shown, webRoute>>
\* The displayed form is pasted back into a configuration.
Redisplay == /\ config # <<>> /\ config[1].ok /\ shown = <<>>
             /\ shown' = <<parse(ReadBack(display(config[1])))>>
             /\ UNCHANGED <<written, config, webRoute>>
BuildClient == /\ config # <<>> /\ config[1].ok /\ webRoute = <<>>
               /\ \E proxy \in {<<>>, config} : webRoute' = <<client(proxy)>>
               /\ UNCHANGED <<written, config, shown>>
UrlDone == /\ config # <<>> /\ (config[1].ok => shown # <<>> /\ webRoute # <<>>)
           /\ UNCHANGED urlVars
UrlNext == Parse \/ Redisplay \/ BuildClient \/ UrlDone
UrlSpec == UrlInit /\ [][UrlNext]_urlVars

-----------------------------------------------------------------------------
Parsed == config # <<>> /\ config[1].ok
Cfg == config[1]

PortKept == IF written.port # <<>> /\ written.port[1] # <<>>
            THEN Cfg.port = PortNo[written.port[1][1]]
            ELSE Cfg.port = CASE written.scheme \in {"socks5", "socks5h"} -> 1080
                              [] written.scheme = "http" -> 8080
                              [] written.scheme = "https" -> 443

\* An escape is a "%" and two hex digits; escapes never overlap, so each one is
\* replaced where it stands and every other character is kept.
Unescaped(r) ==
    LET E == {i \in 1..(Len(r) - 2) : r[i] = 37 /\ \A k \in {1, 2} : hex_nibble(r[i + k]) # <<>>}
    IN Flattened([i \in DOMAIN r |->
           IF i \in E THEN <<16 * hex_nibble(r[i + 1])[1] + hex_nibble(r[i + 2])[1]>>
           ELSE IF i - 1 \in E \/ i - 2 \in E THEN <<>> ELSE <<r[i]>>])

CredentialsKept ==
    LET half(s) == from_utf8_lossy(Unescaped(Chars(s)))
        pass == IF written.pass = <<>> THEN <<>> ELSE written.pass[1]
    IN Cfg.credentials = (IF written.user = <<>> /\ pass = <<>> THEN <<>>
           ELSE <<[username |-> half(written.user), password |-> half(pass)]>>)

\* The text is what its parts make, with "://" before the host.
Verbatim(w) == w.slashes = 2 /\ w.text = Joined(w)
\* The port that is written is not the one url::Url drops.
PortShows(w) == UrlPort(w) # <<>>

\* The proxy is the one that was written.  It is given the name and password of the
\* URL, with either half possibly empty, and none when both are.  Its port is the
\* written one where url::Url reports it.  Where url::Url does not, the scan of the
\* text tells a dropped port from an omitted one if the text is verbatim: no colon in
\* the userinfo, an IPv6 literal or the path is taken for one.
ProxyAsWritten == Parsed => CredentialsKept /\ (Verbatim(written) \/ PortShows(written) => PortKept)

\* A port written in the URL is always kept as written, and the default is for an
\* omitted one (the comment on ProxyConfig::parse), however a URL with "://" is spelled.
PortAlwaysKept == Parsed /\ written.slashes = 2 => PortKept

\* Everyone uses the same proxy: what display shows names it when parsed again, and
\* Web API calls go through it, spoken to in the same way and with the same
\* credentials as for the CM connection's tunnel.
SameProxyEverywhere ==
    /\ shown # <<>> => shown[1] = [Cfg EXCEPT !.credentials = <<>>]
    /\ webRoute # <<>> =>
          /\ webRoute[1].ok
          /\ webRoute[1].via = "proxy" =>
                /\ webRoute[1].host = Cfg.host /\ webRoute[1].port = <<Cfg.port>>
                /\ webRoute[1].socks = (Cfg.kind = "Socks5")
                /\ webRoute[1].tls = Cfg.tls_to_proxy
                /\ webRoute[1].auth = Cfg.credentials
=============================================================================
