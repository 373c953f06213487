----------------------------- MODULE ProxyTunnel -----------------------------
(***************************************************************************)
(* connect_ws (websocket.rs) over a direct socket, a SOCKS5 proxy or an    *)
(* HTTP CONNECT proxy (proxy.rs): the phases, the nested deadlines, and    *)
(* the buffered reader the CONNECT reply is parsed with, which goes on to  *)
(* serve the tunnel.  Timers fire when they are due: time does not pass a  *)
(* deadline that is armed.                                                 *)
(***************************************************************************)
EXTENDS Integers, Sequences

CONSTANTS Handshake,    \* PROXY_HANDSHAKE_TIMEOUT
          ProxyConnect, \* PROXY_CONNECT_TIMEOUT
          TcpConnect, TlsHandshake, WsHandshake,
          MaxHeaders,   \* MAX_CONNECT_HEADERS
          Replies       \* what a proxy may send back, then the tunnel's bytes

ASSUME LimitsAssumption ==
    /\ Handshake \in Nat /\ ProxyConnect \in Nat
    /\ TcpConnect \in Nat /\ TlsHandshake \in Nat /\ WsHandshake \in Nat
    /\ MaxHeaders \in Nat \ {0}
    /\ Replies \subseteq Seq(STRING)

VARIABLES route,    \* how the target is reached
          wss,      \* the URL asks for TLS to the target
          phase,    \* the phase in progress
          now,      \* time since connect_ws was called
          deadline, \* of the phase
          outer,    \* of the whole proxy connect
          reply,    \* what the proxy's side sends in all
          closes,   \* it closes after that, else it stays silent
          socket,     \* the part not yet read from the socket
          buf,      \* the part in the BufReader
          headers,  \* header lines read
          result,
          readFrom  \* history: when reading the reply began
setting == <<route, wss, reply, closes>>
tunnelVars == <<phase, now, deadline, outer, socket, buf, headers, result, readFrom, setting>>

Far == ProxyConnect + TlsHandshake + WsHandshake + 1

Proxied == route # "direct"

\* What may come next; a phase has its own timeout, counted from its start.
After(p) ==
    CASE p = "start" -> IF ~Proxied THEN "tcp"
                        ELSE IF route = "socks5" THEN "socks" ELSE "proxyTcp"
      [] p = "proxyTcp" -> IF route = "https" THEN "proxyTls" ELSE "write"
      [] p = "proxyTls" -> "write"
      [] p = "write" -> "status"
      [] p \in {"tcp", "socks", "headers"} -> IF wss THEN "tls" ELSE "ws"
      [] p = "tls" -> "ws"
      [] p = "ws" -> "done"
Budget(p) ==
    CASE p = "tcp" -> TcpConnect [] p = "tls" -> TlsHandshake [] p = "ws" -> WsHandshake
      [] p = "done" -> Far
      [] OTHER -> Handshake

InProxy == {"socks", "proxyTcp", "proxyTls", "write", "status", "headers"}

TunnelInit ==
    /\ route \in {"direct", "socks5", "http", "https"} /\ wss \in BOOLEAN
    /\ reply \in Replies /\ closes \in BOOLEAN
    /\ phase = "start" /\ now = 0 /\ deadline = Far /\ outer = Far
    /\ socket = reply /\ buf = <<>> /\ headers = 0
    /\ result = "pending" /\ readFrom = 0

Enter(p) ==
    /\ phase' = p /\ deadline' = now + Budget(p)
    /\ outer' = CASE phase = "start" /\ Proxied -> now + ProxyConnect
                  [] p \notin InProxy -> Far
                  [] OTHER -> outer
    /\ result' = IF p = "done" THEN "open" ELSE result
    /\ readFrom' = IF p = "status" THEN now ELSE readFrom

Fail(e) == /\ phase' = "done" /\ result' = e
           /\ deadline' = Far /\ outer' = Far /\ UNCHANGED readFrom

\* Parsing the URL: a bad one ends the call, else the first phase starts.
Start == /\ phase = "start"
         /\ Enter(After("start")) \/ Fail("InvalidUrl")
         /\ UNCHANGED <<now, socket, buf, headers, setting>>

Opaque == {"tcp", "socks", "proxyTcp", "proxyTls", "write", "tls", "ws"}

\* A phase that is one call of a library: it completes, fails, or stalls.
PhaseDone == /\ phase \in Opaque
             /\ Enter(After(phase))
             /\ UNCHANGED <<now, socket, buf, headers, setting>>
PhaseFails == /\ phase \in Opaque
              /\ Fail("Io")
              /\ UNCHANGED <<now, socket, buf, headers, setting>>

Due == IF deadline < outer THEN deadline ELSE outer

Tick == /\ phase \notin {"start", "done"} /\ now < Due
        /\ now' = now + 1
        /\ UNCHANGED <<phase, deadline, outer, socket, buf, headers, result, readFrom,
                       setting>>
Expire == /\ phase \notin {"start", "done"} /\ now = Due
          /\ Fail("Timeout")
          /\ UNCHANGED <<now, socket, buf, headers, setting>>

-----------------------------------------------------------------------------
Reading == phase \in {"status", "headers"}

\* One read of the socket fills the empty buffer with whatever has arrived,
\* past the end of the reply as well.
Fill == /\ Reading /\ buf = <<>>
        /\ \E k \in 1..Len(socket) :
            buf' = SubSeq(socket, 1, k) /\ socket' = SubSeq(socket, k + 1, Len(socket))
        /\ UNCHANGED <<phase, now, deadline, outer, headers, result, readFrom, setting>>

Eof == buf = <<>> /\ socket = <<>> /\ closes

is_ok_status(line) == line = "200"

\* The first line; reading it may fail.
ReadStatus ==
    /\ phase = "status"
    /\ \/ /\ buf # <<>> /\ buf' = Tail(buf)
          /\ IF is_ok_status(Head(buf))
             THEN phase' = "headers" /\ UNCHANGED <<deadline, outer, result, readFrom>>
             ELSE Fail("HttpConnect")
       \/ Eof /\ Fail("HttpConnect") /\ UNCHANGED buf
       \/ Fail("Io") /\ UNCHANGED buf
    /\ UNCHANGED <<now, socket, headers, setting>>

\* fault: every line gets the whole handshake timeout
ReadHeaderPerLine ==
    /\ phase = "headers"
    /\ \/ /\ buf # <<>> /\ Head(buf) # "blank"
          /\ buf' = Tail(buf) /\ headers' = headers + 1
          /\ IF headers + 1 = MaxHeaders
             THEN Fail("HttpConnect")
             ELSE deadline' = now + Handshake /\ UNCHANGED <<phase, outer, result, readFrom>>
       \/ Fail("Io") /\ UNCHANGED <<buf, headers>>
    /\ UNCHANGED <<now, socket, setting>>

\* One more header line; the loop ends after MAX_CONNECT_HEADERS of them, or
\* when reading one fails.
ReadHeader ==
    /\ phase = "headers"
    /\ \/ /\ buf # <<>> /\ Head(buf) # "blank"
          /\ buf' = Tail(buf) /\ headers' = headers + 1
          /\ IF headers + 1 = MaxHeaders
             THEN Fail("HttpConnect")
             ELSE UNCHANGED <<phase, deadline, outer, result, readFrom>>
       \/ Fail("Io") /\ UNCHANGED <<buf, headers>>
    /\ UNCHANGED <<now, socket, setting>>

\* fault: the tunnel goes on with the inner stream, without the reader
HeadersEndInner ==
    /\ phase = "headers"
    /\ Eof \/ (buf # <<>> /\ Head(buf) = "blank")
    /\ buf' = <<>>
    /\ Enter(After("headers"))
    /\ UNCHANGED <<now, socket, headers, setting>>

\* The blank line, or the end of the stream, ends the headers; the reader and
\* whatever it buffered become the tunnel.
HeadersEnd ==
    /\ phase = "headers"
    /\ \/ Eof /\ UNCHANGED buf
       \/ buf # <<>> /\ Head(buf) = "blank" /\ buf' = Tail(buf)
    /\ Enter(After("headers"))
    /\ UNCHANGED <<now, socket, headers, setting>>

TunnelDone == phase = "done" /\ UNCHANGED tunnelVars

TunnelNext == \/ Start \/ PhaseDone \/ PhaseFails \/ Tick \/ Expire
              \/ Fill \/ ReadStatus \/ ReadHeader \/ HeadersEnd \/ TunnelDone

TunnelSpec == TunnelInit /\ [][TunnelNext]_tunnelVars

-----------------------------------------------------------------------------
Suffix(i) == SubSeq(reply, i + 1, Len(reply))

\* A CONNECT tunnel exists only behind a 200, and its first byte is the first
\* one after the blank line: nothing the reader buffered ahead is lost, however
\* the reply was cut into reads.
TunnelIntact ==
    route \in {"http", "https"} /\ (phase \in {"tls", "ws"} \/ result = "open") =>
        /\ reply # <<>> /\ reply[1] = "200"
        /\ \/ closes /\ buf \o socket = <<>>
           \/ \E i \in DOMAIN reply : /\ reply[i] = "blank"
                                      /\ \A j \in 1..(i - 1) : reply[j] # "blank"
                                      /\ buf \o socket = Suffix(i)

\* Nobody waits longer than the documented budgets: 45s for everything up to the
\* tunnel, 15s each for a direct connect, TLS and the WebSocket handshake.  A proxy
\* that drips its reply cannot stretch the reading of it: one deadline covers the
\* status and all headers, of which there are at most MAX_CONNECT_HEADERS.
BoundedConnect ==
    /\ headers <= MaxHeaders
    /\ phase \in InProxy => now <= ProxyConnect
    /\ Reading => now <= readFrom + Handshake
    /\ now <= (IF Proxied THEN ProxyConnect ELSE TcpConnect) + TlsHandshake + WsHandshake
=============================================================================
