---------------------------- MODULE ProxyUrlProofs ----------------------------
(***************************************************************************)
(* For every URL a user may write: the port of the proxy is the written    *)
(* one or the default of its scheme, if url::Url reports the port or the   *)
(* text is what its parts make; and the address display and the HTTP       *)
(* client are given names the very proxy that was parsed.                  *)
(*                                                                         *)
(* The first half is about texts: where the code cuts them, and what is    *)
(* left.  The second is about the proxy they name.                         *)
(***************************************************************************)
EXTENDS ProxyUrl, SequenceTheorems, TLAPS

\* The tokens are strings; the ones the code looks for or writes are named, for the
\* provers do not know that a literal is a string.
Schemes == {"socks5", "socks5h", "http", "https"}
Tokens == STRING \union Delimiters \union Schemes
Text == Seq(Tokens)

\* A concatenation, place by place.
LEMMA TextConcat ==
    ASSUME NEW s \in Text, NEW t \in Text
    PROVE  /\ s \o t \in Text /\ Len(s) \in Nat /\ Len(t) \in Nat /\ Len(s \o t) = Len(s) + Len(t)
           /\ \A i \in 1..Len(s) : (s \o t)[i] = s[i]
           /\ \A i \in 1..Len(t) : (s \o t)[Len(s) + i] = t[i]
<1>1. /\ s \o t \in Text /\ Len(s) \in Nat /\ Len(t) \in Nat /\ Len(s \o t) = Len(s) + Len(t)
      /\ \A i \in 1..(Len(s) + Len(t)) : (s \o t)[i] = IF i <= Len(s) THEN s[i] ELSE t[i - Len(s)]
    BY ConcatProperties DEF Text
<1>2. ASSUME NEW i \in 1..Len(s) PROVE (s \o t)[i] = s[i]
    BY <1>1
<1>3. ASSUME NEW i \in 1..Len(t) PROVE (s \o t)[Len(s) + i] = t[i]
    <2>1. Len(s) + i \in 1..(Len(s) + Len(t)) /\ ~(Len(s) + i <= Len(s)) /\ Len(s) + i - Len(s) = i
        BY <1>1
    <2>2. (s \o t)[Len(s) + i]
             = IF Len(s) + i <= Len(s) THEN s[Len(s) + i] ELSE t[Len(s) + i - Len(s)]
        BY <1>1, <2>1
    <2>. QED
        BY <2>1, <2>2
<1>. QED
    BY <1>1, <1>2, <1>3

\* The least element of a set of numbers, as the search for it finds it.
LEMMA Least ==
    ASSUME NEW S \in SUBSET Int, NEW n \in S, \A j \in S : n <= j
    PROVE  (CHOOSE i \in S : \A j \in S : i <= j) = n
<1> DEFINE m == CHOOSE i \in S : \A j \in S : i <= j
<1>1. m \in S /\ \A j \in S : m <= j
    BY Zenon
<1> HIDE DEF m
<1>2. m = n
    BY <1>1
<1>. QED
    BY <1>2 DEF m

\* A text is cut at the first of the delimiters in it.
LEMMA SplitAtPlace ==
    ASSUME NEW s \in Text, NEW C, NEW n \in 1..Len(s), s[n] \in C,
           \A i \in 1..(n - 1) : s[i] \notin C
    PROVE  split_pos(s, C) = n
<1> DEFINE I == {i \in 1..Len(s) : s[i] \in C}
<1>1. Len(s) \in Nat
    BY DEF Text
<1>2. I \in SUBSET Int /\ n \in I /\ \A i \in I : n <= i
    BY <1>1
<1>3. Min(I) = n
    BY <1>2, Least DEF Min
<1>. QED
    BY Zenon, <1>2, <1>3 DEF split_pos

\* The same for a text in two parts, of which the second begins with a delimiter.
LEMMA SplitAtFirst ==
    ASSUME NEW s \in Text, NEW t \in Text, NEW C, Free(s, C), t # <<>>, t[1] \in C
    PROVE  split_pos(s \o t, C) = Len(s) + 1
<1>1. /\ Len(s) \in Nat /\ Len(t) \in Nat /\ Len(t) >= 1 /\ \A i \in 1..Len(s) : s[i] \notin C
    BY DEF Text, Free
<1>2. /\ s \o t \in Text /\ Len(s \o t) = Len(s) + Len(t)
      /\ \A i \in 1..Len(s) : (s \o t)[i] = s[i]
      /\ \A i \in 1..Len(t) : (s \o t)[Len(s) + i] = t[i]
    BY Zenon, TextConcat
<1> DEFINE u == s \o t  n == Len(s) + 1
<1> HIDE DEF u
<1>3. n \in 1..Len(u) /\ u[n] \in C /\ \A i \in 1..(n - 1) : u[i] \notin C
    BY <1>1, <1>2 DEF u
<1>. QED
    BY Zenon, <1>2, <1>3, SplitAtPlace DEF u

\* A text without the delimiters is not cut.
LEMMA SplitNowhere ==
    ASSUME NEW s \in Text, NEW C, Free(s, C)
    PROVE  split_pos(s, C) = 0
BY DEF split_pos, Text, Free

\* A text is cut at the last of a delimiter, or nowhere.
LEMMA RsplitAtLast ==
    ASSUME NEW s \in Text, NEW t \in Text, NEW c, s # <<>>, s[Len(s)] = c, Free(t, {c})
    PROVE  rsplit_pos(s \o t, c) = Len(s)
<1> DEFINE I == {i \in 1..Len(s \o t) : (s \o t)[i] = c}
<1>1. /\ Len(s) \in Nat /\ Len(t) \in Nat /\ Len(s) >= 1
      /\ \A i \in 1..Len(t) : t[i] # c
    BY DEF Text, Free
<1>2. /\ Len(s \o t) = Len(s) + Len(t)
      /\ \A i \in 1..(Len(s) + Len(t)) : (s \o t)[i] = IF i <= Len(s) THEN s[i] ELSE t[i - Len(s)]
    BY DEF Text
<1>3. Len(s) \in I /\ \A i \in I : i <= Len(s)
    BY <1>1, <1>2
<1>4. Max(I) = Len(s)
    BY <1>1, <1>3 DEF Max
<1>. QED
    BY Zenon, <1>3, <1>4 DEF rsplit_pos

\* A text without it is not cut there.
LEMMA RsplitNowhere ==
    ASSUME NEW s \in Text, NEW c, Free(s, {c})
    PROVE  rsplit_pos(s, c) = 0
BY DEF rsplit_pos, Text, Free

\* The two parts of a concatenation.
LEMMA LeftPart ==
    ASSUME NEW s \in Text, NEW t \in Text
    PROVE  SubSeq(s \o t, 1, Len(s)) = s
<1>1. CASE s = <<>>
    BY <1>1 DEF Text
<1>2. CASE s # <<>>
    BY <1>2, SubSeqOfConcat1, SubSeqFull DEF Text
<1>. QED
    BY <1>1, <1>2

\* The second part starts where the first ended.
LEMMA RightPart ==
    ASSUME NEW s \in Text, NEW t \in Text
    PROVE  SubSeq(s \o t, Len(s) + 1, Len(s \o t)) = t
<1>0. Len(s) \in Nat /\ Len(t) \in Nat /\ Len(s \o t) = Len(s) + Len(t)
    BY DEF Text
<1>1. CASE t = <<>>
    BY <1>0, <1>1 DEF Text
<1>2. CASE t # <<>>
    <2>1. Len(t) >= 1
        BY <1>0, <1>2 DEF Text
    <2>2. SubSeq(s \o t, Len(s) + 1, Len(s \o t)) = SubSeq(t, 1, Len(t))
        BY <1>0, <2>1, SubSeqOfConcat2 DEF Text
    <2>. QED
        BY <2>2, SubSeqFull DEF Text
<1>. QED
    BY <1>1, <1>2

\* What follows the last of a delimiter.
LEMMA AfterLastCut ==
    ASSUME NEW s \in Text, NEW t \in Text, NEW c, s # <<>>, s[Len(s)] = c, Free(t, {c})
    PROVE  AfterLast(s \o t, c) = t
<1>1. rsplit_pos(s \o t, c) = Len(s)
    BY RsplitAtLast
<1>2. SubSeq(s \o t, Len(s) + 1, Len(s \o t)) = t
    BY RightPart
<1>. QED
    BY Zenon, <1>1, <1>2 DEF AfterLast

\* Without that delimiter it is the whole text.
LEMMA AfterLastWhole ==
    ASSUME NEW s \in Text, NEW c, Free(s, {c})
    PROVE  AfterLast(s, c) = s
BY RsplitNowhere, SubSeqFull DEF AfterLast, Text

\* A concatenation of texts without the delimiters has none.
LEMMA FreeConcat ==
    ASSUME NEW s \in Text, NEW t \in Text, NEW C, Free(s, C), Free(t, C)
    PROVE  s \o t \in Text /\ Free(s \o t, C)
BY DEF Text, Free

\* Concatenation of texts is associative.
LEMMA ConcatText ==
    ASSUME NEW s \in Text, NEW t \in Text, NEW u \in Text
    PROVE  (s \o t) \o u = s \o (t \o u)
BY SMTT(30), ConcatAssociative DEF Text

\* Texts of at most two tokens, over any alphabet first.
LEMMA ShortSeqs ==
    ASSUME NEW S, NEW c \in S, NEW d \in S
    PROVE  /\ <<>> \in Seq(S) /\ <<c>> \in Seq(S) /\ <<c, d>> \in Seq(S)
           /\ DOMAIN <<c>> = {1} /\ <<c>>[1] = c
           /\ DOMAIN <<c, d>> = {1, 2} /\ <<c, d>>[1] = c /\ <<c, d>>[2] = d
           /\ <<c>> \o <<d>> = <<c, d>>
<1>1. /\ <<>> \in Seq(S) /\ <<c>> \in Seq(S) /\ <<d>> \in Seq(S) /\ <<c, d>> \in Seq(S)
      /\ <<c>>[1] = c /\ <<c, d>>[1] = c /\ <<c, d>>[2] = d
      /\ Len(<<c, d>>) = 2 /\ DOMAIN <<c>> = {1}
    OBVIOUS
<1>2. DOMAIN <<c, d>> = {1, 2}
    BY <1>1
<1>3. /\ <<c>> \o <<d>> \in Seq(S) /\ Len(<<c>> \o <<d>>) = 2
      /\ (<<c>> \o <<d>>)[1] = c /\ (<<c>> \o <<d>>)[2] = d
    BY <1>1, ConcatProperties
<1>4. \A i \in 1..2 : (<<c>> \o <<d>>)[i] = <<c, d>>[i]
    BY <1>1, <1>3
<1>5. <<c>> \o <<d>> = <<c, d>>
    BY Zenon, <1>1, <1>3, <1>4, SeqEqual
<1>. QED
    BY Zenon, <1>1, <1>2, <1>5

\* One and two tokens make a text, free of the delimiters they are not.
LEMMA ShortTexts ==
    ASSUME NEW c \in Tokens, NEW d \in Tokens, NEW C, c \notin C, d \notin C
    PROVE  /\ <<>> \in Text /\ Free(<<>>, C)
           /\ <<c>> \in Text /\ Free(<<c>>, C)
           /\ <<c, d>> \in Text /\ Free(<<c, d>>, C) /\ <<c>> \o <<d>> = <<c, d>>
<1>1. /\ <<>> \in Text /\ <<c>> \in Text /\ <<c, d>> \in Text /\ <<c>> \o <<d>> = <<c, d>>
      /\ DOMAIN <<c>> = {1} /\ <<c>>[1] = c
      /\ DOMAIN <<c, d>> = {1, 2} /\ <<c, d>>[1] = c /\ <<c, d>>[2] = d
    BY ShortSeqs DEF Text
<1>2. Free(<<>>, C)
    BY DEF Free
<1>3. Free(<<c>>, C) /\ Free(<<c, d>>, C)
    BY Zenon, <1>1 DEF Free
<1>. QED
    BY Zenon, <1>1, <1>2, <1>3

\* The text of the port, after its colon.
PortText(w) == IF w.port = <<>> THEN <<>> ELSE <<":">> \o w.port[1]
PortGiven(w) == w.port # <<>> /\ w.port[1] # <<>>

\* A port is nothing, a colon, or a colon and a numeral.
LEMMA PortTextForm ==
    ASSUME NEW w, PartsForm(w)
    PROVE  /\ PortText(w) \in Text
           /\ ~PortGiven(w) => PortText(w) \in {<<>>, <<":">>}
           /\ PortGiven(w) => \E d \in DOMAIN PortNo : PortText(w) = <<":", d>> /\ w.port = <<<<d>>>>
           /\ Free(PortText(w), {"/", "?", "#", "@", "]"})
<1> DEFINE C == {"/", "?", "#", "@", "]"}
<1>0. ":" \in Tokens /\ ":" \notin C
    BY DEF Tokens, Delimiters, Blanks
<1>1. DOMAIN PortNo \subseteq STRING \ Delimiters
    BY UrlAssumption
<1>2. CASE w.port = <<>>
    <2>1. PortText(w) = <<>> /\ ~PortGiven(w)
        BY <1>2 DEF PortText, PortGiven
    <2>2. <<>> \in Text /\ Free(<<>>, C)
        BY DEF Text, Free
    <2>. QED
        BY <2>1, <2>2
<1>3. CASE w.port = <<<<>>>>
    <2>1. w.port # <<>> /\ w.port[1] = <<>>
        BY <1>3
    <2>2. PortText(w) = <<":">> /\ ~PortGiven(w)
        BY <2>1 DEF PortText, PortGiven
    <2>3. <<":">> \in Text /\ Free(<<":">>, C)
        BY Zenon, <1>0, ShortTexts
    <2>. QED
        BY <2>2, <2>3
<1>4. ASSUME NEW d \in DOMAIN PortNo, w.port = <<<<d>>>>
      PROVE  /\ PortText(w) \in Text /\ PortText(w) = <<":", d>> /\ PortGiven(w)
             /\ Free(PortText(w), C)
    <2>1. w.port # <<>> /\ w.port[1] = <<d>> /\ w.port[1] # <<>>
        BY <1>4
    <2>2. d \in Tokens /\ d \notin C
        BY <1>1 DEF Delimiters, Blanks, Tokens
    <2>3. <<":", d>> \in Text /\ Free(<<":", d>>, C) /\ <<":">> \o <<d>> = <<":", d>>
        BY Zenon, <1>0, <2>2, ShortTexts
    <2>4. PortText(w) = <<":", d>> /\ PortGiven(w)
        BY Zenon, <2>1, <2>3 DEF PortText, PortGiven
    <2>. QED
        BY <2>3, <2>4
<1>. QED
    BY <1>2, <1>3, <1>4 DEF PartsForm

\* A sequence of strings is a text.
LEMMA TokenTexts == \A s \in Seq(STRING) : s \in Text
BY SeqMonotonic DEF Text, Tokens

\* A host has no delimiter that ends the authority or the userinfo; it has neither a
\* bracket nor a colon, or ends with a bracket.
LEMMA HostForms ==
    ASSUME NEW w, PartsForm(w)
    PROVE  /\ w.host \in Text
           /\ Free(w.host, {"/", "?", "#", "@"})
           /\ \/ Free(w.host, {"]", ":"})
              \/ w.host # <<>> /\ w.host[Len(w.host)] = "]"
<1>1. w.host \in Text /\ HostForm(w.host)
    BY TokenTexts DEF PartsForm
<1>2. CASE Free(w.host, Delimiters)
    BY <1>1, <1>2 DEF Free, Delimiters, Blanks
<1>3. CASE ~Free(w.host, Delimiters)
    <2>1. /\ Len(w.host) > 2 /\ w.host[1] = "[" /\ w.host[Len(w.host)] = "]"
          /\ \A i \in 2..(Len(w.host) - 1) : w.host[i] \notin Delimiters \ {":"}
        BY <1>1, <1>3 DEF HostForm
    <2>2. DOMAIN w.host = 1..Len(w.host) /\ Len(w.host) \in Nat /\ w.host # <<>>
        BY <1>1, <2>1 DEF Text
    <2>3. ASSUME NEW i \in DOMAIN w.host PROVE w.host[i] \notin {"/", "?", "#", "@"}
        <3>1. i = 1 \/ i = Len(w.host) \/ i \in 2..(Len(w.host) - 1)
            BY <2>2
        <3>. QED
            BY <2>1, <3>1 DEF Delimiters, Blanks
    <2>. QED
        BY <1>1, <2>1, <2>2, <2>3 DEF Free
<1>. QED
    BY <1>2, <1>3

\* Userinfo is nothing, or ends with an "@", and never ends the authority.
LEMMA UserInfoForm ==
    ASSUME NEW w, PartsForm(w)
    PROVE  /\ UserInfo(w) \in Text /\ (UserInfo(w) # <<>> => UserInfo(w)[Len(UserInfo(w))] = "@")
           /\ Free(UserInfo(w), {"/", "?", "#"})
<1> DEFINE C == {"/", "?", "#"}
           p == IF w.pass = <<>> THEN <<>> ELSE <<":">> \o w.pass[1]
           u == w.user \o p
<1>1. w.user \in Text /\ Free(w.user, C)
    BY TokenTexts DEF PartsForm
<1>0. ":" \in Tokens /\ ":" \notin C /\ "@" \in Tokens /\ "@" \notin C
    BY DEF Tokens, Delimiters, Blanks
<1>2. /\ <<":">> \in Text /\ Free(<<":">>, C) /\ <<"@">> \in Text /\ Free(<<"@">>, C)
      /\ <<>> \in Text /\ Free(<<>>, C)
    BY Zenon, <1>0, ShortTexts
<1>3. p \in Text /\ Free(p, C)
    <2>1. CASE w.pass = <<>>
        BY <1>2, <2>1
    <2>2. CASE w.pass # <<>>
        <3>1. w.pass[1] \in Text /\ Free(w.pass[1], C)
            BY <2>2, TokenTexts DEF PartsForm
        <3>2. p = <<":">> \o w.pass[1]
            BY <2>2
        <3>. QED
            BY <1>2, <3>1, <3>2, FreeConcat
    <2>. QED
        BY <2>1, <2>2
<1>4. u \in Text /\ Free(u, C)
    BY <1>1, <1>3, FreeConcat
<1> HIDE DEF p, u
<1>5. u \o <<"@">> \in Text /\ Free(u \o <<"@">>, C)
    BY <1>2, <1>4, FreeConcat
<1>6. (u \o <<"@">>)[Len(u \o <<"@">>)] = "@"
    BY <1>4 DEF Text
<1>7. UserInfo(w) = <<>> \/ UserInfo(w) = u \o <<"@">>
    BY Zenon DEF UserInfo, u, p
<1>. QED
    BY Zenon, <1>2, <1>5, <1>6, <1>7

\* What follows the host in the authority: its port, and the host itself if it is a name.
LEMMA HostTailForm ==
    ASSUME NEW w, PartsForm(w)
    PROVE  \E h \in Text : /\ Free(h, {":"})
                           /\ HostTail(UserInfo(w) \o w.host \o PortText(w)) = h \o PortText(w)
<1> DEFINE U == UserInfo(w)  H == w.host  P == PortText(w)
<1>1. /\ H \in Text /\ P \in Text /\ Free(H, {"@"}) /\ Free(P, {"@"}) /\ Free(P, {"]"})
    BY HostForms, PortTextForm DEF Free
<1>2. H \o P \in Text /\ Free(H \o P, {"@"})
    BY <1>1, FreeConcat
<1>3. U \in Text /\ (U # <<>> => U[Len(U)] = "@")
    BY UserInfoForm
<1>4. U \o H \o P = U \o (H \o P)
    BY Zenon, <1>1, <1>3, ConcatText
<1>5. AfterLast(U \o (H \o P), "@") = H \o P
    <2>1. CASE U = <<>>
        <3>1. U \o (H \o P) = H \o P
            BY <1>2, <2>1, ConcatEmptySeq DEF Text
        <3>. QED
            BY Zenon, <1>2, <3>1, AfterLastWhole
    <2>2. CASE U # <<>>
        BY Zenon, <1>2, <1>3, <2>2, AfterLastCut
    <2>. QED
        BY <2>1, <2>2
<1>6. CASE Free(H, {"]", ":"})
    <2>1. Free(H, {"]"}) /\ Free(H, {":"})
        BY <1>6 DEF Free
    <2>2. Free(H \o P, {"]"})
        BY <1>1, <2>1, FreeConcat
    <2>3. AfterLast(H \o P, "]") = H \o P
        BY Zenon, <1>2, <2>2, AfterLastWhole
    <2>. QED
        BY Zenon, <1>1, <1>4, <1>5, <2>1, <2>3 DEF HostTail
<1>7. CASE H # <<>> /\ H[Len(H)] = "]"
    <2>1. AfterLast(H \o P, "]") = P
        BY <1>1, <1>7, AfterLastCut
    <2>2. <<>> \in Text /\ Free(<<>>, {":"}) /\ <<>> \o P = P
        BY <1>1 DEF Text, Free
    <2>. QED
        BY Zenon, <1>4, <1>5, <2>1, <2>2 DEF HostTail
<1>. QED
    BY Zenon, <1>6, <1>7, HostForms

\* The text in two: what comes up to "://", and the rest.
LEMMA JoinedInTwo ==
    ASSUME NEW w, PartsForm(w), w.slashes = 2, w.scheme \in Schemes
    PROVE  \E pre \in Text :
              /\ Len(pre) = 4 /\ pre[1] = w.scheme /\ pre[2] = ":" /\ pre[3] = "/" /\ pre[4] = "/"
              /\ Joined(w) = pre \o (UserInfo(w) \o w.host \o PortText(w) \o w.tail)
<1> DEFINE a == <<w.scheme, ":">>  b == Slashes(2)  pre == a \o b
           U == UserInfo(w)  H == w.host  P == PortText(w)  T == w.tail
<1>1. w.scheme \in Tokens /\ ":" \in Tokens /\ "/" \in Tokens
    BY DEF Tokens, Delimiters, Blanks
<1>2. a \in Text /\ Len(a) = 2 /\ a[1] = w.scheme /\ a[2] = ":"
    BY <1>1, ShortSeqs DEF Text
<1>3. b \in Text /\ Len(b) = 2 /\ b[1] = "/" /\ b[2] = "/"
    BY <1>1 DEF Text, Slashes
<1>4. U \in Text /\ H \in Text /\ P \in Text /\ T \in Text
    BY UserInfoForm, HostForms, PortTextForm, TokenTexts DEF PartsForm
<1>5. Joined(w) = a \o b \o U \o H \o P \o T
    BY DEF Joined, PortText
<1> HIDE DEF a, b, U, H, P, T
<1>6. pre \in Text /\ Len(pre) = 4 /\ pre[1] = w.scheme /\ pre[2] = ":" /\ pre[3] = "/" /\ pre[4] = "/"
    <2>1. /\ pre \in Text /\ Len(pre) = 4
          /\ \A i \in 1..2 : pre[i] = a[i] /\ pre[2 + i] = b[i]
        <3>1. /\ pre \in Text /\ Len(pre) = Len(a) + Len(b) /\ \A i \in 1..Len(a) : pre[i] = a[i]
              /\ \A i \in 1..Len(b) : pre[Len(a) + i] = b[i]
            BY Zenon, <1>2, <1>3, TextConcat
        <3>. QED
            BY <1>2, <1>3, <3>1
    <2>2. pre[1] = a[1] /\ pre[2] = a[2] /\ pre[2 + 1] = b[1] /\ pre[2 + 2] = b[2]
        BY <2>1
    <2>. QED
        BY <1>2, <1>3, <2>1, <2>2
<1> HIDE DEF pre
<1>7. U \o H \in Text /\ U \o H \o P \in Text
    BY <1>4 DEF Text
<1>8. /\ pre \o U \o H = pre \o (U \o H)
      /\ pre \o (U \o H) \o P = pre \o (U \o H \o P)
      /\ pre \o (U \o H \o P) \o T = pre \o (U \o H \o P \o T)
    BY ZenonT(30), <1>4, <1>6, <1>7, ConcatText
<1>9. Joined(w) = pre \o U \o H \o P \o T
    BY <1>5 DEF pre
<1>10. Joined(w) = pre \o (U \o H \o P \o T)
    BY Zenon, <1>8, <1>9
<1>. QED
    BY Zenon, <1>6, <1>10 DEF U, H, P, T

\* The authority ends where the path, query or fragment begins.
LEMMA BeforeCut ==
    ASSUME NEW s \in Text, NEW t \in Text, NEW C, Free(s, C), t # <<>> => t[1] \in C
    PROVE  BeforeFirst(s \o t, C) = s
<1>1. CASE t = <<>>
    <2>1. s \o t = s
        BY <1>1, ConcatEmptySeq DEF Text
    <2>2. split_pos(s, C) = 0
        BY SplitNowhere
    <2>. QED
        BY Zenon, <2>1, <2>2 DEF BeforeFirst
<1>2. CASE t # <<>>
    <2> DEFINE end == split_pos(s \o t, C)
    <2>1. end = Len(s) + 1
        BY <1>2, SplitAtFirst
    <2>2. Len(s) \in Nat
        BY TextConcat
    <2> HIDE DEF end
    <2>3. end # 0 /\ end - 1 = Len(s)
        BY <2>1, <2>2
    <2>4. BeforeFirst(s \o t, C) = SubSeq(s \o t, 1, end - 1)
        BY Zenon, <2>3 DEF BeforeFirst, end
    <2>5. SubSeq(s \o t, 1, Len(s)) = s
        BY LeftPart
    <2>. QED
        BY Zenon, <2>3, <2>4, <2>5
<1>. QED
    BY <1>1, <1>2

\* A port after a text without a colon is found exactly when it has digits.
PortIn(tail) == LET colon == split_pos(tail, {":"})
                IN colon # 0 /\ colon < Len(tail) /\ \A k \in colon + 1..Len(tail) : tail[k] \in Digits

\* This is how has_explicit_port looks for a port in what follows the host.
LEMMA PortFound ==
    ASSUME NEW w, PartsForm(w), NEW h \in Text, Free(h, {":"})
    PROVE  PortIn(h \o PortText(w)) <=> PortGiven(w)
<1> DEFINE P == PortText(w)  tail == h \o P
<1>1. P \in Text /\ Len(h) \in Nat
    BY PortTextForm DEF Text
<1>2. CASE P = <<>>
    <2>1. tail = h /\ split_pos(h, {":"}) = 0
        BY <1>2, SplitNowhere, ConcatEmptySeq DEF Text
    <2>2. ~PortIn(tail)
        BY <2>1 DEF PortIn
    <2>3. ~PortGiven(w)
        <3> SUFFICES ASSUME PortGiven(w) PROVE FALSE
            OBVIOUS
        <3>1. PICK d \in DOMAIN PortNo : P = <<":", d>>
            BY PortTextForm
        <3>. QED
            BY <1>2, <3>1
    <2>. QED
        BY <2>2, <2>3
<1>3. CASE P = <<":">>
    <2>1. P # <<>> /\ P[1] = ":" /\ Len(P) = 1
        BY <1>3
    <2>2. split_pos(tail, {":"}) = Len(h) + 1
        BY <1>1, <2>1, SplitAtFirst
    <2>3. Len(tail) = Len(h) + 1
        BY ZenonT(30), <1>1, <2>1, TextConcat
    <2>4. ~PortIn(tail)
        BY <1>1, <2>2, <2>3 DEF PortIn
    <2>5. ~PortGiven(w)
        <3> SUFFICES ASSUME PortGiven(w) PROVE FALSE
            OBVIOUS
        <3>1. PICK d \in DOMAIN PortNo : P = <<":", d>>
            BY PortTextForm
        <3>. QED
            BY <2>1, <3>1
    <2>. QED
        BY <2>4, <2>5
<1>4. ASSUME NEW d \in DOMAIN PortNo, P = <<":", d>> PROVE PortIn(tail)
    <2>1. P # <<>> /\ P[1] = ":" /\ P[2] = d /\ Len(P) = 2
        BY <1>4
    <2>2. split_pos(tail, {":"}) = Len(h) + 1
        BY <1>1, <2>1, SplitAtFirst
    <2>3. Len(tail) = Len(h) + 2 /\ tail[Len(h) + 2] = d
        <3>1. Len(tail) = Len(h) + Len(P) /\ \A i \in 1..Len(P) : tail[Len(h) + i] = P[i]
            BY Zenon, <1>1, TextConcat
        <3>2. 2 \in 1..Len(P)
            BY <2>1
        <3>. QED
            BY <2>1, <3>1, <3>2
    <2>4. d \in Digits
        BY DEF Digits
    <2>. QED
        BY <1>1, <2>2, <2>3, <2>4 DEF PortIn
<1>. QED
    BY <1>2, <1>3, <1>4, PortTextForm

\* has_explicit_port tells whether a port is written, whatever the userinfo, the
\* host and the path contain.
LEMMA ExplicitPort ==
    ASSUME NEW w, PartsForm(w), w.slashes = 2, w.scheme \in Schemes
    PROVE  has_explicit_port(Joined(w)) <=> PortGiven(w)
<1> DEFINE A == UserInfo(w) \o w.host \o PortText(w)
           raw == Joined(w)
           start == {i \in 1..(Len(raw) - 2) : raw[i] = ":" /\ raw[i + 1] = "/" /\ raw[i + 2] = "/"}
           rest == SubSeq(raw, 5, Len(raw))
           auth == BeforeFirst(rest, {"/", "?", "#"})
<1>1. PICK pre \in Text :
         /\ Len(pre) = 4 /\ pre[1] = w.scheme /\ pre[2] = ":" /\ pre[3] = "/" /\ pre[4] = "/"
         /\ raw = pre \o (A \o w.tail)
    BY Zenon, JoinedInTwo
<1>2. A \in Text /\ Free(A, {"/", "?", "#"})
    <2>1. /\ UserInfo(w) \in Text /\ Free(UserInfo(w), {"/", "?", "#"})
          /\ w.host \in Text /\ Free(w.host, {"/", "?", "#"})
          /\ PortText(w) \in Text /\ Free(PortText(w), {"/", "?", "#"})
        BY UserInfoForm, HostForms, PortTextForm DEF Free
    <2>. QED
        BY <2>1, FreeConcat
<1>3. w.tail \in Text /\ (w.tail # <<>> => w.tail[1] \in {"/", "?", "#"}) /\ w.scheme # ":"
    BY TokenTexts DEF PartsForm, Delimiters, Blanks
<1> HIDE DEF A, raw
<1>4. A \o w.tail \in Text /\ Len(A \o w.tail) \in Nat
    BY <1>2, <1>3 DEF Text
<1>5. Len(raw) = 4 + Len(A \o w.tail) /\ \A i \in 1..4 : raw[i] = pre[i]
    <2>1. /\ Len(raw) = Len(pre) + Len(A \o w.tail)
          /\ \A i \in 1..Len(pre) : raw[i] = pre[i]
        BY Zenon, <1>1, <1>4, TextConcat
    <2>. QED
        BY Zenon, <1>1, <2>1
<1>6. 2 \in start /\ \A j \in start : 2 <= j
    BY <1>1, <1>3, <1>4, <1>5
<1>7. start # {} /\ Min(start) = 2
    <2>1. start \in SUBSET Int
        BY <1>4, <1>5
    <2> HIDE DEF start
    <2>2. Min(start) = 2
        BY <1>6, <2>1, Least DEF Min
    <2>. QED
        BY Zenon, <1>6, <2>2
<1>8. rest = A \o w.tail
    <2>1. SubSeq(raw, Len(pre) + 1, Len(raw)) = A \o w.tail
        BY Zenon, <1>1, <1>4, RightPart
    <2>2. Len(pre) + 1 = 5
        BY <1>1
    <2>. QED
        BY Zenon, <2>1, <2>2
<1>9. auth = A
    BY Zenon, <1>2, <1>3, <1>8, BeforeCut
<1> HIDE DEF start
<1>10. has_explicit_port(raw) <=> PortIn(HostTail(A))
    <2>1. 2 + 3 = 5
        OBVIOUS
    <2>. QED
        BY Zenon, <1>7, <1>9, <2>1 DEF has_explicit_port, PortIn, start
<1>11. PICK h \in Text : Free(h, {":"}) /\ HostTail(A) = h \o PortText(w)
    BY HostTailForm DEF A
<1>. QED
    BY Zenon, <1>10, <1>11, PortFound DEF raw

\* A port url::Url drops, since it is the scheme's own, is the one PortOrKnown gives.
LEMMA WrittenPort ==
    ASSUME NEW w, NEW d \in DOMAIN PortNo, w.port = <<<<d>>>>
    PROVE  /\ PortOrKnown(w) = <<PortNo[d]>>
           /\ UrlPort(w) \in {<<>>, <<PortNo[d]>>}
<1>1. w.port # <<>> /\ w.port[1] # <<>> /\ w.port[1][1] = d
    OBVIOUS
<1>2. UrlPort(w) = IF <<PortNo[d]>> = KnownPort(w.scheme) THEN <<>> ELSE <<PortNo[d]>>
    BY Zenon, <1>1 DEF UrlPort
<1>3. <<PortNo[d]>> # <<>>
    OBVIOUS
<1>. QED
    BY Zenon, <1>2, <1>3 DEF PortOrKnown

\* Where no port is written, url::Url has none.
LEMMA NoWrittenPort ==
    ASSUME NEW w, ~PortGiven(w)
    PROVE  UrlPort(w) = <<>>
BY Zenon DEF PortGiven, UrlPort

\* A port url::Url reports is the written one, and resolve_port takes it.
LEMMA ReportedPort ==
    ASSUME NEW w, UrlPort(w) # <<>>
    PROVE  PortGiven(w) /\ resolve_port(w) = <<PortNo[w.port[1][1]]>>
<1>1. PortGiven(w)
    BY Zenon, NoWrittenPort
<1>2. UrlPort(w) = <<PortNo[w.port[1][1]]>>
    BY Zenon, <1>1 DEF UrlPort, PortGiven
<1>. QED
    BY Zenon, <1>1, <1>2 DEF resolve_port

\* In a verbatim text, resolve_port gives the written port, or the default of the scheme.
LEMMA ResolvedPort ==
    ASSUME NEW w, PartsForm(w), w.slashes = 2, w.text = Joined(w), w.scheme \in Schemes
    PROVE  resolve_port(w) = IF PortGiven(w) THEN <<PortNo[w.port[1][1]]>>
                             ELSE DefaultPort(w.scheme)
<1>1. CASE PortGiven(w)
    <2>1. PICK d \in DOMAIN PortNo : w.port = <<<<d>>>>
        BY <1>1, PortTextForm
    <2>2. w.port[1][1] = d
        BY <2>1
    <2>3. has_explicit_port(w.text)
        BY Zenon, <1>1, ExplicitPort
    <2>4. resolve_port(w) = <<PortNo[d]>>
        BY Zenon, <2>1, <2>3, WrittenPort DEF resolve_port
    <2>. QED
        BY Zenon, <1>1, <2>2, <2>4
<1>2. CASE ~PortGiven(w)
    <2>1. ~has_explicit_port(w.text) /\ UrlPort(w) = <<>>
        BY Zenon, <1>2, ExplicitPort, NoWrittenPort
    <2>2. resolve_port(w) = DefaultPort(w.scheme)
        BY Zenon, <2>1 DEF resolve_port
    <2>. QED
        BY Zenon, <1>2, <2>2
<1>. QED
    BY <1>1, <1>2

\* Whatever the number of slashes, the port in use is one a numeral stands for.
LEMMA PortIsDecimal ==
    ASSUME NEW w, PartsForm(w), UrlParses(w), w.scheme \in Schemes, resolve_port(w) # <<>>,
           UrlHost(w) # <<>>
    PROVE  LET d == ToDecimal(resolve_port(w)[1])
           IN  d \in DOMAIN PortNo /\ PortNo[d] = resolve_port(w)[1] /\ PortNo[d] < 2 ^ 16
<1> DEFINE n == resolve_port(w)[1]
<1>0. HasAuthority(w)
    BY DEF UrlHost
<1>1. \E d \in DOMAIN PortNo : PortNo[d] = n /\ n < 2 ^ 16
    <2>1. ASSUME NEW k \in {80, 443, 1080, 8080}, n = k PROVE \E d \in DOMAIN PortNo : PortNo[d] = n /\ n < 2 ^ 16
        BY <2>1, UrlAssumption
    <2>2. CASE PortGiven(w)
        <3>1. PICK d \in DOMAIN PortNo : w.port = <<<<d>>>>
            BY <2>2, PortTextForm
        <3>2. w.port # <<>> /\ w.port[1] # <<>> /\ w.port[1][1] = d
            BY <3>1
        <3>3. PortNo[d] < 2 ^ 16
            BY <1>0, <3>2 DEF UrlParses
        <3>4. resolve_port(w) = <<PortNo[d]>> \/ resolve_port(w) \in {<<1080>>, <<8080>>, <<443>>}
            <4>1. UrlPort(w) \in {<<>>, <<PortNo[d]>>} /\ PortOrKnown(w) = <<PortNo[d]>>
                BY <3>1, WrittenPort
            <4>. QED
                BY <4>1 DEF resolve_port, DefaultPort, Schemes
        <3>. QED
            BY <2>1, <3>3, <3>4
    <2>3. CASE ~PortGiven(w)
        <3>1. UrlPort(w) = <<>>
            BY <2>3, NoWrittenPort
        <3>2. resolve_port(w) \in {<<80>>, <<443>>, <<1080>>, <<8080>>}
            BY <3>1 DEF resolve_port, DefaultPort, Schemes, PortOrKnown, KnownPort
        <3>. QED
            BY <2>1, <3>2
    <2>. QED
        BY <2>2, <2>3
<1> HIDE DEF n
<1>2. ToDecimal(n) \in DOMAIN PortNo /\ PortNo[ToDecimal(n)] = n
    BY <1>1 DEF ToDecimal
<1>. QED
    BY <1>1, <1>2 DEF n

\* An IPv6 literal's address, without its brackets.
LEMMA Bracketed ==
    ASSUME NEW h \in Text, Len(h) > 2, h[1] = "[", h[Len(h)] = "]"
    PROVE  \E inner \in Text : /\ unbracket(h) = inner /\ Len(inner) = Len(h) - 2
                               /\ \A i \in 1..Len(inner) : inner[i] = h[i + 1]
                               /\ <<"[">> \o inner \o <<"]">> = h
<1> DEFINE inner == SubSeq(h, 2, Len(h) - 1)  l == <<"[">>  r == <<"]">>
<1>0. Len(h) \in Nat
    BY DEF Text
<1>2. inner \in Text /\ Len(inner) = Len(h) - 2 /\ \A i \in 1..Len(inner) : inner[i] = h[i + 1]
    BY <1>0 DEF Text
<1>3. unbracket(h) = inner
    BY <1>0 DEF unbracket
<1> HIDE DEF inner
<1>4. "[" \in Tokens /\ "]" \in Tokens
    BY DEF Tokens, Delimiters, Blanks
<1>5. /\ l \in Text /\ Len(l) = 1 /\ l[1] = "[" /\ r \in Text /\ Len(r) = 1 /\ r[1] = "]"
    BY <1>4, ShortSeqs DEF Text
<1> HIDE DEF l, r
<1>6. /\ l \o inner \in Text /\ Len(l \o inner) = 1 + Len(inner) /\ (l \o inner)[1] = l[1]
      /\ \A i \in 1..Len(inner) : (l \o inner)[1 + i] = inner[i]
    <2>1. /\ l \o inner \in Text /\ Len(l \o inner) = Len(l) + Len(inner)
          /\ \A i \in 1..Len(l) : (l \o inner)[i] = l[i]
          /\ \A i \in 1..Len(inner) : (l \o inner)[Len(l) + i] = inner[i]
        BY Zenon, <1>2, <1>5, TextConcat
    <2>2. 1 \in 1..1
        OBVIOUS
    <2>. QED
        BY Zenon, <1>5, <2>1, <2>2
<1>7. /\ (l \o inner) \o r \in Text /\ Len((l \o inner) \o r) = Len(l \o inner) + 1
      /\ \A i \in 1..Len(l \o inner) : ((l \o inner) \o r)[i] = (l \o inner)[i]
      /\ ((l \o inner) \o r)[Len(l \o inner) + 1] = r[1]
    <2>1. /\ (l \o inner) \o r \in Text /\ Len((l \o inner) \o r) = Len(l \o inner) + Len(r)
          /\ \A i \in 1..Len(l \o inner) : ((l \o inner) \o r)[i] = (l \o inner)[i]
          /\ \A i \in 1..Len(r) : ((l \o inner) \o r)[Len(l \o inner) + i] = r[i]
        BY Zenon, <1>5, <1>6, TextConcat
    <2>2. 1 \in 1..1
        OBVIOUS
    <2>. QED
        BY Zenon, <1>5, <2>1, <2>2
<1> DEFINE b == (l \o inner) \o r
<1> HIDE DEF b
<1>8. b \in Text /\ Len(b) = Len(h)
    BY <1>0, <1>2, <1>6, <1>7 DEF b
<1>9. ASSUME NEW i \in 1..Len(h) PROVE b[i] = h[i]
    <2>1. CASE i = 1
        BY <1>0, <1>2, <1>5, <1>6, <1>7, <2>1 DEF b
    <2>2. CASE i = Len(h)
        BY <1>0, <1>2, <1>5, <1>6, <1>7, <2>2 DEF b
    <2>3. CASE i # 1 /\ i # Len(h)
        <3>1. i - 1 \in 1..Len(inner) /\ i \in 1..Len(l \o inner) /\ 1 + (i - 1) = i /\ (i - 1) + 1 = i
            BY <1>0, <1>2, <1>6, <2>3
        <3>2. b[i] = (l \o inner)[i] /\ (l \o inner)[1 + (i - 1)] = inner[i - 1]
              /\ inner[i - 1] = h[(i - 1) + 1]
            BY Zenon, <1>2, <1>6, <1>7, <3>1 DEF b
        <3>. QED
            BY Zenon, <3>1, <3>2
    <2>. QED
        BY <2>1, <2>2, <2>3
<1>10. b = h
    BY <1>8, <1>9, SeqEqual DEF Text
<1>. QED
    BY Zenon, <1>2, <1>3, <1>10 DEF b, l, r

\* Sequences of three and four tokens.
LEMMA ThreeSeq ==
    ASSUME NEW S, NEW c \in S, NEW d \in S, NEW e \in S
    PROVE  <<c>> \o <<d, e>> = <<c, d, e>>
<1>1. /\ <<c>> \in Seq(S) /\ <<d, e>> \in Seq(S) /\ <<c, d, e>> \in Seq(S)
      /\ <<c>>[1] = c /\ <<d, e>>[1] = d /\ <<d, e>>[2] = e /\ Len(<<c>>) = 1 /\ Len(<<d, e>>) = 2
      /\ Len(<<c, d, e>>) = 3 /\ <<c, d, e>>[1] = c /\ <<c, d, e>>[2] = d /\ <<c, d, e>>[3] = e
    OBVIOUS
<1>2. /\ <<c>> \o <<d, e>> \in Seq(S) /\ Len(<<c>> \o <<d, e>>) = 3
      /\ (<<c>> \o <<d, e>>)[1] = c /\ (<<c>> \o <<d, e>>)[2] = d /\ (<<c>> \o <<d, e>>)[3] = e
    BY <1>1, ConcatProperties
<1>3. \A i \in 1..3 : (<<c>> \o <<d, e>>)[i] = <<c, d, e>>[i]
    BY <1>1, <1>2
<1>. QED
    BY Zenon, <1>1, <1>2, <1>3, SeqEqual

\* The address is written with the host as it was, brackets included.
LEMMA AuthorityIsHost ==
    ASSUME NEW w, PartsForm(w), w.host # <<>>, NEW n, ToDecimal(n) \in Tokens
    PROVE  authority(unbracket(w.host), n) = w.host \o <<":", ToDecimal(n)>>
<1> DEFINE h == w.host  d == ToDecimal(n)
<1>1. h \in Text /\ HostForm(h) /\ Len(h) \in Nat /\ Len(h) >= 1 /\ DOMAIN h = 1..Len(h)
    BY TokenTexts DEF PartsForm, Text
<1>2. CASE Free(h, Delimiters)
    <2>1. \A i \in 1..Len(h) : h[i] # "[" /\ h[i] # ":"
        BY <1>1, <1>2 DEF Free, Delimiters, Blanks
    <2>2. h[1] # "["
        BY <1>1, <2>1
    <2>3. unbracket(h) = h
        BY Zenon, <2>2 DEF unbracket
    <2>4. ~\E i \in DOMAIN h : h[i] = ":"
        BY <1>1, <2>1
    <2>. QED
        BY Zenon, <2>3, <2>4 DEF authority
<1>3. CASE ~Free(h, Delimiters)
    <2>1. /\ Len(h) > 2 /\ h[1] = "[" /\ h[Len(h)] = "]"
          /\ \E i \in 2..(Len(h) - 1) : h[i] = ":"
        BY <1>1, <1>3 DEF HostForm
    <2>2. PICK inner \in Text : /\ unbracket(h) = inner /\ Len(inner) = Len(h) - 2
                                /\ \A i \in 1..Len(inner) : inner[i] = h[i + 1]
                                /\ <<"[">> \o inner \o <<"]">> = h
        BY SMTT(30), <1>1, <2>1, Bracketed
    <2>3. PICK i \in 2..(Len(h) - 1) : h[i] = ":"
        BY <2>1
    <2>4. i - 1 \in 1..Len(inner) /\ (i - 1) + 1 = i
        BY <1>1, <2>2, <2>3
    <2>5. inner[i - 1] = ":"
        BY Zenon, <2>2, <2>3, <2>4
    <2>6. \E j \in DOMAIN inner : inner[j] = ":"
        BY <2>2, <2>4, <2>5 DEF Text
    <2>7. authority(inner, n) = <<"[">> \o inner \o <<"]", ":", d>>
        BY Zenon, <2>6 DEF authority
    <2>8. "[" \in Tokens /\ "]" \in Tokens /\ ":" \in Tokens
        BY DEF Tokens, Delimiters, Blanks
    <2>9. /\ <<"[">> \in Text /\ <<"]">> \in Text /\ <<":", d>> \in Text
          /\ <<"]">> \o <<":", d>> = <<"]", ":", d>>
        BY <2>8, ShortSeqs, ThreeSeq DEF Text
    <2>10. <<"[">> \o inner \in Text
        BY Zenon, <2>2, <2>9, TextConcat
    <2>11. (<<"[">> \o inner) \o (<<"]">> \o <<":", d>>) = ((<<"[">> \o inner) \o <<"]">>) \o <<":", d>>
        BY Zenon, <2>9, <2>10, ConcatText
    <2>. QED
        BY Zenon, <2>2, <2>7, <2>9, <2>11
<1>. QED
    BY SMTT(30), <1>2, <1>3

\* What a displayed address reads back as: the host, brackets included, and the port.
Shown(scheme, host, d) == [text |-> <<scheme, ":", "/", "/">> \o (host \o <<":", d>>),
                           scheme |-> scheme, slashes |-> 2, user |-> <<>>, pass |-> <<>>,
                           host |-> host, port |-> <<<<d>>>>, tail |-> <<>>]

\* A sequence of four tokens starts with the first.
LEMMA FourSeq ==
    ASSUME NEW c \in Tokens, NEW d \in Tokens, NEW e \in Tokens, NEW f \in Tokens
    PROVE  /\ <<c, d, e, f>> \in Text /\ Len(<<c, d, e, f>>) = 4 /\ <<c, d, e, f>>[1] = c
BY DEF Text

\* It is two tokens after two.
LEMMA TwoAndTwo ==
    ASSUME NEW c \in Tokens, NEW d \in Tokens, NEW e \in Tokens, NEW f \in Tokens
    PROVE  <<c, d>> \o <<e, f>> = <<c, d, e, f>>
<1> DEFINE a == <<c, d>>  b == <<e, f>>  q == <<c, d, e, f>>
<1>1. /\ a \in Text /\ Len(a) = 2 /\ a[1] = c /\ a[2] = d
      /\ b \in Text /\ Len(b) = 2 /\ b[1] = e /\ b[2] = f
    BY DEF Text
<1>2. q \in Text /\ Len(q) = 4 /\ q[1] = c /\ q[2] = d /\ q[3] = e /\ q[4] = f
    BY DEF Text
<1> HIDE DEF a, b, q
<1>3. /\ a \o b \in Text /\ Len(a \o b) = 4
      /\ (a \o b)[1] = c /\ (a \o b)[2] = d /\ (a \o b)[3] = e /\ (a \o b)[4] = f
    <2>1. /\ a \o b \in Text /\ Len(a \o b) = Len(a) + Len(b)
          /\ \A i \in 1..Len(a) : (a \o b)[i] = a[i]
          /\ \A i \in 1..Len(b) : (a \o b)[Len(a) + i] = b[i]
        BY Zenon, <1>1, TextConcat
    <2>2. (a \o b)[1] = a[1] /\ (a \o b)[2] = a[2] /\ (a \o b)[2 + 1] = b[1] /\ (a \o b)[2 + 2] = b[2]
        BY <1>1, <2>1
    <2>. QED
        BY <1>1, <2>1, <2>2
<1>4. \A i \in 1..4 : (a \o b)[i] = q[i]
    BY <1>2, <1>3
<1>5. a \o b = q
    BY Zenon, <1>2, <1>3, <1>4, SeqEqual DEF Text
<1>. QED
    BY Zenon, <1>5 DEF a, b, q

\* url::Url takes that address apart again.
LEMMA ShownReadsBack ==
    ASSUME NEW w, PartsForm(w), w.host # <<>>, NEW scheme \in Schemes, NEW d \in Tokens
    PROVE  ReadBack(<<scheme, ":", "/", "/">> \o (w.host \o <<":", d>>)) = Shown(scheme, w.host, d)
<1> DEFINE h == w.host  p == <<":", d>>  a == h \o p
           pre == <<scheme, ":", "/", "/">>  text == pre \o a
           end == IF a[1] = "[" THEN split_pos(a, {"]"}) ELSE split_pos(a, {":"}) - 1
<1>1. h \in Text /\ HostForm(h) /\ Len(h) \in Nat /\ Len(h) >= 1 /\ DOMAIN h = 1..Len(h)
    BY TokenTexts DEF PartsForm, Text
<1>2. scheme \in Tokens /\ ":" \in Tokens /\ "/" \in Tokens
    BY DEF Tokens, Delimiters, Blanks, Schemes
<1>3. p \in Text /\ Len(p) = 2 /\ p[1] = ":" /\ p[2] = d /\ <<d>> \in Text /\ <<":">> \in Text
      /\ p = <<":">> \o <<d>> /\ Len(<<":">>) = 1
    BY <1>2, ShortSeqs DEF Text
<1>4. pre \in Text /\ Len(pre) = 4 /\ pre[1] = scheme
    BY <1>2, FourSeq
<1> HIDE DEF h, p, pre
<1>5. /\ a \in Text /\ Len(a) = Len(h) + Len(p) /\ \A i \in 1..Len(h) : a[i] = h[i]
      /\ \A i \in 1..Len(p) : a[Len(h) + i] = p[i]
    BY Zenon, <1>1, <1>3, TextConcat
<1>6. Len(a) = Len(h) + 2 /\ a[Len(h) + 1] = ":"
    <2>1. 1 \in 1..2
        OBVIOUS
    <2>. QED
        BY Zenon, <1>3, <1>5, <2>1
<1>7. text[1] = scheme /\ SubSeq(text, 5, Len(text)) = a
    <2>1. 1 \in 1..4 /\ 4 + 1 = 5
        OBVIOUS
    <2>2. \A i \in 1..Len(pre) : text[i] = pre[i]
        BY Zenon, <1>4, <1>5, TextConcat
    <2>3. SubSeq(text, Len(pre) + 1, Len(text)) = a
        BY Zenon, <1>4, <1>5, RightPart
    <2>. QED
        BY Zenon, <1>4, <2>1, <2>2, <2>3
<1> HIDE DEF a
<1>8. a[1] = h[1]
    BY <1>1, <1>5
<1>9. end = Len(h)
    <2>1. CASE Free(h, Delimiters)
        <3>1. \A i \in 1..Len(h) : h[i] # "[" /\ h[i] # ":"
            BY <1>1, <2>1 DEF Free, Delimiters, Blanks
        <3>2. a[1] # "["
            BY <1>1, <1>8, <3>1
        <3>3. split_pos(a, {":"}) = Len(h) + 1
            <4>1. Len(h) + 1 \in 1..Len(a) /\ (Len(h) + 1) - 1 = Len(h)
                BY <1>1, <1>6
            <4>2. \A i \in 1..((Len(h) + 1) - 1) : a[i] \notin {":"}
                BY <1>5, <3>1, <4>1
            <4>. QED
                BY ZenonT(30), <1>5, <1>6, <4>1, <4>2, SplitAtPlace
        <3>. QED
            BY <1>1, <3>2, <3>3
    <2>2. CASE ~Free(h, Delimiters)
        <3>1. /\ Len(h) > 2 /\ h[1] = "[" /\ h[Len(h)] = "]"
              /\ \A i \in 2..(Len(h) - 1) : h[i] \notin Delimiters \ {":"}
            BY <1>1, <2>2 DEF HostForm
        <3>2. split_pos(a, {"]"}) = Len(h)
            <4>1. Len(h) \in 1..Len(a) /\ a[Len(h)] \in {"]"}
                BY <1>1, <1>5, <1>6, <3>1
            <4>2. ASSUME NEW i \in 1..(Len(h) - 1) PROVE a[i] \notin {"]"}
                <5>1. i \in 1..Len(h) /\ (i = 1 \/ i \in 2..(Len(h) - 1))
                    BY <1>1
                <5>2. a[i] = h[i]
                    BY <1>5, <5>1
                <5>. QED
                    BY <3>1, <5>1, <5>2 DEF Delimiters, Blanks
            <4>. QED
                BY Zenon, <1>5, <4>1, <4>2, SplitAtPlace
        <3>. QED
            BY <1>8, <3>1, <3>2
    <2>. QED
        BY <2>1, <2>2
<1> HIDE DEF end
<1>10. SubSeq(a, 1, end) = h
    BY Zenon, <1>1, <1>3, <1>9, LeftPart DEF a
<1>11. SubSeq(a, end + 2, Len(a)) = <<d>>
    <2> DEFINE c == <<":">>  q == <<d>>
    <2>0. c \in Text /\ q \in Text /\ p = c \o q /\ Len(c) = 1
        BY Zenon, <1>3
    <2> HIDE DEF c, q
    <2>1. a = (h \o c) \o q
        BY Zenon, <1>1, <2>0, ConcatText DEF a
    <2>2. h \o c \in Text /\ Len(h \o c) = Len(h) + Len(c)
        BY Zenon, <1>1, <2>0, TextConcat
    <2>3. SubSeq(a, Len(h \o c) + 1, Len(a)) = q
        BY Zenon, <2>0, <2>1, <2>2, RightPart
    <2>4. end + 2 = Len(h \o c) + 1
        BY <1>1, <1>9, <2>0, <2>2
    <2>. QED
        BY Zenon, <2>3, <2>4 DEF q
<1>12. ReadBack(text) = [text |-> text, scheme |-> text[1], slashes |-> 2, user |-> <<>>, pass |-> <<>>,
            host |-> SubSeq(a, 1, end), port |-> <<SubSeq(a, end + 2, Len(a))>>, tail |-> <<>>]
    BY Zenon, <1>7 DEF ReadBack, end
<1>. QED
    BY Zenon, <1>7, <1>10, <1>11, <1>12 DEF Shown, text, pre, a, p, h

\* It is a URL of the form a user writes.
LEMMA ShownForm ==
    ASSUME NEW w, PartsForm(w), NEW scheme \in Schemes, NEW d \in DOMAIN PortNo
    PROVE  LET v == Shown(scheme, w.host, d)
           IN  /\ PartsForm(v) /\ v.scheme = scheme /\ v.slashes = 2 /\ v.host = w.host
               /\ v.user = <<>> /\ v.pass = <<>> /\ v.port = <<<<d>>>> /\ v.text = Joined(v)
<1> DEFINE v == Shown(scheme, w.host, d)  h == w.host  p == <<":", d>>
           pre == <<scheme, ":", "/", "/">>  t == pre \o (h \o p)
<1>1. /\ v.scheme = scheme /\ v.slashes = 2 /\ v.host = h /\ v.user = <<>> /\ v.pass = <<>>
      /\ v.port = <<<<d>>>> /\ v.tail = <<>> /\ v.text = t
    <2> HIDE DEF t
    <2>1. v = [text |-> t, scheme |-> scheme, slashes |-> 2, user |-> <<>>, pass |-> <<>>,
               host |-> h, port |-> <<<<d>>>>, tail |-> <<>>]
        BY Zenon DEF Shown, t
    <2>. QED
        BY <2>1
<1>2. h \in Seq(STRING) /\ HostForm(h) /\ h \in Text
    BY TokenTexts DEF PartsForm
<1> HIDE DEF v
<1>3. <<>> \in Seq(STRING) /\ Free(<<>>, {"/", "?", "#"})
    BY DEF Free
<1>4. 2 \in Nat /\ scheme \notin Delimiters
    BY DEF Schemes, Delimiters, Blanks
<1>5. PartsForm(v)
    BY Zenon, <1>1, <1>2, <1>3, <1>4 DEF PartsForm
<1>6. v.text = Joined(v)
    <2>1. scheme \in Tokens /\ ":" \in Tokens /\ "/" \in Tokens /\ d \in Tokens
        BY UrlAssumption DEF Tokens, Delimiters, Blanks, Schemes
    <2>2. <<scheme, ":">> \o Slashes(2) = pre
        <3>1. Slashes(2) = <<"/", "/">>
            BY DEF Slashes
        <3>2. <<scheme, ":">> \o <<"/", "/">> = pre
            BY <2>1, TwoAndTwo
        <3>. QED
            BY Zenon, <3>1, <3>2
    <2>3. pre \in Text /\ p \in Text /\ <<":">> \o <<d>> = p
        BY <2>1, FourSeq, ShortSeqs DEF Text
    <2>4. v.port # <<>> /\ v.port[1] = <<d>>
        BY <1>1
    <2>5. UserInfo(v) = <<>>
        BY Zenon, <1>1 DEF UserInfo
    <2> HIDE DEF pre, p, h
    <2>6. Joined(v) = pre \o <<>> \o h \o p \o <<>>
        BY Zenon, <1>1, <2>2, <2>3, <2>4, <2>5 DEF Joined
    <2>7. pre \o <<>> = pre /\ pre \o h \o p = pre \o (h \o p) /\ pre \o h \o p \in Text
        <3>1. pre \o <<>> = pre
            BY <2>3, ConcatEmptySeq DEF Text
        <3>2. pre \o h \in Text
            BY Zenon, <1>2, <2>3, TextConcat
        <3>3. pre \o h \o p \in Text
            BY Zenon, <2>3, <3>2, TextConcat
        <3>. QED
            BY Zenon, <1>2, <2>3, <3>1, <3>3, ConcatText
    <2>8. (pre \o h \o p) \o <<>> = pre \o h \o p
        BY <2>7, ConcatEmptySeq DEF Text
    <2>. QED
        BY Zenon, <1>1, <2>6, <2>7, <2>8
<1>. QED
    BY Zenon, <1>1, <1>5, <1>6 DEF v, h

\* url::Url gives back an empty name or password as it is.
LEMMA NothingEscaped == UrlUserinfo(<<>>) = <<>>
<1> DEFINE f == [i \in DOMAIN <<>> |->
                    CASE <<>>[i] = "@" -> <<"%", "4", "0">> [] <<>>[i] = "]" -> <<"%", "5", "D">>
                      [] <<>>[i] = ":" -> <<"%", "3", "A">> [] OTHER -> <<<<>>[i]>>]
           upto[i \in 0..Len(f)] == IF i = 0 THEN <<>> ELSE upto[i - 1] \o f[i]
<1>1. UrlUserinfo(<<>>) = Flattened(f)
    BY Zenon DEF UrlUserinfo
<1>2. Len(f) = 0
    OBVIOUS
<1> HIDE DEF f
<1>3. Flattened(f) = upto[Len(f)]
    BY ONLY SMT DEF Flattened, upto
<1>4. upto = [i \in 0..0 |-> <<>>]
    BY SMT, <1>2 DEF upto
<1>. QED
    BY <1>1, <1>2, <1>3, <1>4

\* No bytes decode to no characters: neither loop takes a step.
LEMMA NothingLossy ==
    ASSUME NEW b, Len(b) = 0
    PROVE  from_utf8_lossy(b) = <<>>
<1> DEFINE from[i \in 1..(Len(b) + 1)] ==
               IF i > Len(b) THEN <<>>
               ELSE IF b[i] < 128 THEN <<b[i]>> \o from[i + 1]
               ELSE IF i < Len(b) /\ b[i] = 195 /\ b[i + 1] = 169 THEN <<233>> \o from[i + 2]
               ELSE <<65533>> \o from[i + 1]
<1>1. from_utf8_lossy(b) = from[1]
    BY ONLY SMT DEF from_utf8_lossy, from
<1>2. from = [i \in 1..1 |-> <<>>]
    BY SMT DEF from
<1>. QED
    BY SMT, <1>1, <1>2

\* An empty name or password decodes to itself.
LEMMA NothingDecoded == percent_decode(<<>>) = <<>>
<1> DEFINE b == Chars(<<>>)
           from[i \in 1..(Len(b) + 1)] ==
               IF i > Len(b) THEN <<>>
               ELSE IF /\ b[i] = 37 /\ EscapeFits(b, i)
                       /\ hex_nibble(b[i + 1]) # <<>> /\ hex_nibble(b[i + 2]) # <<>>
               THEN <<hex_nibble(b[i + 1])[1] * 16 + hex_nibble(b[i + 2])[1]>> \o from[i + 3]
               ELSE <<b[i]>> \o from[i + 1]
<1>0. Len(b) = 0
    BY DEF Chars
<1>1. percent_decode(<<>>) = from_utf8_lossy(from[1])
    BY ONLY SMT DEF percent_decode, from, b
<1> HIDE DEF b
<1>2. from = [i \in 1..1 |-> <<>>]
    BY SMT, <1>0 DEF from
<1> HIDE DEF from
<1>3. Len(from[1]) = 0
    BY SMT, <1>2
<1>. QED
    BY Zenon, <1>1, <1>3, NothingLossy

\* The proxy of a scheme, host and port, without credentials.
ProxyNamed(scheme, host, port) ==
    [ok |-> TRUE, kind |-> IF scheme \in {"socks5", "socks5h"} THEN "Socks5" ELSE "HttpConnect",
     host |-> unbracket(host), port |-> port, credentials |-> <<>>, tls_to_proxy |-> scheme = "https"]

\* A displayed address parses to the proxy it names, without credentials.
LEMMA ShownParses ==
    ASSUME NEW w, PartsForm(w), w.host # <<>>, NEW scheme \in Schemes,
           NEW d \in DOMAIN PortNo, PortNo[d] < 2 ^ 16, NEW v, v = Shown(scheme, w.host, d)
    PROVE  /\ UrlParses(v) /\ PortOrKnown(v) = <<PortNo[d]>> /\ v.host = w.host /\ v.scheme = scheme
           /\ parse(v) = ProxyNamed(scheme, w.host, PortNo[d])
<1>1. /\ PartsForm(v) /\ v.scheme = scheme /\ v.slashes = 2 /\ v.host = w.host
      /\ v.user = <<>> /\ v.pass = <<>> /\ v.port = <<<<d>>>> /\ v.text = Joined(v)
    BY Zenon, ShownForm
<1>2. v.port # <<>> /\ v.port[1] # <<>> /\ v.port[1][1] = d
    BY <1>1
<1>3. UrlParses(v)
    BY <1>1, <1>2 DEF UrlParses
<1>4. PortOrKnown(v) = <<PortNo[d]>>
    BY <1>1, WrittenPort
<1>5. resolve_port(v) = <<PortNo[d]>>
    BY Zenon, <1>1, <1>2, ResolvedPort DEF PortGiven
<1>6. UrlHost(v) = <<w.host>>
    BY Zenon, <1>1 DEF UrlHost, HasAuthority
<1>7. /\ UrlHost(v) # <<>> /\ UrlHost(v)[1] = w.host
      /\ resolve_port(v) # <<>> /\ resolve_port(v)[1] = PortNo[d]
    BY <1>5, <1>6
<1>8. Credentials(percent_decode(UrlUserinfo(v.user)),
          percent_decode(UrlUserinfo(IF v.pass = <<>> THEN <<>> ELSE v.pass[1]))) = <<>>
    BY Zenon, <1>1, NothingEscaped, NothingDecoded DEF Credentials
<1>9. scheme \in {"socks5", "socks5h", "http", "https"}
    BY Zenon DEF Schemes
<1>10. parse(v) = ProxyNamed(scheme, w.host, PortNo[d])
    BY Zenon, <1>1, <1>3, <1>7, <1>8, <1>9 DEF parse, ProxyNamed
<1>. QED
    BY Zenon, <1>1, <1>3, <1>4, <1>10

\* What the reached states know of the earlier steps' results.
UrlInv ==
    /\ written \in Written
    /\ config # <<>> => config = <<parse(written)>>
    /\ shown # <<>> => /\ config # <<>> /\ config[1].ok
                       /\ shown = <<parse(ReadBack(display(config[1])))>>
    /\ webRoute # <<>> => /\ config # <<>> /\ config[1].ok
                          /\ webRoute \in {<<client(<<>>)>>, <<client(config)>>}

\* The invariant holds before anything is parsed,
LEMMA UrlInvInitially == UrlInit => UrlInv
BY DEF UrlInit, UrlInv

\* and every step keeps it.
LEMMA UrlInvStep == UrlInv /\ [UrlNext]_urlVars => UrlInv'
<1> SUFFICES ASSUME UrlInv, [UrlNext]_urlVars PROVE UrlInv'
    OBVIOUS
<1>1. CASE Parse
    <2>1. shown = <<>> /\ webRoute = <<>>
        BY Zenon, <1>1 DEF UrlInv, Parse
    <2>. QED
        BY Zenon, <1>1, <2>1 DEF UrlInv, Parse
<1>2. CASE Redisplay
    BY Zenon, <1>2 DEF UrlInv, Redisplay
<1>3. CASE BuildClient
    BY Zenon, <1>3 DEF UrlInv, BuildClient
<1>4. CASE UNCHANGED urlVars
    BY Zenon, <1>4 DEF UrlInv, urlVars
<1>. QED
    BY Zenon, <1>1, <1>2, <1>3, <1>4 DEF UrlNext, UrlDone

\* What parse accepts, and what it then gives.
LEMMA ParseGives ==
    ASSUME NEW w, PartsForm(w), parse(w).ok
    PROVE  LET c == parse(w)
           IN  /\ UrlParses(w) /\ w.scheme \in Schemes /\ resolve_port(w) # <<>> /\ UrlHost(w) # <<>>
               /\ w.host # <<>> /\ c.host = unbracket(w.host) /\ c.port = resolve_port(w)[1]
               /\ c.kind = IF w.scheme \in {"socks5", "socks5h"} THEN "Socks5" ELSE "HttpConnect"
               /\ c.tls_to_proxy = (w.scheme = "https")
               /\ [c EXCEPT !.credentials = <<>>]
                    = [ok |-> TRUE, kind |-> c.kind, host |-> c.host, port |-> c.port,
                       credentials |-> <<>>, tls_to_proxy |-> c.tls_to_proxy]
<1> DEFINE c == parse(w)
           cr == Credentials(percent_decode(UrlUserinfo(w.user)),
                     percent_decode(UrlUserinfo(IF w.pass = <<>> THEN <<>> ELSE w.pass[1])))
           h == unbracket(w.host)  p == resolve_port(w)[1]  t == (w.scheme = "https")  o == TRUE
           k == IF w.scheme \in {"socks5", "socks5h"} THEN "Socks5" ELSE "HttpConnect"
<1>0. \A e : ~Fails(e).ok
    BY DEF Fails
<1>1. UrlParses(w) /\ w.scheme \in Schemes /\ resolve_port(w) # <<>> /\ UrlHost(w) # <<>>
    BY Zenon, <1>0 DEF parse, Schemes
<1>2. HasAuthority(w) /\ w.host # <<>> /\ UrlHost(w)[1] = w.host
    BY <1>1 DEF UrlHost, UrlParses
<1>3. c = [ok |-> o, kind |-> k, host |-> h, port |-> p, credentials |-> cr, tls_to_proxy |-> t]
    BY Zenon, <1>1, <1>2 DEF parse, Schemes
<1> HIDE DEF c, cr, k, h, p, t, o
<1>4. /\ c.kind = k /\ c.host = h /\ c.port = p /\ c.tls_to_proxy = t
      /\ [c EXCEPT !.credentials = <<>>]
           = [ok |-> o, kind |-> k, host |-> h, port |-> p, credentials |-> <<>>, tls_to_proxy |-> t]
    BY <1>3
<1>. QED
    BY Zenon, <1>1, <1>2, <1>4 DEF c, k, h, p, t, o

\* The port a proxy is reached on is the written one, or the proxy default of the
\* scheme when none is written, whatever the userinfo, the host and the path contain:
\* in every text that is what its parts make, with "://" before the host, and in any
\* other whose port url::Url reports.
THEOREM PortAsWritten ==
    UrlSpec => [](Parsed /\ (Verbatim(written) \/ PortShows(written)) => PortKept)
<1>1. UrlInv => (Parsed /\ (Verbatim(written) \/ PortShows(written)) => PortKept)
    <2> SUFFICES ASSUME UrlInv, Parsed, Verbatim(written) \/ PortShows(written) PROVE PortKept
        OBVIOUS
    <2> DEFINE w == written  n == resolve_port(w)[1]
    <2>1. config[1] = parse(w) /\ PartsForm(w) /\ parse(w).ok
        BY UrlAssumption DEF UrlInv, Parsed
    <2>2. w.scheme \in Schemes /\ Cfg.port = n
        BY Zenon, <2>1, ParseGives DEF Cfg
    <2>3. resolve_port(w) = IF PortGiven(w) THEN <<PortNo[w.port[1][1]]>> ELSE DefaultPort(w.scheme)
        <3>1. CASE Verbatim(w)
            BY Zenon, <2>1, <2>2, <3>1, ResolvedPort DEF Verbatim
        <3>2. CASE PortShows(w)
            BY Zenon, <3>2, ReportedPort DEF PortShows
        <3>. QED
            BY Zenon, <3>1, <3>2
    <2>4. n = IF PortGiven(w) THEN PortNo[w.port[1][1]] ELSE DefaultPort(w.scheme)[1]
        BY <2>3
    <2> HIDE DEF n
    <2>5. PortKept <=> IF PortGiven(w) THEN Cfg.port = PortNo[w.port[1][1]]
                       ELSE Cfg.port = DefaultPort(w.scheme)[1]
        BY <2>2 DEF PortKept, PortGiven, DefaultPort, Schemes
    <2>. QED
        BY Zenon, <2>2, <2>4, <2>5
<1>. QED
    BY <1>1, UrlInvInitially, UrlInvStep, PTL DEF UrlSpec

\* The address display and reqwest are given: the written host, and the port in use.
LEMMA AddressReadBack ==
    ASSUME NEW w, PartsForm(w), parse(w).ok, NEW scheme \in Schemes
    PROVE  LET c == parse(w)
               d == ToDecimal(c.port)
           IN  /\ d \in DOMAIN PortNo /\ PortNo[d] = c.port /\ PortNo[d] < 2 ^ 16
               /\ w.host # <<>> /\ c.host = unbracket(w.host)
               /\ ReadBack(<<scheme, ":", "/", "/">> \o authority(c.host, c.port))
                    = Shown(scheme, w.host, d)
<1> DEFINE c == parse(w)  d == ToDecimal(c.port)
<1>1. /\ UrlParses(w) /\ w.scheme \in Schemes /\ resolve_port(w) # <<>> /\ UrlHost(w) # <<>>
      /\ w.host # <<>> /\ c.host = unbracket(w.host) /\ c.port = resolve_port(w)[1]
    BY Zenon, ParseGives
<1>2. d \in DOMAIN PortNo /\ PortNo[d] = c.port /\ PortNo[d] < 2 ^ 16
    BY Zenon, <1>1, PortIsDecimal
<1> HIDE DEF c
<1>3. d \in Tokens
    BY <1>2, UrlAssumption DEF Tokens
<1>4. authority(c.host, c.port) = w.host \o <<":", d>>
    BY Zenon, <1>1, <1>3, AuthorityIsHost
<1> HIDE DEF d
<1>5. ReadBack(<<scheme, ":", "/", "/">> \o (w.host \o <<":", d>>)) = Shown(scheme, w.host, d)
    BY Zenon, <1>1, <1>3, ShownReadsBack
<1>. QED
    BY Zenon, <1>1, <1>2, <1>4, <1>5 DEF c, d

\* What display shows of a proxy parses to that proxy, without its credentials.
LEMMA DisplayParses ==
    ASSUME NEW w, PartsForm(w), parse(w).ok
    PROVE  parse(ReadBack(display(parse(w)))) = [parse(w) EXCEPT !.credentials = <<>>]
<1> DEFINE c == parse(w)  s == scheme_label(c)  d == ToDecimal(c.port)
           k == IF w.scheme \in {"socks5", "socks5h"} THEN "Socks5" ELSE "HttpConnect"
<1>1. /\ w.scheme \in Schemes /\ c.kind = k /\ c.tls_to_proxy = (w.scheme = "https")
      /\ [c EXCEPT !.credentials = <<>>]
           = [ok |-> TRUE, kind |-> c.kind, host |-> c.host, port |-> c.port,
              credentials |-> <<>>, tls_to_proxy |-> c.tls_to_proxy]
    BY Zenon, ParseGives
<1> HIDE DEF c
<1>2. /\ s \in Schemes /\ (s \in {"socks5", "socks5h"} <=> w.scheme \in {"socks5", "socks5h"})
      /\ (s = "https") = (w.scheme = "https")
    BY Zenon, <1>1 DEF scheme_label, Schemes
<1> HIDE DEF s
<1>3. /\ d \in DOMAIN PortNo /\ PortNo[d] = c.port /\ PortNo[d] < 2 ^ 16
      /\ w.host # <<>> /\ c.host = unbracket(w.host)
      /\ ReadBack(<<s, ":", "/", "/">> \o authority(c.host, c.port)) = Shown(s, w.host, d)
    BY Zenon, <1>2, AddressReadBack DEF c
<1>4. ReadBack(display(c)) = Shown(s, w.host, d)
    BY Zenon, <1>3 DEF display, s
<1> HIDE DEF d
<1>5. parse(Shown(s, w.host, d)) = ProxyNamed(s, w.host, PortNo[d])
    BY <1>2, <1>3, ShownParses
<1>6. (IF s \in {"socks5", "socks5h"} THEN "Socks5" ELSE "HttpConnect") = c.kind
    BY Zenon, <1>1, <1>2
<1>7. (s = "https") = c.tls_to_proxy
    BY Zenon, <1>1, <1>2
<1>. QED
    BY Zenon, <1>1, <1>3, <1>4, <1>5, <1>6, <1>7 DEF c, ProxyNamed

\* The route of Web API calls built from a proxy goes through it.
LEMMA RouteIsProxy ==
    ASSUME NEW w, PartsForm(w), parse(w).ok
    PROVE  LET c == parse(w)
               r == build_proxy(c)
           IN  /\ r.ok /\ r.host = c.host /\ r.port = <<c.port>>
               /\ r.socks = (c.kind = "Socks5") /\ r.tls = c.tls_to_proxy /\ r.auth = c.credentials
<1> DEFINE c == parse(w)  s == ReqwestScheme(c)  d == ToDecimal(c.port)
           k == IF w.scheme \in {"socks5", "socks5h"} THEN "Socks5" ELSE "HttpConnect"
           v == Shown(s, w.host, d)  r == build_proxy(c)
<1>1. w.scheme \in Schemes /\ c.kind = k /\ c.tls_to_proxy = (w.scheme = "https")
    BY Zenon, ParseGives
<1> HIDE DEF c
<1>2. /\ s \in Schemes /\ (s = "socks5h" <=> c.kind = "Socks5")
      /\ (s = "https" <=> c.tls_to_proxy) /\ c.tls_to_proxy \in BOOLEAN
    BY Zenon, <1>1 DEF ReqwestScheme, Schemes
<1> HIDE DEF s
<1>3. /\ d \in DOMAIN PortNo /\ PortNo[d] = c.port /\ PortNo[d] < 2 ^ 16
      /\ w.host # <<>> /\ c.host = unbracket(w.host)
      /\ ReadBack(<<s, ":", "/", "/">> \o authority(c.host, c.port)) = v
    BY Zenon, <1>2, AddressReadBack DEF c
<1> HIDE DEF d
<1>4. UrlParses(v) /\ PortOrKnown(v) = <<PortNo[d]>> /\ v.host = w.host /\ v.scheme = s
    BY <1>2, <1>3, ShownParses
<1> HIDE DEF v
<1>5. r = [ok |-> TRUE, via |-> "proxy", socks |-> v.scheme = "socks5h", tls |-> v.scheme = "https",
           host |-> unbracket(v.host), port |-> PortOrKnown(v), auth |-> c.credentials]
    BY Zenon, <1>3, <1>4 DEF build_proxy, s
<1> HIDE DEF r
<1>6. /\ r.ok /\ r.host = unbracket(v.host) /\ r.port = PortOrKnown(v) /\ r.auth = c.credentials
      /\ r.socks = (v.scheme = "socks5h") /\ r.tls = (v.scheme = "https")
    BY Zenon, <1>5
<1>7. (s = "socks5h") = (c.kind = "Socks5") /\ (s = "https") = c.tls_to_proxy
    BY Zenon, <1>2
<1>. QED
    BY Zenon, <1>3, <1>4, <1>6, <1>7 DEF c, r

\* Everyone uses the proxy that was configured: what display shows of it parses to it
\* again, and the HTTP client goes through it the same way, for every URL a user may
\* write.
THEOREM OneProxy == UrlSpec => []SameProxyEverywhere
<1>1. UrlInv => SameProxyEverywhere
    <2> SUFFICES ASSUME UrlInv PROVE SameProxyEverywhere
        OBVIOUS
    <2>1. written \in Written /\ PartsForm(written)
        BY UrlAssumption DEF UrlInv
    <2>2. ASSUME shown # <<>> PROVE shown[1] = [Cfg EXCEPT !.credentials = <<>>]
        <3>1. config[1] = parse(written) /\ parse(written).ok
            BY <2>2 DEF UrlInv
        <3>2. shown[1] = parse(ReadBack(display(config[1])))
            BY <2>2 DEF UrlInv
        <3>. QED
            BY Zenon, <2>1, <3>1, <3>2, DisplayParses DEF Cfg
    <2>3. ASSUME webRoute # <<>>
          PROVE  /\ webRoute[1].ok
                 /\ webRoute[1].via = "proxy" =>
                       /\ webRoute[1].host = Cfg.host /\ webRoute[1].port = <<Cfg.port>>
                       /\ webRoute[1].socks = (Cfg.kind = "Socks5")
                       /\ webRoute[1].tls = Cfg.tls_to_proxy
                       /\ webRoute[1].auth = Cfg.credentials
        <3> DEFINE r == webRoute[1]
        <3>1. config # <<>> /\ config[1] = parse(written) /\ parse(written).ok
            BY <2>3 DEF UrlInv
        <3>2. r \in {client(<<>>), client(config)}
            BY <2>3 DEF UrlInv
        <3>3. client(<<>>) = [ok |-> TRUE, via |-> "direct"] /\ client(config) = build_proxy(parse(written))
            BY Zenon, <3>1 DEF client
        <3>4. client(<<>>).ok /\ client(<<>>).via # "proxy"
            BY <3>3
        <3> HIDE DEF r
        <3>5. CASE r = client(<<>>)
            BY Zenon, <3>4, <3>5 DEF r
        <3>6. CASE r = build_proxy(parse(written))
            <4> DEFINE c == parse(written)  b == build_proxy(c)
            <4>1. /\ b.ok /\ b.host = c.host /\ b.port = <<c.port>> /\ b.socks = (c.kind = "Socks5")
                  /\ b.tls = c.tls_to_proxy /\ b.auth = c.credentials
                BY Zenon, <2>1, <3>1, RouteIsProxy
            <4>2. Cfg = c /\ webRoute[1] = b
                BY Zenon, <3>1, <3>6 DEF Cfg, r
            <4> HIDE DEF b, c
            <4>. QED
                BY Zenon, <4>1, <4>2
        <3>. QED
            BY Zenon, <3>2, <3>3, <3>5, <3>6
    <2>. QED
        BY Zenon, <2>2, <2>3 DEF SameProxyEverywhere
<1>. QED
    BY <1>1, UrlInvInitially, UrlInvStep, PTL DEF UrlSpec
=============================================================================
