---------------------------- MODULE MCWireFormat ----------------------------
\* Batches of up to two messages, nested up to three deep, and their cut forms.
EXTENDS WireFormat

Message(e, h, b) == [kind |-> "message", emsg |-> e, header |-> h, body |-> b]
Plain == {Message(3, <<1>>, <<>>), Message(4, <<>>, <<1, 2>>)}
Relay == Message(FROM_GC, <<>>, wrap(5, 6, <<2>>, <<7>>))
Bad == Message(5, <<Radix - 1>>, <<>>)
Legacy == [kind |-> "legacy", emsg |-> 6, header |-> <<>>, body |-> <<1>>]
Singles == Plain \union {Relay, Bad, Legacy}

Multi(z, parts) == [kind |-> "multi", zip |-> z, parts |-> parts]
Zips == {"no", "yes", "lie"}
Flat == {Multi(z, p) : z \in Zips, p \in BoundedSeq(Singles, 2)}
Deep(S) == {Multi(z, <<t>>) : z \in {"no", "yes"}, t \in S} \union
           {Multi("no", <<Legacy, t, Message(3, <<1>>, <<>>)>>) : t \in S}
Two == Deep(Flat)
Three == Deep({Multi("no", <<t>>) : t \in Flat})

Frames == {[tree |-> t, cut |-> 0] : t \in Singles \union Flat \union Two \union Three}
Cut == {[tree |-> t, cut |-> k] : t \in Flat \union Two, k \in 1..4}
Few == {[tree |-> t, cut |-> 0] : t \in Singles \union {Multi("no", p) : p \in BoundedSeq(Plain, 2)}}
MCWires == {<<f>> : f \in Frames \union Cut} \union {<<f, g>> : f \in Few, g \in Few}
=============================================================================
