---------------------------- MODULE FlowSamples -----------------------------
(* Five connections of one client: two that share the client port, one that  *)
(* reuses the endpoints of the first, one between two ports 443 and one UDP. *)
EXTENDS Naturals, SequencesExt

HTTPS == 443

Client == <<"client", 5000>>
ServerA == <<"a", HTTPS>>
ServerB == <<"b", HTTPS>>

HttpFrame(type, len) == [type |-> type, len |-> len]
Record(fs, added) ==
    LET plain == FoldSeq(LAMBDA f, n : n + 9 + f.len, 0, fs)
    IN  [frames |-> fs, plain |-> plain, wire |-> plain + added]
Headers(n, added) == Record(<<HttpFrame("HEADERS", n)>>, added)

\* What is added to a record: in TLS 1.3, without and with padding; in TLS 1.2 with
\* ChaCha20-Poly1305 and with AES-GCM, which sends eight bytes of its nonce.
Tls13 == 17
Padded == 32
ChaCha == 16
AesGcm == 24

Between(s, client, server, tls) ==
    [stream |-> s, client |-> client, server |-> server, tls |-> tls]
S1 == Between(1, Client, ServerA, 13)
S2 == Between(2, Client, ServerB, 12)
S3 == Between(3, Client, ServerA, 13)
S4 == Between(4, <<"client", HTTPS>>, ServerA, 13)

Packet(c, up) ==
    [stream |-> c.stream, up |-> up, transport |-> "TCP", tls |-> c.tls,
     src |-> IF up THEN c.client ELSE c.server, dst |-> IF up THEN c.server ELSE c.client,
     flags |-> 16, payload |-> FALSE, ct |-> <<>>, sni |-> {}, versions |-> {},
     alpn |-> {}, recs |-> <<>>, frames |-> <<>>, http1 |-> <<>>]

Data(c, up, recs) ==
    [Packet(c, up) EXCEPT !.payload = TRUE, !.ct = <<23>>, !.recs = recs,
                          !.frames = FlattenSeq([j \in DOMAIN recs |-> recs[j].frames])]
Hello(c, name) ==
    [Packet(c, TRUE) EXCEPT !.payload = TRUE, !.ct = <<22>>, !.sni = {name},
                            !.versions = {c.tls}]

Shown(s) ==
    CASE s = 1 -> {Hello(S1, "x"), Data(S1, TRUE, <<Headers(100, Tls13)>>),
                   Data(S1, FALSE, <<Record(<<HttpFrame("WINDOW_UPDATE", 4)>>, Tls13),
                                     Record(<<HttpFrame("HEADERS", 50), HttpFrame("DATA", 900)>>, Tls13)>>)}
      [] s = 2 -> {Hello(S2, "y"), Data(S2, TRUE, <<Headers(120, AesGcm), Headers(4, AesGcm)>>),
                   Data(S2, FALSE, <<Headers(60, ChaCha)>>)}
      [] s = 3 -> {Data(S3, TRUE, <<Headers(130, Tls13)>>), Packet(S3, FALSE)}
      [] s = 4 -> {[Packet(S4, TRUE) EXCEPT !.flags = 2], [Packet(S4, FALSE) EXCEPT !.flags = 18],
                   [Data(S4, TRUE, <<[frames |-> <<>>, plain |-> 300, wire |-> 317]>>) EXCEPT !.http1 = <<300>>],
                   Data(S4, FALSE, <<Headers(30, Padded)>>)}
      [] s = 5 -> {[Packet(S1, TRUE) EXCEPT !.transport = "UDP", !.stream = 5, !.payload = TRUE]}

Plain == Shown(1) \cup Shown(2)

Samples == {Plain, Shown(1) \cup Shown(3), Shown(4) \cup Shown(5)}

=============================================================================
