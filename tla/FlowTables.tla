----------------------------- MODULE FlowTables -----------------------------
(***************************************************************************)
(* The analysis pipeline that turns one capture file into flow files and   *)
(* header sequences: the stages of analysis_scripts/retry_failed.py run    *)
(* extract_features.py, classify_packets.py, infer_packets.py,             *)
(* extract_header_seqs.py and verify_sequences.py on the same PCAP.        *)
(*                                                                         *)
(* The capture is a sequence of packets that TShark has dissected, chosen  *)
(* one by one from a set; a packet's frame number is its index.  What      *)
(* TShark reports is external.  A packet also carries facts that no script *)
(* can read, `up' (the client sent it), `tls' (the version that was        *)
(* negotiated) and the plaintext of its records: the properties compare    *)
(* the tables with them.                                                   *)
(*                                                                         *)
(* A flow file gives for each of its frames a row: its rows are a function *)
(* of the frame number, by which every script sorts them.                  *)
(*                                                                         *)
(* Abstracted: times, packet sizes, the text of the TSV files, and the     *)
(* columns of the flow table that split_connections overwrites (version,   *)
(* SNI and protocol).  A flow file's name is a tuple, and its optional     *)
(* stream suffix is a set of at most one stream.                           *)
(***************************************************************************)
EXTENDS Integers, Sequences, FiniteSets

CONSTANTS
    Networks,       \* the choices of the packets that a network may show
    SniSuffixes,    \* the choices of --sni-suffix: sets of server names, {} keeps all
    MaxPackets      \* bound: packets in the capture

HTTPS == 443
Port(e) == e[2]
HasBit(flags, bit) == (flags \div bit) % 2 = 1

\* The client's end and the server's, whoever sent the packet.
ClientEnd(p) == IF p.up THEN p.src ELSE p.dst
ServerEnd(p) == IF p.up THEN p.dst ELSE p.src

\* A packet as TShark gives it: the fields the scripts read, and `up', `tls'
\* and `recs', the TLS records whose data ends in the packet: their frames, the
\* length of their plaintext and the length that is on the wire.
PacketOK(p) ==
    /\ p.stream \in Nat /\ p.up \in BOOLEAN /\ p.tls \in Nat /\ p.flags \in Nat
    /\ p.src # p.dst
    /\ p.versions \subseteq Nat
    /\ p.frames \in Seq([type : STRING, len : Nat]) /\ p.http1 \in Seq(Nat)
    /\ p.recs \in Seq([frames : Seq([type : STRING, len : Nat]), plain : Nat, wire : Nat])

\* What no cipher suite of a version goes below: a tag of 16 bytes, and from TLS
\* 1.3 on the type of the content.  A nonce (8 bytes with AES-GCM in TLS 1.2), a
\* longer tag and padding come on top.
LeastAdded(tls) == IF tls = 12 THEN 16 ELSE 17

\* What TCP and TLS say: a stream has two ends and one TLS version; the end at
\* port 443 is a server, unless both are at it; the client sends the SYN and
\* the server the SYN|ACK; an HTTP/2 frame has nine bytes besides its payload;
\* a record is longer than its plaintext.
ASSUME FlowTablesAssumption ==
    /\ MaxPackets \in Nat
    /\ \A network \in Networks : \A p \in network :
          /\ PacketOK(p)
          /\ \A q \in network :
                p.transport = "TCP" /\ q.transport = "TCP" /\ p.stream = q.stream =>
                    ClientEnd(p) = ClientEnd(q) /\ ServerEnd(p) = ServerEnd(q) /\ p.tls = q.tls
          /\ HTTPS \in {Port(p.src), Port(p.dst)} => Port(ServerEnd(p)) = HTTPS
          /\ HasBit(p.flags, 2) => (p.up <=> ~HasBit(p.flags, 16))
          /\ \A x \in DOMAIN p.recs :
                /\ Len(p.recs[x].frames) = 1 => p.recs[x].plain = 9 + p.recs[x].frames[1].len
                /\ p.recs[x].wire >= p.recs[x].plain + LeastAdded(p.tls)

VARIABLES
    pkts,           \* the capture
    input,          \* [network, input]: the packets there
                    \* may be, whether a TLS key log decrypts them, --allow-unpaired
                    \* and --sni-suffix
    stage,          \* the last stage of the pipeline that ended
    table,          \* the flow table: the endpoint pairs of capture_<browser>.tsv
    flows,          \* capture_<browser>_flows: name -> decrypted flow file
    inferred,       \* capture_<browser>_inferred: name -> inferred flow file
    sequences       \* sequences/<mode>/<direction>.tsv

flowVars == <<pkts, input, stage, table, flows, inferred, sequences>>

Directions == {"forward", "reverse"}
NoFiles == [n \in {} |-> {}]

-----------------------------------------------------------------------------
(* Shared helpers. *)

Frames == 1 .. Len(pkts)
Has(p, ks) == [src |-> p.src, dst |-> p.dst, transport |-> p.transport] \in ks

\* run_tshark, by TCP_DISPLAY_FILTER: the TCP packets with an end at port 443.
Eligible == {i \in Frames : pkts[i].transport = "TCP"
                            /\ HTTPS \in {Port(pkts[i].src), Port(pkts[i].dst)}}

\* TCP_CATEGORIES: what an empty packet is, by its flag mask.
EmptyTcpCategory(flags) ==
    CASE flags = 16 -> "ack"     [] flags = 2 -> "syn"      [] flags = 18 -> "syn_ack"
      [] flags = 1  -> "fin"     [] flags = 17 -> "fin_ack" [] flags = 4 -> "rst"
      [] flags = 20 -> "rst_ack" [] flags = 0 -> "unknown"
      [] OTHER -> "tcp_other"

-----------------------------------------------------------------------------
(* extract_features.py: the flow table. *)

FlowKey(p) == [src |-> p.src, dst |-> p.dst, transport |-> p.transport]
Mirror(k) == [src |-> k.dst, dst |-> k.src, transport |-> k.transport]

\* A flow keeps the first server name seen on its endpoints.
FlowSni(k) ==
    LET named == {i \in Frames : FlowKey(pkts[i]) = k /\ pkts[i].sni # {}}
    IN  IF named = {} THEN {} ELSE pkts[CHOOSE i \in named : \A j \in named : i <= j].sni

\* extract_flows, then filter_by_sni: a wanted flow brings its reverse flow.
FlowTable ==
    LET all == {FlowKey(pkts[i]) : i \in Frames}
        kept == {k \in all : FlowSni(k) \cap input.wanted # {}}
    IN  IF input.wanted = {} THEN all ELSE {k \in all : k \in kept \/ Mirror(k) \in kept}

\* read_flow_tsv: only the TCP flows that touch port 443.
TlsFlows == {k \in table : k.transport = "TCP" /\ HTTPS \in {Port(k.src), Port(k.dst)}}

-----------------------------------------------------------------------------
(* flow_validation.py: one flow per direction of a TCP stream. *)

Listed == {i \in Eligible : Has(pkts[i], TlsFlows)}
\* Mutant: a flow is known by its two ends only, as in the flow table.
PacketKeyOfEnds(p) == [src |-> p.src, dst |-> p.dst, stream |-> 1]

PacketKey(p) == [src |-> p.src, dst |-> p.dst, stream |-> p.stream]
Keys == {PacketKey(pkts[i]) : i \in Listed}

SameConnection(p, k) == p.stream = k.stream /\ {p.src, p.dst} = {k.src, k.dst}
Evidence(k) == {i \in Listed : SameConnection(pkts[i], k)}

BothHttps(k) == Port(k.src) = HTTPS /\ Port(k.dst) = HTTPS

\* The client end, as the SYN and the SYN|ACK of the stream tell it.
Clients(k) ==
    {IF HasBit(pkts[i].flags, 16) THEN pkts[i].dst ELSE pkts[i].src :
        i \in {j \in Evidence(k) : HasBit(pkts[j].flags, 2)}}

Snis(k) == UNION {pkts[i].sni : i \in Evidence(k)}

\* The highest version any hello of the connection mentions, 0 for none.
Version(k) ==
    LET told == {0} \cup UNION {pkts[i].versions : i \in Evidence(k)}
    IN  CHOOSE v \in told : \A w \in told : w <= v

DirectionOf(k) ==
    IF BothHttps(k) THEN IF k.src \in Clients(k) THEN "forward" ELSE "reverse"
    ELSE IF Port(k.dst) = HTTPS THEN "forward" ELSE "reverse"

PortName(k) == <<DirectionOf(k), Port(k.src), Port(k.dst)>>

\* The streams that share a port name with another flow.
CollidedStreams ==
    {k.stream : k \in {x \in Keys : \E y \in Keys \ {x} : PortName(y) = PortName(x)}}

FileName(k) ==
    [name |-> PortName(k), suffix |-> {k.stream} \cap CollidedStreams]

\* The checks of split_connections that raise.
SplitSucceeds ==
    /\ \A k \in Keys : BothHttps(k) => Cardinality(Clients(k)) = 1
    /\ \A k \in Keys : Cardinality(Snis(k)) <= 1
    /\ \A x, y \in Keys : FileName(x) = FileName(y) => x = y

-----------------------------------------------------------------------------
(* infer_packets.py: what a packet may hold, without the keys. *)

\* TLS_OVERHEAD and DEFAULT_OVERHEAD.
Overhead(version) == IF version = 12 THEN 16 ELSE 17

Guess(type, lo, hi, sub) == [type |-> type, lo |-> lo, hi |-> hi, sub |-> sub]

Larger(est, direction) ==
    IF direction = "forward"
    THEN IF est <= 500 THEN <<"HEADERS", "header">> ELSE <<"HEADERS|DATA", "data">>
    ELSE IF est <= 800 THEN <<"HEADERS", "header">> ELSE <<"DATA", "data">>

\* infer_single_record, without --with-coframe.
InferSingleRecord(recLen, direction, overhead) ==
    LET est == recLen - overhead
    IN  CASE est < 0  -> Guess("?", 1, 0, "unknown")
          [] est \in 0 .. 8 -> Guess("?", 0, est, "unknown")
          [] est = 9  -> Guess("SETTINGS_ACK", 0, 0, "control")
          [] est = 13 -> Guess("WINDOW_UPDATE|RST_STREAM", 4, 4, "control")
          [] est = 14 -> Guess("PRIORITY", 5, 5, "control")
          [] est = 17 -> Guess("PING", 8, 8, "control")
          [] est \in {9 + 6 * n : n \in 1 .. 8} -> Guess("SETTINGS", est - 9, est - 9, "control")
          [] OTHER -> LET g == Larger(est, direction)
                      IN  Guess(g[1], est - 9, est - 9, g[2])

CatPriority(sub) ==
    CASE sub = "data" -> 4 [] sub = "header" -> 3 [] sub = "control" -> 2 [] OTHER -> 1

\* max() over the records: the first of the highest priority names the packet.
FinalCategory(guesses) ==
    LET best == CHOOSE j \in DOMAIN guesses : \A i \in DOMAIN guesses :
                    LET gap == CatPriority(guesses[j].sub) - CatPriority(guesses[i].sub)
                    IN  gap > 0 \/ (gap = 0 /\ j <= i)
    IN  guesses[best].sub

InferPacket(p, direction, overhead) ==
    LET row(category, guesses) == [category |-> category, guesses |-> guesses]
        guesses == [j \in DOMAIN p.recs |->
                       InferSingleRecord(p.recs[j].wire, direction, overhead)]
    IN  CASE ~p.payload -> row(EmptyTcpCategory(p.flags), <<>>)
          [] p.payload /\ p.ct = <<>> /\ p.recs = <<>> -> row("tls_segment", <<>>)
          [] p.payload /\ p.ct # <<>> /\ p.ct[1] \in {20, 22} -> row("handshake", <<>>)
          [] p.payload /\ p.ct # <<>> /\ p.ct[1] = 21 -> row("unknown", <<>>)
          [] p.payload /\ p.ct # <<>> /\ p.ct[1] = 23 /\ p.recs = <<>> -> row("unknown", <<>>)
          [] OTHER -> row(FinalCategory(guesses), guesses)

\* The frames of a flow.
RowsOf(k) == {i \in Listed : PacketKey(pkts[i]) = k}

FlowFile(k, rows, observed) ==
    [key |-> k, direction |-> DirectionOf(k), sni |-> Snis(k), rows |-> rows,
     observed |-> observed]

InferredFile(k) ==
    FlowFile(k, [i \in RowsOf(k) |-> InferPacket(pkts[i], DirectionOf(k), Overhead(Version(k)))], {})

-----------------------------------------------------------------------------
(* classify_packets.py: the same packets, decrypted. *)

ClassifyPkt(p) ==
    LET types == {p.frames[x].type : x \in DOMAIN p.frames}
    IN  CASE p.ct # <<>> /\ p.ct[1] = 22 -> "header"
          [] (p.ct = <<>> \/ p.ct[1] # 22) /\ types # {} ->
                IF "DATA" \in types THEN "data" ELSE "header"
          [] OTHER -> IF p.payload THEN "tls_segment" ELSE EmptyTcpCategory(p.flags)

\* What a packet proves of its connection's protocol.
Proof(p) ==
    p.alpn \cup (IF p.frames # <<>> THEN {"http2"} ELSE {})
           \cup (IF p.http1 # <<>> THEN {"http1"} ELSE {})

\* Each packet counts for both directions of its connection.
Observed(k) == UNION {Proof(pkts[i]) : i \in Evidence(k)}

DecryptedFile(k) ==
    FlowFile(k, [i \in RowsOf(k) |->
                LET p == pkts[i]
                IN  [ct |-> p.ct, frames |-> p.frames, http1 |-> p.http1, payload |-> p.payload,
                     flags |-> p.flags, category |-> ClassifyPkt(p)]], Observed(k))

\* The files of one stage: a later flow of the same name would overwrite.
Names == {FileName(k) : k \in Keys}
Named(n) == CHOOSE k \in Keys : FileName(k) = n
DecryptedFiles == [n \in Names |-> DecryptedFile(Named(n))]
InferredFiles == [n \in Names |-> InferredFile(Named(n))]

-----------------------------------------------------------------------------
(* extract_header_seqs.py: one row per connection and direction. *)

\* Two kinds of table; a decrypted one is made once per protocol.
Tables == {<<"decrypted", "http1">>, <<"decrypted", "http2">>, <<"inferred", "legacy">>}

\* The columns of a packet's count: COUNT_FIELDS.
Categories == {"handshake", "control", "header", "data", "ack", "tls_segment", "unknown",
               "syn", "syn_ack", "fin", "fin_ack", "rst", "rst_ack", "tcp_other"}

\* The lengths of the HEADERS, by their places among the frames.
HeaderLens(fs) == [x \in {y \in DOMAIN fs : fs[y].type = "HEADERS"} |-> fs[x].len]

\* What a packet without header lengths is.
PlainClass(row, fs) ==
    CASE \E x \in DOMAIN fs : fs[x].type = "DATA" -> "data"
      [] fs # <<>> /\ \A x \in DOMAIN fs : fs[x].type # "DATA" -> "control"
      [] fs = <<>> /\ row.ct # <<>> /\ row.ct[1] \in {20, 22} -> "handshake"
      [] fs = <<>> /\ row.ct # <<>> /\ row.ct[1] = 21 -> "unknown"
      [] OTHER -> IF row.payload THEN "tls_segment" ELSE EmptyTcpCategory(row.flags)

\* Mutant: a packet with DATA is data, and its HEADERS do not count.
DecryptedInfoByClass(row, protocol) ==
    LET fs == IF protocol = "http1" THEN <<>> ELSE row.frames
        data == \E x \in DOMAIN fs : fs[x].type = "DATA"
        lens == IF protocol = "http1" THEN row.http1 ELSE IF data THEN <<>> ELSE HeaderLens(fs)
    IN  [category |-> IF DOMAIN lens # {} THEN "header" ELSE PlainClass(row, fs),
         lens |-> lens]

\* decrypted_info: the class of a packet and its header lengths.
DecryptedInfo(row, protocol) ==
    LET fs == IF protocol = "http1" THEN <<>> ELSE row.frames
        lens == IF protocol = "http1" THEN row.http1 ELSE HeaderLens(fs)
    IN  [category |-> IF DOMAIN lens # {} THEN "header" ELSE PlainClass(row, fs),
         lens |-> lens]

\* The inferred rule: the low end of the first record's range.
InferredInfo(row) ==
    [category |-> row.category,
     lens |-> IF row.category = "header" /\ row.guesses[1].lo <= row.guesses[1].hi
              THEN <<row.guesses[1].lo>> ELSE <<>>]

Info(t, row) == IF t[1] = "inferred" THEN InferredInfo(row) ELSE DecryptedInfo(row, t[2])

FilesOf(t) == IF t[1] = "inferred" THEN inferred ELSE flows

\* connection_key: the client end, the server end and the stream.
ConnectionKey(file) ==
    LET k == file.key
    IN  IF file.direction = "forward" THEN <<k.src, k.dst, k.stream>>
        ELSE <<k.dst, k.src, k.stream>>

\* The names of a connection's files of one direction.
Sides(t, conn, direction) ==
    {n \in DOMAIN FilesOf(t) : /\ ConnectionKey(FilesOf(t)[n]) = conn
                               /\ FilesOf(t)[n].direction = direction}

\* The file of each direction the connection has: group.
Group(t, conn) ==
    [d \in {x \in Directions : Sides(t, conn, x) # {}} |-> CHOOSE n \in Sides(t, conn, d) : TRUE]
Paired(t, conn) == DOMAIN Group(t, conn) = Directions
FileOf(t, conn, d) == FilesOf(t)[Group(t, conn)[d]]

\* A decrypted table lists the connections that show its protocol.
Observes(t, file) ==
    \/ t[1] = "inferred"
    \/ t[2] \in file.observed
    \/ \E i \in DOMAIN file.rows : DOMAIN Info(t, file.rows[i]).lens # {}
Connections(t) ==
    {ConnectionKey(FilesOf(t)[n]) : n \in {m \in DOMAIN FilesOf(t) : Observes(t, FilesOf(t)[m])}}

\* load_flow: the header lengths of a file, each with its frame, its place in
\* it and its direction, and the packets of a category.
Length(i, x, len, side) == [frame |-> i, at |-> x, len |-> len, side |-> side]
LengthsIn(i, lens, side) == {Length(i, x, lens[x], side) : x \in DOMAIN lens}
Lengths(t, file) ==
    UNION {LengthsIn(i, Info(t, file.rows[i]).lens, file.direction) : i \in DOMAIN file.rows}
Count(t, file, category) ==
    Cardinality({i \in DOMAIN file.rows : Info(t, file.rows[i]).category = category})

\* The lengths in the order of the capture; the reverse side is marked in the
\* bidirectional table.
Precedes(d, e) == d.frame < e.frame \/ (d.frame = e.frame /\ d.at < e.at)
Before(lengths, e) == {d \in lengths : Precedes(d, e)}
Nth(lengths, n) == CHOOSE e \in lengths : Cardinality(Before(lengths, e)) = n - 1
Mark(e, direction) == IF direction = "bidirectional" /\ e.side = "reverse" THEN "-" ELSE ""
HeaderColumn(lengths, direction) ==
    [n \in 1 .. Cardinality(lengths) |->
        <<Mark(Nth(lengths, n), direction), Nth(lengths, n).len>>]

\* The sum of numbers: how many marks it takes to tell them all.
Marks(f) == UNION {{x} \X (1 .. f[x]) : x \in DOMAIN f}
SumOf(f) == Cardinality(Marks(f))

\* The flow column: the port name after the direction, and the suffix.
FlowName(t, conn, direction) ==
    LET group == Group(t, conn)
    IN  IF direction # "bidirectional" THEN group[direction]
        ELSE [name |-> <<"bidirectional", Port(conn[1]), Port(conn[2])>>,
              suffix |-> group[IF "forward" \in DOMAIN group THEN "forward" ELSE "reverse"].suffix]

SummaryRow(t, conn, direction) ==
    LET sides == IF direction = "bidirectional" THEN DOMAIN Group(t, conn) ELSE {direction}
    IN  [flow |-> FlowName(t, conn, direction),
         counts |-> [c \in Categories |-> SumOf([d \in sides |-> Count(t, FileOf(t, conn, d), c)])],
         lens |-> HeaderColumn(UNION {Lengths(t, FileOf(t, conn, d)) : d \in sides}, direction)]

\* summarize_directory: the rows of every table, by connection.
With(t, d) == {c \in Connections(t) : d \in DOMAIN Group(t, c)}
Summary ==
    [t \in Tables |->
        [forward |-> [c \in With(t, "forward") |-> SummaryRow(t, c, "forward")],
         reverse |-> [c \in With(t, "reverse") |-> SummaryRow(t, c, "reverse")],
         bidirectional |-> [c \in Connections(t) |-> SummaryRow(t, c, "bidirectional")]]]

\* The checks of summarize_directory that raise.
SummarySucceeds ==
    \A t \in Tables : \A c \in Connections(t) :
        /\ \A d \in Directions : Cardinality(Sides(t, c, d)) <= 1
        /\ Paired(t, c) \/ input.allowUnpaired
        /\ Cardinality(UNION {FileOf(t, c, d).sni : d \in DOMAIN Group(t, c)}) <= 1
        /\ Paired(t, c) =>
              DOMAIN FileOf(t, c, "forward").rows \cap DOMAIN FileOf(t, c, "reverse").rows = {}

-----------------------------------------------------------------------------
(* The stages. *)

FlowInit ==
    /\ pkts = <<>>
    /\ input \in [network : Networks, usableKey : BOOLEAN, allowUnpaired : BOOLEAN,
                   wanted : SniSuffixes]
    /\ stage = "capturing"
    /\ table = {}
    /\ flows = NoFiles
    /\ inferred = NoFiles
    /\ sequences = NoFiles

\* The network shows one more packet.
Capture(p) ==
    /\ stage = "capturing" /\ Len(pkts) < MaxPackets
    /\ pkts' = Append(pkts, p)
    /\ UNCHANGED <<input, stage, table, flows, inferred, sequences>>

\* extract_features.py writes the flow table; without TCP 443 packets the
\* retry ends there.
Extract ==
    /\ stage = "capturing"
    /\ IF Eligible = {} THEN stage' = "no_eligible_packets" /\ UNCHANGED table
       ELSE stage' = "extracted" /\ table' = FlowTable
    /\ UNCHANGED <<pkts, input, flows, inferred, sequences>>

\* classify_packets.py, with a key log; a flow table without TLS flows fails.
Classify ==
    /\ stage = "extracted"
    /\ IF ~input.usableKey THEN stage' = "classified" /\ UNCHANGED flows
       ELSE IF TlsFlows # {} /\ SplitSucceeds
       THEN stage' = "classified" /\ flows' = DecryptedFiles
       ELSE stage' = "failed" /\ UNCHANGED flows
    /\ UNCHANGED <<pkts, input, table, inferred, sequences>>

\* infer_packets.py.
Infer ==
    /\ stage = "classified"
    /\ IF TlsFlows # {} /\ SplitSucceeds
       THEN stage' = "inferred" /\ inferred' = InferredFiles
       ELSE stage' = "failed" /\ UNCHANGED inferred
    /\ UNCHANGED <<pkts, input, table, flows, sequences>>

\* extract_header_seqs.py: every input is validated before a table is opened.
Summarize ==
    /\ stage = "inferred"
    /\ IF SummarySucceeds THEN stage' = "summarised" /\ sequences' = Summary
       ELSE stage' = "failed" /\ UNCHANGED sequences
    /\ UNCHANGED <<pkts, input, table, flows, inferred>>

-----------------------------------------------------------------------------
(* verify_sequences.py: the last stage reads the tables again. *)

\* The files that have a row for the frame.
FilesWith(t, i) == {n \in DOMAIN FilesOf(t) : i \in DOMAIN FilesOf(t)[n].rows}

\* Every TCP 443 frame, and no other, is in exactly one file, of its own stream
\* and ends.
PacketsCovered(t) ==
    /\ \A n \in DOMAIN FilesOf(t) : DOMAIN FilesOf(t)[n].rows \subseteq Eligible
    /\ \A i \in Eligible :
          /\ Cardinality(FilesWith(t, i)) = 1
          /\ \A n \in FilesWith(t, i) : FilesOf(t)[n].key = PacketKey(pkts[i])

\* What a row's flow name is known by in `single': its ports, the client's
\* first, and its suffix.
PortsAndSuffix(flow) ==
    <<IF flow.name[1] = "reverse" THEN <<flow.name[3], flow.name[2]>>
      ELSE <<flow.name[2], flow.name[3]>>, flow.suffix>>

\* The rows of the one-directional tables, and those of a bidirectional row.
Single(t) == UNION {{d} \X DOMAIN sequences[t][d] : d \in Directions}
SingleRow(t, s) == sequences[t][s[1]][s[2]]
Sources(t, r) == {s \in Single(t) : PortsAndSuffix(SingleRow(t, s).flow) = PortsAndSuffix(r.flow)}

\* single.pop: a bidirectional row takes the one-directional rows of its name,
\* and none is left for another.
RowsAccounted(t) ==
    LET rows == sequences[t].bidirectional
    IN  /\ \A c \in DOMAIN rows :
            LET sources == Sources(t, rows[c])
            IN  /\ sources # {}
                /\ \A x \in DOMAIN rows \ {c} : Sources(t, rows[x]) \cap sources = {}
                /\ Len(rows[c].lens) = SumOf([s \in sources |-> Len(SingleRow(t, s).lens)])
                /\ \A k \in Categories :
                      rows[c].counts[k] = SumOf([s \in sources |-> SingleRow(t, s).counts[k]])
        /\ Single(t) = UNION {Sources(t, rows[c]) : c \in DOMAIN rows}

TablesVerified ==
    \A t \in Tables : (t[1] = "inferred" \/ input.usableKey) =>
        PacketsCovered(t) /\ RowsAccounted(t)

\* Only a retry verifies, and it never filters by server name.
Verify ==
    /\ stage = "summarised" /\ input.wanted = {}
    /\ stage' = IF TablesVerified THEN "verified" ELSE "rejected"
    /\ UNCHANGED <<pkts, input, table, flows, inferred, sequences>>

Done ==
    /\ \/ stage \in {"no_eligible_packets", "failed", "verified", "rejected"}
       \/ stage = "summarised" /\ input.wanted # {}
    /\ UNCHANGED flowVars

FlowNext ==
    \/ \E p \in input.network : Capture(p)
    \/ Extract \/ Classify \/ Infer \/ Summarize \/ Verify \/ Done

FlowSpec == FlowInit /\ [][FlowNext]_flowVars

-----------------------------------------------------------------------------
(* Properties. *)

FlowTypeOK ==
    /\ pkts \in Seq(input.network) /\ Len(pkts) <= MaxPackets
    /\ input.wanted \in SniSuffixes /\ input.network \in Networks
    /\ input.usableKey \in BOOLEAN /\ input.allowUnpaired \in BOOLEAN
    /\ stage \in {"capturing", "no_eligible_packets", "extracted", "classified", "inferred",
                  "summarised", "verified", "rejected", "failed"}
    /\ table \subseteq {FlowKey(pkts[i]) : i \in Frames}

\* Every packet of a listed flow is a row of exactly one file of each kind, the
\* file of its own stream and direction: streams that reuse endpoints or share
\* their ports with another host's are never mixed and never overwrite each
\* other (split_connections and the two process functions).
EveryPacketOnce ==
    stage \in {"inferred", "summarised", "verified"} =>
        \A t \in Tables : (t[1] = "inferred" \/ input.usableKey) =>
            \A i \in Listed :
                /\ Cardinality(FilesWith(t, i)) = 1
                /\ \A n \in FilesWith(t, i) :
                      /\ FilesOf(t)[n].key.stream = pkts[i].stream
                      /\ FilesOf(t)[n].key.src = pkts[i].src
                      /\ (FilesOf(t)[n].direction = "forward") = pkts[i].up

\* When every connection was captured in both directions, the tables pass.
PairedTablesVerify ==
    stage = "rejected" => \E t \in Tables : \E c \in Connections(t) : ~Paired(t, c)

FilesHoldTheirConnections == FlowTypeOK /\ EveryPacketOnce /\ PairedTablesVerify

\* What the two ends of stream s sent: the truth the tables are about.
SentIn(t, i) ==
    LET p == pkts[i]
    IN  LengthsIn(i, IF t[2] = "http1" THEN p.http1 ELSE HeaderLens(p.frames),
                  IF p.up THEN "forward" ELSE "reverse")
Sent(t, s) == UNION {SentIn(t, i) : i \in {j \in Eligible : pkts[j].stream = s}}

\* The decrypted bidirectional table gives, for every connection, exactly the
\* header lengths its two ends sent, in the order of the capture and each with
\* its own side's sign (HEADER_SEQUENCES.md:190-192).
SequenceIsTruth ==
    stage \in {"summarised", "verified"} /\ input.usableKey =>
        \A t \in Tables : t[1] = "decrypted" =>
            \A i \in Listed :
                LET p == pkts[i]
                    conn == <<ClientEnd(p), ServerEnd(p), p.stream>>
                    rows == sequences[t].bidirectional
                    sent == Sent(t, p.stream)
                IN  sent # {} =>
                        conn \in DOMAIN rows /\ rows[conn].lens = HeaderColumn(sent, "bidirectional")

\* The inferred length of an HTTP/2 frame that is alone in its record is never
\* below the true one, and too long by exactly what the record has beyond the 16
\* or 17 bytes of TLS_OVERHEAD: nothing with ChaCha20-Poly1305 or unpadded TLS 1.3,
\* 8 bytes with AES-GCM in TLS 1.2.  (The hellos of the connection that are in
\* the capture mention the negotiated version and none above it; otherwise
\* infer_packets.py subtracts the number of another version.)
RangesHold ==
    stage \in {"inferred", "summarised", "verified"} =>
        \A n \in DOMAIN inferred : \A i \in DOMAIN inferred[n].rows :
            LET guesses == inferred[n].rows[i].guesses
                recs == pkts[i].recs
                told == UNION {pkts[j].versions : j \in Evidence(inferred[n].key)}
                greeted == pkts[i].tls \in told /\ \A v \in told : v <= pkts[i].tls
                excess(rec) == rec.wire - rec.plain - LeastAdded(pkts[i].tls)
            IN  \A x \in DOMAIN guesses :
                    greeted /\ Len(recs[x].frames) = 1 =>
                        /\ guesses[x].lo = recs[x].frames[1].len + excess(recs[x])
                        /\ guesses[x].hi = guesses[x].lo /\ excess(recs[x]) >= 0

LengthsAreTrue == SequenceIsTruth /\ RangesHold

=============================================================================
