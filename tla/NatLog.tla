------------------------------- MODULE NatLog -------------------------------
(***************************************************************************)
(* What src/src/nat_log_parser.cpp reads in a line of the connection log,  *)
(* and what of a record survives c.list: written by dump_record            *)
(* (caches_maps.cpp), read back by parse_c_list (clist_parser.cpp).  A     *)
(* line is a record of its fields; a port is the sequence of its digits.   *)
(***************************************************************************)
EXTENDS Integers, Sequences, SequencesExt

CONSTANTS
    AList,        \* the addresses of a.list: ours
    BytesPerMB

ASSUME MBAssumption == BytesPerMB \in Nat \ {0}

\* port_type_t
Types == {"ALL", "80", "443", "8080"}
TcpTypes == Types \ {"ALL"}

\* The bits of logrecord_t.flag: PROTOCOL_TCP is {0}, PROTOCOL_UDP is {1}, and
\* an OR of flags is a union.
PROTOCOL_TCP == {0}
PROTOCOL_UDP == {1}
BitsOf(n) == {b \in 0 .. 15 : (n \div 2 ^ b) % 2 = 1}

\* identify_port: the name of a well-known port is compared with as many
\* characters of the number, in this order.
PortType(port) ==
    CASE IsPrefix(<<8, 0>>, port)       -> "80"
      [] IsPrefix(<<4, 4, 3>>, port)    -> "443"
      [] OTHER                          -> "ALL"

\* identify_bytes: the counters of both directions; the sum is dropped when
\* the line is cut short in one of them.
TrafficOf(line) == IF line.cut THEN 0 ELSE SumFunction(line.bytes)

\* parse_log and identify_protocol_ip_port: of the two ends of the connection
\* exactly one is ours, and the line is about the other.
IsRelevant(line) ==
    /\ line.protocol \in {PROTOCOL_TCP, PROTOCOL_UDP}
    /\ (line.src \in AList) # (line.dst \in AList)
    /\ TrafficOf(line) # 0
Foreign(line) == IF line.src \in AList THEN line.dst ELSE line.src
TypeOf(line) == PortType(IF line.src \in AList THEN line.dport ELSE line.sport)
RecordOf(line) ==
    [count |-> 1, bytes |-> TrafficOf(line), flag |-> line.protocol]

Sum(a, b) == [count |-> a.count + b.count,
              bytes |-> a.bytes + b.bytes,
              flag  |-> a.flag \cup b.flag]

\* dump_record: traffic is written in whole megabytes.
Written(rec) ==
    [mb |-> rec.bytes \div BytesPerMB, count |-> rec.count, flag |-> rec.flag]

\* parse_c_list: after the count has been read, the search for the flag moves
\* on from the first digit of the count, and stops at its second if it has one.
FlagRead(e) ==
    IF e.count < 10 THEN e.flag
    ELSE LET top == CHOOSE p \in {10 ^ k : k \in 1 .. 9} :
                        p <= e.count /\ e.count < 10 * p
         IN BitsOf((e.count % top) % 2 ^ 16)
ReadBackBytes(e) ==           \* mutant: megabytes are taken for bytes
    [count |-> e.count, bytes |-> e.mb, flag |-> FlagRead(e)]
ReadBack(e) ==
    [count |-> e.count, bytes |-> e.mb * BytesPerMB, flag |-> FlagRead(e)]
=============================================================================
