----------------------------- MODULE MCAnalyzer -----------------------------
(* TLC instances of Analyzer: "us" is the address of a.list.                *)
EXTENDS Analyzer, TLC

Conn(src, dst, sport, dport, protocol, bytes, cut) ==
    [src |-> src, dst |-> dst, sport |-> sport, dport |-> dport,
     protocol |-> protocol, bytes |-> bytes, cut |-> cut]

High == <<9, 0, 0, 1>>

\* A megabyte is 4 bytes.  Two peers; the first is reached on a web port and
\* on another; two lines are not counted: of our own two ends, and of w.list.
MCLines ==
    {Conn("us", "p1", High, <<8, 0>>, PROTOCOL_TCP, <<2, 3>>, FALSE),
     Conn("p1", "us", <<5, 3>>, High, PROTOCOL_UDP, <<3, 0>>, FALSE),
     Conn("p2", "us", <<4, 4, 3>>, High, PROTOCOL_TCP, <<1, 6>>, FALSE),
     Conn("us", "us", High, <<8, 0>>, PROTOCOL_TCP, <<2, 2>>, FALSE),
     Conn("p3", "us", <<5, 3>>, High, PROTOCOL_UDP, <<2, 2>>, FALSE)}

\* One peer, one web port: many connections.
MCOneLine == {Conn("us", "p1", High, <<8, 0>>, PROTOCOL_TCP, <<2, 3>>, FALSE)}

\* The first peer answers at once, the second after 2 seconds.
MCAnswer == [a \in Addr |-> IF a = "p2" THEN 2000000 ELSE 0]

\* The time-out and the count of lines are not read once the log has ended, nor
\* is what the lines add up to once there was harm.
MCView ==
    <<file, orig, map, pc, step, runs, faults, unbacked, unrestored, committed, spoilt,
      harm, IF harm = "safe" THEN <<fresh, total, outputs>> ELSE <<>>,
      IF pc \in {"build", "log"} THEN <<timeout_value, line_count>> ELSE <<>>>>
=============================================================================
