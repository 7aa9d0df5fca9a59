------------------------------- MODULE IpMask -------------------------------
(***************************************************************************)
(* src/src/ipmask.cpp: addresses of Width bits (32 in the program), the    *)
(* block of addresses that share a prefix, and the prefix of a block.  A   *)
(* block is <<start, end>>.  ip & (ones << (Width - mask)) and             *)
(* ip | (ones >> mask) clear and set the low Width - mask bits, which is   *)
(* what % does here.                                                       *)
(***************************************************************************)
EXTENDS Integers, FiniteSets

CONSTANTS
    Width,
    MISSING,    \* there is no "/" in the text, or what is before it is no address
    NOTHING,    \* the text is empty or has only "/"
    Long        \* the addresses that are fifteen characters when written

ASSUME WidthAssumption == Width \in Nat \ {0}

\* 1 << n.
shl[n \in 0 .. Width] == IF n = 0 THEN 1 ELSE 2 * shl[n - 1]

Top == shl[Width] - 1
Word == 0 .. Top
Succ(ip) == (ip + 1) % shl[Width]       \* uint32_t arithmetic

BlockSize(mask) == shl[Width - mask]

\* An invalid mask yields the block of address 0, which is also a valid one.
get_ip_seg_from_ip_mask(ip, mask) ==
    IF mask \notin 0 .. Width THEN <<0, 0>>
    ELSE LET low == ip - (ip % BlockSize(mask))
         IN  <<low, low + BlockSize(mask) - 1>>

\* A text is [ip, mask]: what inet_pton and atoi make of the two parts.
MaskOf(text) == IF text.mask = MISSING THEN Width ELSE text.mask

\* The intervals the function may return.  strncpy copies a null pointer when
\* there is nothing: it does not return.  It writes no '\0' behind fifteen
\* characters, and inet_pton refuses the address unless the byte that lies
\* there happens to be one.
get_ip_seg_from_mask_str(text) ==
    LET seg == get_ip_seg_from_ip_mask(text.ip, MaskOf(text)) IN
    IF text.ip = NOTHING THEN {}
    ELSE IF text.ip = MISSING THEN {<<0, 0>>}
    ELSE IF text.ip \in Long THEN {<<0, 0>>, seg}
    ELSE {seg}

\* (start ^ end) >> n is zero when the bits from n on agree.
AgreeFrom(seg, n) == seg[1] \div shl[n] = seg[2] \div shl[n]

\* The binary search for the lowest n from which they agree: a range
\* <<begin, end>> is halved until it is narrow.
Halve(seg, range) ==
    LET search[r \in (0 .. Width) \X (0 .. Width)] ==
            LET mid == (r[1] + r[2]) \div 2 IN
            IF r[2] - r[1] <= 1 THEN r
            ELSE IF AgreeFrom(seg, mid) THEN search[<<r[1], mid>>]
                                        ELSE search[<<mid, r[2]>>]
    IN search[range]
get_ip_mask_from_ip_seg(seg) ==
    LET r == Halve(seg, <<0, Width>>)
    IN  Width - (IF AgreeFrom(seg, r[1]) THEN r[1] ELSE r[2])

-----------------------------------------------------------------------------
\* The blocks there are, and the addresses of a set of intervals.
Block == {get_ip_seg_from_ip_mask(ip, mask) : ip \in Word, mask \in 0 .. Width}
Addresses(segs) == UNION {s[1] .. s[2] : s \in segs}
Inside(s, t) == t[1] <= s[1] /\ s[2] <= t[2]
=============================================================================
