------------------------------ MODULE ClientIp ------------------------------
(* Who a request is from, and whether IP_BLOCKLIST refuses it:               *)
(* src/middleware/ip-blocklist.ts, its copy of getClientIp in rate-limit.ts, *)
(* and the copy with which routes/ws.ts serves upgrades.                     *)
(* An address is its dotted parts, each a number in its one usual spelling,  *)
(* or nothing, with or without the ::ffff: in front; any other text, IPv6    *)
(* too, is a single part that is no number. The numbers are JavaScript's:    *)
(* its shifts and masks work on signed integers of Width bits and take a     *)
(* shift count modulo Width.                                                 *)
EXTENDS Integers, Sequences, SequencesExt, Functions, JsMap

CONSTANTS
    PartBits,   \* 8
    Parts       \* 4

ASSUME SizesPositive == PartBits \in Nat \ {0} /\ Parts \in Nat \ {0}

Width == PartBits * Parts
PowerOf2[n \in 0..Width] == IF n = 0 THEN 1 ELSE 2 * PowerOf2[n - 1]
Size == PowerOf2[Width]
PartSize == PowerOf2[PartBits]

(* A part or a prefix that Number() turns into NaN or into a negative, and   *)
(* the text "", which Number() turns into 0.                                 *)
NaN == -1
Blank == -2
Number(text) == IF text = Blank THEN 0 ELSE text

Address(mapped, parts) == [mapped |-> mapped, parts |-> parts]
Text(mapped) == Address(mapped, <<NaN>>)
(* An item of X-Forwarded-For with nothing between its commas, and the null  *)
(* of getClientIp.                                                           *)
Nothing == Address(FALSE, <<>>)

NormalizeIp(ip) == Address(FALSE, ip.parts)

-----------------------------------------------------------------------------
(* Integers of Width bits                                                    *)

Unsigned(n) == n % Size
Signed(n) == IF Unsigned(n) >= Size \div 2 THEN Unsigned(n) - Size ELSE Unsigned(n)
Shl(n, count) == Signed(Unsigned(n) * PowerOf2[count % Width])

BitsOf(n) == {i \in 0..(Width - 1) : (Unsigned(n) \div PowerOf2[i]) % 2 = 1}
WithBits(bits) == Signed(SumFunctionOnSet(PowerOf2, bits))
Masked(m, n) == WithBits(BitsOf(m) \intersect BitsOf(n))

(* The parts shifted to their places and joined by |.                        *)
Joined(parts) ==
    WithBits(UNION {BitsOf(Shl(Number(parts[i]), PartBits * (Parts - i))) : i \in 1..Parts})

IpToInt(ip) ==
    IF \/ ip.mapped
       \/ Len(ip.parts) # Parts
       \/ \E i \in DOMAIN ip.parts :
            Number(ip.parts[i]) < 0 \/ Number(ip.parts[i]) >= PartSize
    THEN -1
    ELSE Unsigned(Joined(ip.parts))

(* A prefix is any number from 0 to Width, 8.5 too; it is given in halves,   *)
(* and one half stands for every fraction: a shift cuts its count, a         *)
(* difference, down to an integer.                                           *)
Halves == 2
Count(prefix) == (Halves * Width - prefix) \div Halves

(* Mutant: a shift by all the bits, which shifts by none.                    *)
MaskShifted(prefix) == Unsigned(Shl(-1, Count(prefix)))

Mask(prefix) == IF prefix = 0 THEN 0 ELSE Unsigned(Shl(-1, Count(prefix)))

-----------------------------------------------------------------------------
(* The blocklist                                                             *)

(* An entry without a slash, and one with: what is before it and what is     *)
(* behind it up to the next; split and destructuring lose the rest.          *)
Exact(ip) == [type |-> "exact", addr |-> ip]
Cidr(ip, prefix) == [type |-> "cidr", addr |-> ip, prefix |-> prefix]

(* parseEntry: the entries that are kept, and what is kept of them.          *)
Valid(entry) ==
    IF entry.type = "exact"
    THEN IpToInt(NormalizeIp(entry.addr)) # -1
    ELSE Number(entry.prefix) \in 0..(Halves * Width) /\ IpToInt(entry.addr) # -1

Parsed(entry) ==
    IF entry.type = "exact"
    THEN [type |-> "exact", ip |-> NormalizeIp(entry.addr)]
    ELSE LET mask == Mask(Number(entry.prefix))
         IN  [type |-> "cidr", mask |-> mask,
              network |-> Unsigned(Masked(IpToInt(entry.addr), mask))]

ParsedBlocklist(list) ==
    LET kept == Kept(list, {entry \in ToSet(list) : Valid(entry)})
    IN  [i \in DOMAIN kept |-> Parsed(kept[i])]

Matches(entry, ip) ==
    IF entry.type = "exact"
    THEN ip = entry.ip
    ELSE /\ IpToInt(ip) # -1
         /\ Unsigned(Masked(IpToInt(ip), entry.mask)) = entry.network

IsBlocked(list, ip) ==
    \E i \in DOMAIN ParsedBlocklist(list) : Matches(ParsedBlocklist(list)[i], ip)

-----------------------------------------------------------------------------
(* The client: forwarded is X-Forwarded-For split at its commas, which an    *)
(* absent header is not                                                      *)

Absent == <<>>
Listed(forwarded) == Kept(forwarded, ToSet(forwarded) \ {Nothing})

(* Mutant: an index counted from the other end.                              *)
FromTheLeft(ips, depth) ==
    IF ips = <<>> THEN Nothing
    ELSE ips[IF Len(ips) >= depth THEN depth ELSE Len(ips)]

(* ips[Math.max(0, ips.length - depth)], undefined when there are none.      *)
FromTheRight(ips, depth) ==
    IF ips = <<>> THEN Nothing
    ELSE ips[(IF Len(ips) > depth THEN Len(ips) - depth ELSE 0) + 1]

(* The header "" is falsy for Hono's copies and a string for the upgrade's:  *)
(* both then come to the socket.                                             *)
GetClientIp(forwarded, socket, depth) ==
    IF depth = 0 \/ forwarded \in {Absent, <<Nothing>>}
    THEN NormalizeIp(socket)
    ELSE NormalizeIp(FromTheRight(Listed(forwarded), depth))

GetUpgradeIp(forwarded, socket, depth) ==
    LET ip == FromTheRight(Listed(forwarded), depth)
    IN  NormalizeIp(IF depth = 0 \/ forwarded = Absent \/ ip = Nothing
                    THEN socket ELSE ip)

(* ipBlocklist() before any other handler, and its mirror on an upgrade.     *)
HttpVerdict(list, ip) ==
    IF ParsedBlocklist(list) = <<>> THEN "next"
    ELSE IF ip = Nothing THEN "400"
    ELSE IF IsBlocked(list, ip) THEN "403" ELSE "next"

UpgradeVerdict(list, ip) ==
    IF ip = Nothing THEN "400"
    ELSE IF IsBlocked(list, NormalizeIp(ip)) THEN "403" ELSE "next"
=============================================================================
