------------------------------- MODULE Settings -------------------------------
(***************************************************************************)
(* lib/cmdline/settings.c and util/parse.c: the set command, which parses a   *)
(* value into the configuration and prints it back.  A line is a sequence of  *)
(* character codes; a setting's name is one code of its own.  32-bit words    *)
(* are W32 wide here.                                                         *)
(***************************************************************************)
EXTENDS Integers, Sequences, SequencesExt

CONSTANTS
    W32, W16,      \* 2^32 and 2^16 in the code
    KeyBytes,      \* length of the VAR_HEX setting, 20 in the code
    Lines          \* what the user types after "set"

ASSUME SettingsAssumption == {W32, W16, KeyBytes} \subseteq Nat \ {0} /\ W16 <= W32

SPACE == 32
DOT == 46
EQUALS == 61
Digit(d) == 48 + d
HexDigit(d) == IF d < 10 THEN 48 + d ELSE 87 + d
\* codes of names: holdover_time, gps_listen_port, ip_addr, ntp_key, and two flags
UINT32 == 1001
UINT16 == 1002
IP4 == 1003
HEX == 1004
FLAG_GPSEXT == 1005
FLAG_PPSEN == 1006
Flags == {FLAG_GPSEXT, FLAG_PPSEN}
value_table == <<UINT32, UINT16, IP4, HEX, FLAG_GPSEXT, FLAG_PPSEN>>
t_true  == <<116, 114, 117, 101>>
t_false == <<102, 97, 108, 115, 101>>

VARIABLES
    u32, u16, ip, hex, flags   \* the configuration

cfg   == [u32 |-> u32, u16 |-> u16, ip |-> ip, hex |-> hex, flags |-> flags]
setvars == <<u32, u16, ip, hex, flags>>

-----------------------------------------------------------------------------
(* Printing. *)

Decimal[k \in Nat] == IF k < 10 THEN <<Digit(k)>> ELSE Append(Decimal[k \div 10], Digit(k % 10))

cliPrintVar(c, var) ==
    CASE var = UINT32 -> Decimal[c.u32]
      [] var = UINT16 -> Decimal[c.u16]
      [] var = IP4 -> Decimal[c.ip[1]] \o <<DOT>> \o Decimal[c.ip[2]] \o <<DOT>>
                      \o Decimal[c.ip[3]] \o <<DOT>> \o Decimal[c.ip[4]]
      [] var = HEX -> FlattenSeq([i \in 1 .. KeyBytes |->
                                     <<HexDigit(c.hex[i] \div 16), HexDigit(c.hex[i] % 16)>>])
      [] var \in Flags -> IF var \in c.flags THEN t_true ELSE t_false

-----------------------------------------------------------------------------
(* Parsing. *)

IsDigit(x) == x \in 48 .. 57

\* Up to the first period or the end; 0 when there is anything but digits.
atoi_decimal(str) ==
    LET dots == {i \in DOMAIN str : str[i] = DOT}
        head == IF dots = {} THEN str ELSE SubSeq(str, 1, (CHOOSE i \in dots : \A j \in dots : i <= j) - 1)
    IN  IF \A i \in DOMAIN head : IsDigit(head[i])
        THEN FoldLeft(LAMBDA r, x : (r * 10 + x - 48) % W32, 0, head) ELSE 0

parse_hex_digit(x) ==
    CASE x \in 48 .. 57 -> x - 48 [] x \in 65 .. 70 -> x - 55 [] x \in 97 .. 102 -> x - 87
      [] OTHER -> 0

\* Fault: the octets are shifted in from the other end.
parse_ip4_fault(str) ==
    LET m == FoldLeft(LAMBDA s, x :
                 IF x = DOT THEN [val |-> <<s.val2>> \o SubSeq(s.val, 1, 3), val2 |-> 0]
                 ELSE IF IsDigit(x) THEN [s EXCEPT !.val2 = (@ * 10 + x - 48) % 256] ELSE s,
                 [val |-> <<0, 0, 0, 0>>, val2 |-> 0], str)
    IN  <<m.val2>> \o SubSeq(m.val, 1, 3)

\* Octets are shifted in from the right; other characters are skipped.
parse_ip4(str) ==
    LET m == FoldLeft(LAMBDA s, x :
                 IF x = DOT THEN [val |-> Append(Tail(s.val), s.val2), val2 |-> 0]
                 ELSE IF IsDigit(x) THEN [s EXCEPT !.val2 = (@ * 10 + x - 48) % 256] ELSE s,
                 [val |-> <<0, 0, 0, 0>>, val2 |-> 0], str)
    IN  Append(Tail(m.val), m.val2)

\* Pairs of digits; half a pair is dropped and the rest padded with zeroes.
parse_hex_string(str) ==
    [i \in 1 .. KeyBytes |->
        IF 2 * i <= Len(str) THEN parse_hex_digit(str[2 * i - 1]) * 16 + parse_hex_digit(str[2 * i])
        ELSE 0]

StartsWith(str, a) == Len(str) >= Len(a) /\ SubSeq(str, 1, Len(a)) = a
Yes(str) == \E a \in {<<116>>, <<121>>, <<111, 110>>} : StartsWith(str, a)    \* t, y, on
No(str)  == \E a \in {<<102>>, <<110>>, <<111, 102>>} : StartsWith(str, a)    \* f, n, of

cliSetVar(c, var, str) ==
    CASE var = UINT32 -> [c EXCEPT !.u32 = atoi_decimal(str)]
      [] var = UINT16 -> [c EXCEPT !.u16 = atoi_decimal(str) % W16]
      [] var = IP4 -> [c EXCEPT !.ip = parse_ip4(str)]
      [] var = HEX -> [c EXCEPT !.hex = parse_hex_string(str)]
      [] var \in Flags -> IF Yes(str) THEN [c EXCEPT !.flags = @ \cup {var}]
                          ELSE IF No(str) THEN [c EXCEPT !.flags = @ \ {var}] ELSE c

-----------------------------------------------------------------------------
(* cli_cmd_set *)

\* The part before the first = without the spaces at its end, and the part after it
\* without the spaces at its beginning.
Name(line, eq) ==
    LET ends == {k \in 0 .. eq - 1 : \A i \in k + 1 .. eq - 1 : line[i] = SPACE}
    IN  SubSeq(line, 1, CHOOSE k \in ends : \A l \in ends : k <= l)
Argument(line, eq) ==
    LET starts == {k \in eq + 1 .. Len(line) + 1 : \A i \in eq + 1 .. k - 1 : line[i] = SPACE}
    IN  SubSeq(line, CHOOSE k \in starts : \A l \in starts : k >= l, Len(line))

Apply(c, line) ==
    LET eqs  == {i \in DOMAIN line : line[i] = EQUALS}
        eq   == CHOOSE i \in eqs : \A j \in eqs : i <= j
        vars == {v \in Range(value_table) : <<v>> = Name(line, eq)}
    IN  IF eqs = {} \/ vars = {} THEN c
        ELSE cliSetVar(c, CHOOSE v \in vars : TRUE, Argument(line, eq))

cli_cmd_set(line) ==
    \E c \in {Apply(cfg, line)} :
        u32' = c.u32 /\ u16' = c.u16 /\ ip' = c.ip /\ hex' = c.hex /\ flags' = c.flags

SettingsInit ==
    /\ u32 = 0 /\ u16 = 0 /\ ip = <<0, 0, 0, 0>> /\ hex = [i \in 1 .. KeyBytes |-> 0]
    /\ flags = {}

SettingsNext == \E line \in Lines : cli_cmd_set(line)
SettingsSpec == SettingsInit /\ [][SettingsNext]_setvars

-----------------------------------------------------------------------------

Listing == [i \in DOMAIN value_table |->
               <<value_table[i], SPACE, EQUALS, SPACE>> \o cliPrintVar(cfg, value_table[i])]

Defaults == [u32 |-> 7, u16 |-> 7, ip |-> <<7, 7, 7, 7>>, hex |-> [i \in 1 .. KeyBytes |-> 7],
             flags |-> Flags]

\* The settings that "set" lists, typed in again line by line on another device, give
\* it the same configuration, whatever was typed to get there and whatever the other
\* device had before; in particular a line changes no setting but its own.
ListingRestores == FoldLeft(Apply, Defaults, Listing) = cfg
=============================================================================
