------------------------------ MODULE MCParsers ------------------------------
(* What turns bytes into values, side by side: a behaviour is one of the GPS   *)
(* parsers fed by a receiver, of the calendar of epoch.c, of the set command,  *)
(* or of the Intel hex parser.                                                 *)
EXTENDS Gps, Epoch, Settings, Ihex

VARIABLE part

\* Files with both kinds of base, a record that is ignored, one behind the end, one that
\* is too long and one of an unknown type.
HexFiles == {
    <<<<LIN_ADDR, 0, <<8, 0>>>>, <<DATA, 16, <<222, 1>>>>, <<LIN_START, 0, <<8, 0>>>>,
      <<DATA, 256, <<255>>>>, <<EOF_REC, 0, << >>>>>>,
    <<<<DATA, 2, <<5>>>>, <<SEG_ADDR, 0, <<16, 1>>>>, <<DATA, 3, <<0, 240>>>>,
      <<EOF_REC, 0, << >>>>, <<DATA, 9, <<9>>>>>>,
    <<<<DATA, 0, <<1>>>>, <<DATA, 1, <<1, 2, 3, 4>>>>>>,
    <<<<SEG_START, 0, <<0>>>>, <<DATA, 4, <<7>>>>, <<6, 0, <<1>>>>>>,
    <<<<SEG_ADDR, 0, <<1, 2, 3>>>>, <<EOF_REC, 0, << >>>>>>}

Text(s) == [i \in DOMAIN s |-> IF s[i] \in 0 .. 9 THEN 48 + s[i] ELSE s[i]]

\* Values at the limits of their type, past them, and malformed.
Typed(v) ==
    CASE v = UINT32 -> {Text(<<9>>), Text(<<1, 0, 4, 8, 5, 7, 5>>), Text(<<1, 0, 4, 8, 5, 7, 7>>),
                        Text(<<1, 97>>)}
      [] v = UINT16 -> {Text(<<6, 5, 5, 3, 5>>), Text(<<6, 5, 5, 3, 7, DOT, 4>>), << >>}
      [] v = IP4 -> {Text(<<1, 9, 2, DOT, 0, DOT, 2, 5, 5, DOT, 1, 6>>),
                     Text(<<3, 0, 0, DOT, 1, DOT, SPACE, 5, EQUALS>>)}
      [] v = HEX -> {Text(<<97, 66, 3>>), Text(<<102, 102, 0, 1, 9, 9>>)}
      [] v \in Flags -> {t_true, t_false, <<121>>, <<111, 110>>, <<111, 102, 102>>, <<111>>}

SetLines ==
    {<<v>> \o sep \o arg : v \in Range(value_table), sep \in {<<EQUALS>>, <<SPACE, EQUALS, SPACE>>},
                           arg \in UNION {Typed(w) : w \in {UINT32, FLAG_PPSEN}}}
    \cup UNION {{<<v, EQUALS>> \o arg : arg \in Typed(v)} : v \in Range(value_table)}
    \cup {<<UINT32>>, <<EQUALS, 49>>, <<SPACE, UINT16, EQUALS, 49>>}

ParsersInit ==
    /\ GpsInit /\ EpochInit /\ SettingsInit /\ IhexInit
    /\ part \in {"gps", "epoch", "settings", "ihex"}
    \* the parts that stand still have one state
    /\ part # "gps" => proto = "ublox" /\ burst = 3 /\ ~timescale_gps
    /\ part # "ihex" => Len(source) = 2 /\ source[1][1] = SEG_ADDR

ParsersNext ==
    \/ part = "gps"      /\ GpsNext      /\ UNCHANGED <<part, evars, setvars, ivars>>
    \/ part = "epoch"    /\ EpochNext    /\ UNCHANGED <<part, gvars, setvars, ivars>>
    \/ part = "settings" /\ SettingsNext /\ UNCHANGED <<part, gvars, evars, ivars>>
    \/ part = "ihex"     /\ IhexNext     /\ UNCHANGED <<part, gvars, evars, setvars>>

ParsersSpec == ParsersInit /\ [][ParsersNext]_<<part, gvars, evars, setvars, ivars>>
=============================================================================
