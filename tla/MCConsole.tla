------------------------------ MODULE MCConsole ------------------------------
(* The byte streams of the main thread, side by side: a behaviour is one of   *)
(* the serial ports with their writers, of the command line fed by a user, or *)
(* of the relay with its TCP clients.                                         *)
EXTENDS Serial, Cli, Relay

VARIABLE part

Perms == Permutations(Writer) \cup Permutations(Client)

ConsoleInit ==
    /\ SerialInit /\ CliInit /\ RelayInit
    /\ part \in {"serial", "cli", "relay"}
    \* the parts that stand still have one state
    /\ part # "cli" => eol = <<CR>>
    /\ part # "serial" => gps_serial = "Serial4"

ConsoleNext ==
    \/ part = "serial" /\ SerialNext /\ UNCHANGED <<part, cvars, rvars>>
    \/ part = "cli"    /\ CliNext    /\ UNCHANGED <<part, svars, rvars>>
    \/ part = "relay"  /\ RelayNext  /\ UNCHANGED <<part, svars, cvars>>

ConsoleSpec == ConsoleInit /\ [][ConsoleNext]_<<part, svars, cvars, rvars>>
=============================================================================
