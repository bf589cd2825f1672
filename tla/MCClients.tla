----------------------------- MODULE MCClients ------------------------------
(***************************************************************************)
(* Instances of Clients for TLC: the command lines.                        *)
(***************************************************************************)
EXTENDS Clients

Cli(cmd, n, well, overTcp, key) ==
    [client |-> "cli", cmd |-> cmd, args |-> n, wellFormed |-> well,
     tcp |-> overTcp, key |-> key]

(* Every command over the pipe with one argument too few, the fewest and   *)
(* the most, the arguments good and bad.                                   *)
ArgCounts(c) == {n \in {c.least - 1, c.least, Len(c.places)} : n >= 0}

PipeCommands ==
    UNION {{Cli(c.name, n, well, FALSE, FALSE) : n \in ArgCounts(c), well \in BOOLEAN} :
              c \in CliCommands}

LocalCommands ==
    {Cli("config", n, TRUE, FALSE, FALSE) : n \in {1, 2}}
        \cup {Cli("discover", 0, TRUE, FALSE, FALSE)}

(* A command there is none of, and arguments there is no place for. *)
OddCommands ==
    {Cli("help", 0, TRUE, FALSE, FALSE), Cli("info", 3, TRUE, FALSE, FALSE)}

CliOverTcp == {Cli("top", 0, TRUE, TRUE, key) : key \in BOOLEAN}

PortableRuns ==
    {[client |-> "portable", cmd |-> cmd, args |-> n, wellFormed |-> TRUE,
      tcp |-> TRUE, key |-> FALSE] : cmd \in {"top", "pick", "ui-inspect"}, n \in {0, 2}}

Peers ==
    {[client |-> "peer", cmd |-> "top", args |-> 0, wellFormed |-> TRUE,
      tcp |-> TRUE, key |-> TRUE, valid |-> v, ecdh |-> e,
      sealed |-> s, length |-> l] :
          v \in BOOLEAN, e \in {"none", "usable", "unusable"},
          s \in {"no", "yes"}, l \in {"good", "bad"}}

AllInvocations ==
    PipeCommands \cup OddCommands \cup LocalCommands \cup CliOverTcp \cup PortableRuns \cup Peers
=============================================================================
