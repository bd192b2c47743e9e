---------------------------- MODULE MC_ConfigBgp ----------------------------
(* Two bgp commands against one `config reload`, two neighbors. *)
EXTENDS ConfigBgp, TLC

CONSTANTS c1, c2, a1, a2, h1, h2

MC_Consumers == {c1, c2}
MC_Addrs     == {a1, a2}
MC_Names     == {h1, h2}
MC_NameOf    == (a1 :> h1) @@ (a2 :> h2)
\* shutdown all, startup all, shutdown neighbor <hostname>, startup
\* neighbor <address>
MC_Cmds ==
    { [op |-> "all", arg |-> a1, st |-> "down"],
      [op |-> "all", arg |-> a1, st |-> "up"],
      [op |-> "neighbor", arg |-> h2, st |-> "down"],
      [op |-> "neighbor", arg |-> a1, st |-> "up"] }
MC_Both == {a1, a2}
MC_OnlyA1 == {a1}
=============================================================================
