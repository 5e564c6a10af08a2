-------------------------------- MODULE MCDfx --------------------------------
(* An instance of Dfx for TLC: what is typed.  Every command by itself, and   *)
(* pairs that meet in ltran's control thread.                                 *)
EXTENDS Dfx, TLC

CONSTANTS c1, c2

Typed(x, y) == (c1 :> x) @@ (c2 :> y)

MCPlans ==
  {Typed(x, None) : x \in DOMAIN Command}
  \cup {Typed("lstack_show", "lstack_set_loglevel"),
        Typed("lstack_snmp", "ltran_quit")}
=============================================================================
