----------------------------- MODULE MCSessions -----------------------------
(***************************************************************************)
(* What TLC checks: sessions by themselves and in pairs.                   *)
(***************************************************************************)
EXTENDS Sessions, TLC

CONSTANTS s1, s2
MCIds == {s1, s2}
Cast(a, b, f, r) == [kinds |-> (s1 :> a) @@ (s2 :> b), faults |-> f, restarts |-> r]

(* Each kind by itself with failures and a restart, and pairs that share   *)
(* the registry, the sweeper's rounds and the token store.                 *)
Alone == {Cast(k, "unused", 2, 1) : k \in {"ssh", "serial", "docker", "jump", "vnc"}}
Pairs == {Cast("ssh", "docker", 0, 0), Cast("vnc", "vnc", 0, 0)}
MCCasts == Alone \union Pairs
=============================================================================
