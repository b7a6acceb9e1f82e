---------------------------- MODULE MCVaultFiles ----------------------------
(* A small instance: local keys, one managed backend, and the way between. *)
EXTENDS VaultFiles

CONSTANTS kms, old, new, first, second, long, other, short

Local(m) == [backend |-> "local", key |-> None, master |-> m, reach |-> {},
             production |-> FALSE, override |-> FALSE]
InKms(key, m) == [backend |-> kms, key |-> key, master |-> m, reach |-> {kms},
                  production |-> TRUE, override |-> FALSE]

\* The two last ones are not accepted.
Settings ==
    {Local(first), Local(second), InKms(old, first), InKms(new, None),
     [Local(first) EXCEPT !.reach = {kms}, !.production = TRUE, !.override = TRUE],
     [InKms(old, None) EXCEPT !.reach = {}],
     Local(None), [Local(first) EXCEPT !.production = TRUE]}
=============================================================================
