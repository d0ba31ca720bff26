---------------------------- MODULE MCMigration ----------------------------
(* Alice may fail, roll back and start again; Bob has the commands he needs  *)
(* to commit, and reads two v0.1 letters with two pollers.                  *)
EXTENDS Migration, TLC
CONSTANTS alice, bob

MCSides == {alice, bob}
MCReaders == {bob}
MCMaxCommands == (alice :> 4) @@ (bob :> 3)
Symmetry == Permutations(Letters) \cup Permutations(Pollers)
=============================================================================
