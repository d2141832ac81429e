---------------------------- MODULE MCMigrations ----------------------------
(* A small instance of Migrations for TLC: the files of migrations/ that     *)
(* create, drop or need a table another has made, and one without a version. *)
EXTENDS Migrations, TLC

SomeFiles == {"V1__init", "V3__homepage_seed", "V6__drop_navigation", "V10__server_metrics", "seed"}

Versioned == [V1__init |-> "1", V3__homepage_seed |-> "3", V6__drop_navigation |-> "6",
              V10__server_metrics |-> "10", seed |-> Null]

Numbered == "1" :> 1 @@ "3" :> 3 @@ "6" :> 6 @@ "10" :> 10

Ranked == [V1__init |-> 1, V3__homepage_seed |-> 3, V6__drop_navigation |-> 4,
           V10__server_metrics |-> 2, seed |-> 5]

SomeTables == {"navigation_items", "homepage_blocks", "server_metric_samples"}

Created == [V1__init |-> {"navigation_items"}, V3__homepage_seed |-> {"homepage_blocks"},
            V6__drop_navigation |-> {}, V10__server_metrics |-> {"server_metric_samples"},
            seed |-> {}]

Dropped == [f \in SomeFiles |-> IF f = "V6__drop_navigation" THEN {"navigation_items"} ELSE {}]

Needed == [f \in SomeFiles |-> IF f = "V3__homepage_seed" THEN {"navigation_items"} ELSE {}]
=============================================================================
