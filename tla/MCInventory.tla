---------------------------- MODULE MCInventory -----------------------------
(* Two providers whose listings may claim the same bus address, and whose  *)
(* functions change under the same id.                                     *)
EXTENDS Inventory

Arg(type, hasZero) == [required |-> TRUE, type |-> type, hasZero |-> hasZero]

MCSpecs == [f |-> [id |-> 1, category |-> "ACTUATE", args |-> {Arg("number", TRUE)}],
            g |-> [id |-> 2, category |-> "ACTUATE", args |-> {Arg("number", FALSE)}],
            b |-> [id |-> 3, category |-> "ACTUATE", args |-> {Arg("other", FALSE)}],
            h |-> [id |-> 1, category |-> "READ", args |-> {}]]

Listed(n, k, fs) == [name |-> n, claims |-> k, functions |-> fs]

MCListings == {{Listed("d", {"k"}, {"f"})},
               {Listed("d", {"k"}, {"f", "g"}), Listed("e", {"l"}, {"b", "h"})},
               {Listed("d", {"l"}, {"h"}), Listed("e", {"k", "l"}, {"f"})}}

CallOf(p, n, i, f, fs) == [provider |-> p, name |-> n, id |-> i, function |-> f, fits |-> fs]

MCSafeties == {[hooks |-> {CallOf("p", "d", 0, "f", {}), CallOf("q", "d", 1, "", {"f"})}, setpoints |-> {}, zero |-> TRUE],
               [hooks |-> {}, zero |-> TRUE,
                setpoints |-> {CallOf("p", "d", 1, "", {"f", "h"}), CallOf("q", "d", 1, "f", {"f"})}],
               [hooks |-> {}, zero |-> FALSE,
                setpoints |-> {CallOf("p", "d", 0, "f", {"f"}), CallOf("p", "e", 1, "", {"f"}), CallOf("q", "d", 1, "", {"f"})}]}
MCFaultHooks == {CallOf("p", "d", 0, "f", {"f"})}
MCRequests == {CallOf("p", "d", 0, "f", {"f"}), CallOf("p", "e", 1, "", {"f", "h"}), CallOf("q", "d", 1, "f", {"f"})}
MCBehindStop == {<<"p", "d">>}
MCMaxProcs == [p |-> 2, q |-> 2]
=============================================================================
