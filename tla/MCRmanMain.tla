----------------------------- MODULE MCRmanMain -----------------------------
EXTENDS RmanMain

(* Every plain option that changes control, '-i' short and too long, '-X' *)
(* with and without the record parent and with a good, missing or too     *)
(* long iteration element, and '-T'/'-L' values that parse and that fail   *)
(* on the flag, the value or the suffix.                                   *)
MCTokens ==
  {[o |-> x] : x \in {"l", "p", "d", "G", "R", "P", "C", "h", "?"}}
  \cup {[o |-> "i", long |-> b] : b \in BOOLEAN}
  \cup {[o |-> "X", parent |-> TRUE, next |-> n] : n \in {"ok", "none", "long"}}
  \cup {[o |-> "X", parent |-> FALSE, next |-> "ok"]}
  \cup {[o |-> "T", flag |-> f, val |-> 2, unit |-> "m"] : f \in {"G", "R", "x"}}
  \cup {[o |-> "T", flag |-> "C", val |-> 3, unit |-> "bad"],
        [o |-> "T", flag |-> "R", val |-> UllMax, unit |-> ""],
        [o |-> "T", flag |-> "R", val |-> 5, unit |-> "-"]}
  \cup {[o |-> "L", flag |-> f, val |-> 2, end |-> ""] : f \in {"p", "x"}}
  \cup {[o |-> "L", flag |-> "s", val |-> 1, end |-> "bad"],
        [o |-> "L", flag |-> "c", val |-> UllMax, end |-> "-"]}

====
