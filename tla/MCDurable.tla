------------------------------ MODULE MCDurable ------------------------------
(* Two savers on three kinds of file; the metadata and the selector share        *)
(* /var/lib/cnftctl.                                                           *)
EXTENDS DurableProperties
CONSTANTS active, meta, conf, s1, s2, v1, v2

Directories == [p \in {active, meta, conf} |-> IF p = conf THEN "etc" ELSE "lib"]
=============================================================================
