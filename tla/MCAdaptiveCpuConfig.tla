------------------------- MODULE MCAdaptiveCpuConfig -------------------------
(* Option strings of up to three characters over two digits and the     *)
(* comma: in range ("0", "5"), out of range ("55"), lists ("0,5"), empty *)
(* segments (",5") and trailing commas ("0,").  MCOptionValuesLoose has a *)
(* leading space and a sign (" 5", "+5").                                *)
EXTENDS AdaptiveCpuConfig

MCOptionValues == BoundedSeq({"0", "5", ","}, 3) \ {<<>>}
MCOptionValuesLoose == BoundedSeq({"5", " ", "+", ","}, 2) \ {<<>>}
====
