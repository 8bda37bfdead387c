---------------------------- MODULE MCVendorChannel ----------------------------
(* VendorChannel for TLC: two recognizers, the first of which matches.      *)
EXTENDS VendorChannel

MCProbed == <<"LT2244", "SM2242">>
=============================================================================
