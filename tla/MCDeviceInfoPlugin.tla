------------------------- MODULE MCDeviceInfoPlugin -------------------------
(* DeviceInfoPlugin for TLC. Clients are interchangeable, and so are       *)
(* workers: no action and no safety property tells one from another.       *)
EXTENDS DeviceInfoPlugin, TLC

Interchangeable == Permutations(Clients) \cup Permutations(Workers)
=============================================================================
