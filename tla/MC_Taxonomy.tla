---------------------------- MODULE MC_Taxonomy ----------------------------
(***************************************************************************)
(* Drives the encodings of camera.cpp with every triple of a probe id, a  *)
(* probe string and an enumerator: the probe moves freely over the inputs, one lookup per   *)
(* state.                                                                  *)
(***************************************************************************)
EXTENDS Taxonomy

\* Every encoding, near misses (case, the two-letter pattern names, the
\* display names used as ids, prefixes) and the empty string.
ProbeStrings ==
    {"yuv2", "mjpeg", "rgb24", "rgb48", "raw8", "raw16", "mono8", "mono16",
     "RAW8", "raw", "error", "",
     "NA", "RGGB", "GRBG", "BGGR", "GBRG", "RG", "GR", "BG", "GB", "rggb",
     "auto_exp", "exp", "wb", "wb_r", "cooler_on", "live_stretch", "Exp.", "gain ",
     "bool", "number", "msec", "percent", "kelvin", "celsius", "Bool"}

\* Option ids and types from -1 to two past the longer table.
ProbeIds == -1..17

VARIABLE probe

Probes == ProbeIds \X ProbeStrings \X (StreamEnum \cup BayerEnum)

Init == probe \in Probes
Next == probe' \in Probes
Spec == Init /\ [][Next]_probe

\* The probe enumerator round-trips through its string (stream_error has
\* none).
EnumsRoundTrip == EnumRoundTrip(probe[3])

\* The probe string, if a stream type or Bayer pattern, is its encoding.
StringsRoundTrip == StringRoundTrip(probe[2])

\* The probe id and string round-trip through the option tables.
TablesRoundTrip == TableRoundTrip(probe[1], probe[2])

\* The probe id has a display name exactly when it has a string id.
OptionNamesParallel == NamesParallel(probe[1])
=============================================================================
