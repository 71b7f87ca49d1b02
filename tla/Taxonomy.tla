------------------------------ MODULE Taxonomy ------------------------------
(***************************************************************************)
(* The string encodings of camera.cpp: stream types, Bayer patterns,      *)
(* camera option identifiers with their display names, and option value   *)
(* types.  An enumerator is written as its C++ name ("stream_yuv2"), an   *)
(* option id and an option type as the integer value the code indexes    *)
(* its tables with; the encodings are the code's string literals.  A      *)
(* thrown CamError is the constant CamError, neither a string nor an int. *)
(***************************************************************************)
EXTENDS Integers, Sequences

CONSTANT CamError

StreamEnum == {"stream_yuv2", "stream_mjpeg", "stream_rgb24", "stream_rgb48",
               "stream_raw8", "stream_raw16", "stream_mono8", "stream_mono16",
               "stream_error"}
BayerEnum == {"bayer_na", "bayer_rg", "bayer_gr", "bayer_bg", "bayer_gb"}

-----------------------------------------------------------------------------
\* stream_type_to_str: the switch, whose default throws.
StreamTypeToStr(s) ==
    CASE s = "stream_yuv2"   -> "yuv2"
      [] s = "stream_rgb24"  -> "rgb24"
      [] s = "stream_rgb48"  -> "rgb48"
      [] s = "stream_raw8"   -> "raw8"
      [] s = "stream_raw16"  -> "raw16"
      [] s = "stream_mono8"  -> "mono8"
      [] s = "stream_mono16" -> "mono16"
      [] s = "stream_mjpeg"  -> "mjpeg"
      [] OTHER -> CamError

\* Seeded fault: the raw16 test is a copy of the raw8 one.
StreamTypeFromStrRaw16Typo(s) ==
    CASE s = "mjpeg"  -> "stream_mjpeg"
      [] s = "yuv2"   -> "stream_yuv2"
      [] s = "rgb24"  -> "stream_rgb24"
      [] s = "rgb48"  -> "stream_rgb48"
      [] s = "raw8"   -> "stream_raw8"
      [] s = "raw8"   -> "stream_raw16"
      [] s = "mono8"  -> "stream_mono8"
      [] s = "mono16" -> "stream_mono16"
      [] OTHER -> CamError

\* stream_type_from_str: the chain of comparisons, then throw.
StreamTypeFromStr(s) ==
    CASE s = "mjpeg"  -> "stream_mjpeg"
      [] s = "yuv2"   -> "stream_yuv2"
      [] s = "rgb24"  -> "stream_rgb24"
      [] s = "rgb48"  -> "stream_rgb48"
      [] s = "raw8"   -> "stream_raw8"
      [] s = "raw16"  -> "stream_raw16"
      [] s = "mono8"  -> "stream_mono8"
      [] s = "mono16" -> "stream_mono16"
      [] OTHER -> CamError

\* bayer_type_to_str: every enumerator has a case; the trailing throw is
\* reached only by a value outside the enumeration.
BayerTypeToStr(b) ==
    CASE b = "bayer_na" -> "NA"
      [] b = "bayer_rg" -> "RGGB"
      [] b = "bayer_gr" -> "GRBG"
      [] b = "bayer_bg" -> "BGGR"
      [] b = "bayer_gb" -> "GBRG"
      [] OTHER -> CamError

\* Seeded fault: the two-letter pattern names are accepted as well.
BayerTypeFromStrLenient(s) ==
    CASE s \in {"NA"}         -> "bayer_na"
      [] s \in {"RGGB", "RG"} -> "bayer_rg"
      [] s \in {"GRBG", "GR"} -> "bayer_gr"
      [] s \in {"BGGR", "BG"} -> "bayer_bg"
      [] s \in {"GBRG", "GB"} -> "bayer_gb"
      [] OTHER -> CamError

\* bayer_type_from_str.
BayerTypeFromStr(s) ==
    CASE s = "NA"   -> "bayer_na"
      [] s = "RGGB" -> "bayer_rg"
      [] s = "GRBG" -> "bayer_gr"
      [] s = "BGGR" -> "bayer_bg"
      [] s = "GBRG" -> "bayer_gb"
      [] OTHER -> CamError

-----------------------------------------------------------------------------
\* Seeded fault: the display-name table lost its last entry.
OptionNamesShort ==
    <<"Auto Exp.", "Auto WB", "Exp.", "WB", "WB Red", "WB Blue", "Gain", "Gamma",
      "Bright.", "Contr.", "Temp.", "Cooler Tgt.", "Cooler", "Fan", "Cooler Pwr.">>

\* The three tables, indexed from 0 in the code and from 1 here.
OptionStringIds ==
    <<"auto_exp", "auto_wb", "exp", "wb", "wb_r", "wb_b", "gain", "gamma",
      "brightness", "contrast", "temperature", "cooler_target", "cooler_on",
      "fan_on", "cooler_power", "live_stretch">>
OptionNames ==
    <<"Auto Exp.", "Auto WB", "Exp.", "WB", "WB Red", "WB Blue", "Gain", "Gamma",
      "Bright.", "Contr.", "Temp.", "Cooler Tgt.", "Cooler", "Fan", "Cooler Pwr.",
      "Auto Str.">>
OptionTypeNames == <<"bool", "number", "msec", "percent", "kelvin", "celsius">>

\* CamError is neither a string nor an int.  That it differs from each
\* table entry follows, and is stated as well because the provers do not
\* know that a string literal is a member of STRING.
ASSUME CamErrorAssumption ==
    /\ CamError \notin STRING /\ CamError \notin Int
    /\ \A t \in {OptionStringIds, OptionNames, OptionTypeNames} :
          \A i \in 1..Len(t) : t[i] # CamError

\* The value of an enumerator converted to size_t or unsigned: a negative
\* one wraps to at least 2^31, past the end of every table.
InTable(id, t) == id \in 0..(Len(t) - 1)

\* table[id] after the bounds test, which throws past the end.
Lookup(t, id) == IF InTable(id, t) THEN t[id + 1] ELSE CamError

\* Seeded fault: the loop index is returned one-based.
SearchOneBased(t, name) ==
    IF \E i \in 1..Len(t) : t[i] = name
       THEN CHOOSE i \in 1..Len(t) : t[i] = name /\ \A j \in 1..(i - 1) : t[j] # name
       ELSE CamError

\* The for loops of the from-string lookups: the first index whose entry
\* equals name, else throw.
Search(t, name) ==
    IF \E i \in 0..(Len(t) - 1) : t[i + 1] = name
       THEN CHOOSE i \in 0..(Len(t) - 1) :
               t[i + 1] = name /\ \A j \in 0..(i - 1) : t[j + 1] # name
       ELSE CamError

CamOptionIdToStringId(id) == Lookup(OptionStringIds, id)
CamOptionIdToName(id) == Lookup(OptionNames, id)
CamOptionIdFromStringId(name) == Search(OptionStringIds, name)
CamOptionTypeToStr(t) == Lookup(OptionTypeNames, t)
CamOptionTypeFromStr(name) == Search(OptionTypeNames, name)

-----------------------------------------------------------------------------
(***************************************************************************)
(* Properties (section 8 of the specification: every tag round-trips and  *)
(* any other string raises the domain error).                              *)
(***************************************************************************)

\* Every stream type but stream_error, and every Bayer pattern, comes back
\* from its string; stream_error has none.
EnumRoundTrip(e) ==
    /\ e \in StreamEnum \ {"stream_error"} => StreamTypeFromStr(StreamTypeToStr(e)) = e
    /\ e = "stream_error" => StreamTypeToStr(e) = CamError
    /\ e \in BayerEnum => BayerTypeFromStr(BayerTypeToStr(e)) = e

\* A string the parsers accept is the encoding of what they return, so
\* two different strings never name the same stream type or pattern.
StringRoundTrip(s) ==
    /\ StreamTypeFromStr(s) # CamError => StreamTypeToStr(StreamTypeFromStr(s)) = s
    /\ BayerTypeFromStr(s) # CamError => BayerTypeToStr(BayerTypeFromStr(s)) = s

\* Option ids and option types: every table index round-trips through its
\* string id, every id past the table throws, and an accepted string is
\* the entry at the index it returns.
TableRoundTrip(id, s) ==
    /\ InTable(id, OptionStringIds) <=> CamOptionIdToStringId(id) # CamError
    /\ InTable(id, OptionStringIds) => CamOptionIdFromStringId(CamOptionIdToStringId(id)) = id
    /\ CamOptionIdFromStringId(s) # CamError => CamOptionIdToStringId(CamOptionIdFromStringId(s)) = s
    /\ InTable(id, OptionTypeNames) <=> CamOptionTypeToStr(id) # CamError
    /\ InTable(id, OptionTypeNames) => CamOptionTypeFromStr(CamOptionTypeToStr(id)) = id
    /\ CamOptionTypeFromStr(s) # CamError => CamOptionTypeToStr(CamOptionTypeFromStr(s)) = s

\* Every option id that has a string id also has a display name: the two
\* parallel tables have the same length.
NamesParallel(id) ==
    CamOptionIdToStringId(id) # CamError <=> CamOptionIdToName(id) # CamError
=============================================================================
