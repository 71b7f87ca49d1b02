-------------------------- MODULE TaxonomyProofs --------------------------
(***************************************************************************)
(* The encodings of camera.cpp are bijections between their enumerators   *)
(* and their strings, for every input, not only the probes TLC tries.     *)
(***************************************************************************)
EXTENDS MC_Taxonomy, TLAPS

USE CamErrorAssumption

\* The lengths of the tables.
LEMMA TableFacts ==
    Len(OptionStringIds) = 16 /\ Len(OptionNames) = 16 /\ Len(OptionTypeNames) = 6
BY DEF OptionStringIds, OptionNames, OptionTypeNames

\* No entry of a table is the error value.
LEMMA EntriesNotError ==
    /\ \A i \in 1..16 : OptionStringIds[i] # CamError
    /\ \A i \in 1..16 : OptionNames[i] # CamError
    /\ \A i \in 1..6 : OptionTypeNames[i] # CamError
BY TableFacts, CamErrorAssumption

\* No table holds the same string twice.
LEMMA TablesDistinct ==
    /\ \A i, j \in 1..16 : i # j => OptionStringIds[i] # OptionStringIds[j]
    /\ \A i, j \in 1..6 : i # j => OptionTypeNames[i] # OptionTypeNames[j]
BY DEF OptionStringIds, OptionTypeNames

\* The first-match search of a table of n entries without duplicates
\* inverts indexing, and whatever it returns indexes the string looked for.
LEMMA SearchInverts ==
    ASSUME NEW t, NEW n \in Nat, Len(t) = n,
           \A i, j \in 1..n : i # j => t[i] # t[j]
    PROVE  /\ \A i \in 0..(n - 1) : Search(t, t[i + 1]) = i
           /\ \A s : Search(t, s) # CamError =>
                 /\ Search(t, s) \in 0..(n - 1)
                 /\ t[Search(t, s) + 1] = s
<1>1. ASSUME NEW i \in 0..(n - 1) PROVE Search(t, t[i + 1]) = i
    <2>1. \A k \in 0..(n - 1) :
             (t[k + 1] = t[i + 1] /\ \A j \in 0..(k - 1) : t[j + 1] # t[i + 1]) <=> k = i
        OBVIOUS
    <2> QED BY <2>1 DEF Search
<1>2. ASSUME NEW s, Search(t, s) # CamError
      PROVE  Search(t, s) \in 0..(n - 1) /\ t[Search(t, s) + 1] = s
    <2>1. \E i \in 0..(n - 1) : t[i + 1] = s
        BY <1>2 DEF Search
    <2>2. PICK i \in 0..(n - 1) : t[i + 1] = s
        BY <2>1
    <2>3. Search(t, s) = i
        BY <1>1, <2>2
    <2> QED BY <2>2, <2>3
<1> QED BY <1>1, <1>2

\* stream_type_from_str inverts stream_type_to_str on every stream type
\* but stream_error, and bayer_type_from_str inverts bayer_type_to_str.
THEOREM EnumRoundTripHolds == \A e : EnumRoundTrip(e)
BY DEF EnumRoundTrip, StreamEnum, BayerEnum, StreamTypeToStr, StreamTypeFromStr,
       BayerTypeToStr, BayerTypeFromStr

\* Every string the parsers accept is the encoding of what they return.
THEOREM StringRoundTripHolds == \A s : StringRoundTrip(s)
BY DEF StringRoundTrip, StreamTypeToStr, StreamTypeFromStr, BayerTypeToStr,
       BayerTypeFromStr

\* What the search and the bounds test return on the string-id table.
LEMMA OptionIdTable ==
    /\ \A i \in 0..15 : Search(OptionStringIds, OptionStringIds[i + 1]) = i
    /\ \A s : Search(OptionStringIds, s) # CamError =>
          /\ Search(OptionStringIds, s) \in 0..15
          /\ OptionStringIds[Search(OptionStringIds, s) + 1] = s
    /\ \A i \in 1..16 : OptionStringIds[i] # CamError
<1>1. Len(OptionStringIds) = 16 /\ 16 \in Nat
    BY TableFacts
<1>2. \A i, j \in 1..16 : i # j => OptionStringIds[i] # OptionStringIds[j]
    BY TablesDistinct
<1>3. /\ \A i \in 0..(16 - 1) : Search(OptionStringIds, OptionStringIds[i + 1]) = i
      /\ \A s : Search(OptionStringIds, s) # CamError =>
            /\ Search(OptionStringIds, s) \in 0..(16 - 1)
            /\ OptionStringIds[Search(OptionStringIds, s) + 1] = s
    BY <1>1, <1>2, SearchInverts
<1> QED BY <1>3, EntriesNotError

\* What the search and the bounds test return on the option-type table.
LEMMA OptionTypeTable ==
    /\ \A i \in 0..5 : Search(OptionTypeNames, OptionTypeNames[i + 1]) = i
    /\ \A s : Search(OptionTypeNames, s) # CamError =>
          /\ Search(OptionTypeNames, s) \in 0..5
          /\ OptionTypeNames[Search(OptionTypeNames, s) + 1] = s
    /\ \A i \in 1..6 : OptionTypeNames[i] # CamError
<1>1. Len(OptionTypeNames) = 6 /\ 6 \in Nat
    BY TableFacts
<1>2. \A i, j \in 1..6 : i # j => OptionTypeNames[i] # OptionTypeNames[j]
    BY TablesDistinct
<1>3. /\ \A i \in 0..(6 - 1) : Search(OptionTypeNames, OptionTypeNames[i + 1]) = i
      /\ \A s : Search(OptionTypeNames, s) # CamError =>
            /\ Search(OptionTypeNames, s) \in 0..(6 - 1)
            /\ OptionTypeNames[Search(OptionTypeNames, s) + 1] = s
    BY <1>1, <1>2, SearchInverts
<1> QED BY <1>3, EntriesNotError

\* Option ids and types round-trip through their string tables, and every
\* id outside a table, negative or past its end, throws.
THEOREM TableRoundTripHolds == \A id \in Int : \A s : TableRoundTrip(id, s)
<1> SUFFICES ASSUME NEW id \in Int, NEW s PROVE TableRoundTrip(id, s)
    OBVIOUS
<1>1. InTable(id, OptionStringIds) <=> id \in 0..15
    BY TableFacts DEF InTable
<1>2. InTable(id, OptionTypeNames) <=> id \in 0..5
    BY TableFacts DEF InTable
<1>3. InTable(id, OptionStringIds) <=> CamOptionIdToStringId(id) # CamError
    <2>1. id \in 0..15 => OptionStringIds[id + 1] # CamError
        <3>1. id \in 0..15 => id + 1 \in 1..16
            OBVIOUS
        <3> QED BY <3>1, OptionIdTable, Zenon
    <2> QED BY <1>1, <2>1 DEF CamOptionIdToStringId, Lookup
<1>4. InTable(id, OptionStringIds) => CamOptionIdFromStringId(CamOptionIdToStringId(id)) = id
    <2> SUFFICES ASSUME id \in 0..15 PROVE Search(OptionStringIds, OptionStringIds[id + 1]) = id
        BY <1>1 DEF CamOptionIdToStringId, CamOptionIdFromStringId, Lookup
    <2> QED BY OptionIdTable
<1>5. CamOptionIdFromStringId(s) # CamError => CamOptionIdToStringId(CamOptionIdFromStringId(s)) = s
    <2> SUFFICES ASSUME Search(OptionStringIds, s) # CamError
                 PROVE  Lookup(OptionStringIds, Search(OptionStringIds, s)) = s
        BY DEF CamOptionIdToStringId, CamOptionIdFromStringId
    <2>1. Search(OptionStringIds, s) \in 0..15 /\ OptionStringIds[Search(OptionStringIds, s) + 1] = s
        BY OptionIdTable
    <2>2. InTable(Search(OptionStringIds, s), OptionStringIds)
        BY <2>1, TableFacts DEF InTable
    <2> QED BY <2>1, <2>2 DEF Lookup
<1>6. InTable(id, OptionTypeNames) <=> CamOptionTypeToStr(id) # CamError
    <2>1. id \in 0..5 => OptionTypeNames[id + 1] # CamError
        <3>1. id \in 0..5 => id + 1 \in 1..6
            OBVIOUS
        <3> QED BY <3>1, OptionTypeTable, Zenon
    <2> QED BY <1>2, <2>1 DEF CamOptionTypeToStr, Lookup
<1>7. InTable(id, OptionTypeNames) => CamOptionTypeFromStr(CamOptionTypeToStr(id)) = id
    <2> SUFFICES ASSUME id \in 0..5 PROVE Search(OptionTypeNames, OptionTypeNames[id + 1]) = id
        BY <1>2 DEF CamOptionTypeToStr, CamOptionTypeFromStr, Lookup
    <2> QED BY OptionTypeTable
<1>8. CamOptionTypeFromStr(s) # CamError => CamOptionTypeToStr(CamOptionTypeFromStr(s)) = s
    <2> SUFFICES ASSUME Search(OptionTypeNames, s) # CamError
                 PROVE  Lookup(OptionTypeNames, Search(OptionTypeNames, s)) = s
        BY DEF CamOptionTypeToStr, CamOptionTypeFromStr
    <2>1. Search(OptionTypeNames, s) \in 0..5 /\ OptionTypeNames[Search(OptionTypeNames, s) + 1] = s
        BY OptionTypeTable
    <2>2. InTable(Search(OptionTypeNames, s), OptionTypeNames)
        BY <2>1, TableFacts DEF InTable
    <2> QED BY <2>1, <2>2 DEF Lookup
<1> QED BY <1>3, <1>4, <1>5, <1>6, <1>7, <1>8 DEF TableRoundTrip

\* Every option id with a string id has a display name, and no other id.
THEOREM NamesParallelHolds == \A id \in Int : NamesParallel(id)
BY OptionIdTable, TableFacts, EntriesNotError
   DEF NamesParallel, CamOptionIdToStringId, CamOptionIdToName, Lookup, InTable

-----------------------------------------------------------------------------
(***************************************************************************)
(* The invariants of the MC_Taxonomy run, for every behaviour of the probe *)
(* and every value of CamError: the probe only selects an instance of the  *)
(* theorems above.                                                         *)
(***************************************************************************)

\* The probe stays among the probes.
ProbeTyped == probe \in Probes

\* The probe id is always an integer.
LEMMA ProbeIdInt == Spec => [](probe[1] \in Int)
<1>1. Init => ProbeTyped
  BY DEF Init, ProbeTyped
<1>2. ProbeTyped /\ [Next]_probe => ProbeTyped'
  BY DEF Next, ProbeTyped
<1>3. ProbeTyped => probe[1] \in Int
  BY DEF ProbeTyped, Probes, ProbeIds
<1>4. Spec => []ProbeTyped
  BY <1>1, <1>2, PTL DEF Spec
<1>5. QED
  BY <1>3, <1>4, PTL

\* StreamTypeToStr/StreamTypeFromStr and the Bayer pair invert each other
\* on every enumerator the probe takes.
THEOREM EnumsRoundTripHolds == Spec => []EnumsRoundTrip
<1>1. EnumsRoundTrip
  BY EnumRoundTripHolds DEF EnumsRoundTrip
<1>2. QED
  BY <1>1, PTL

\* Every probe string the parsers accept is the encoding of what they return.
THEOREM StringsRoundTripHolds == Spec => []StringsRoundTrip
<1>1. StringsRoundTrip
  BY StringRoundTripHolds DEF StringsRoundTrip
<1>2. QED
  BY <1>1, PTL

\* The probe id and string round-trip through the option tables.
THEOREM TablesRoundTripHolds == Spec => []TablesRoundTrip
<1>1. probe[1] \in Int => TablesRoundTrip
  BY TableRoundTripHolds DEF TablesRoundTrip
<1>2. QED
  BY <1>1, ProbeIdInt, PTL

\* The probe id has a display name exactly when it has a string id.
THEOREM OptionNamesParallelHolds == Spec => []OptionNamesParallel
<1>1. probe[1] \in Int => OptionNamesParallel
  BY NamesParallelHolds DEF OptionNamesParallel
<1>2. QED
  BY <1>1, ProbeIdInt, PTL
=============================================================================
