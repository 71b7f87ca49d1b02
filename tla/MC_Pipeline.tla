----------------------------- MODULE MC_Pipeline -----------------------------
(* Small instances of Pipeline for TLC.                                     *)
EXTENDS Pipeline

\* One format per branch shape of process_frame: decoded (mjpeg), converted
\* with a length check (raw8, demosaiced), kept as the source buffer with a
\* 16-bit rescale (rgb48), and one the bytes-per-pixel table rejects (error).
MCFormats == {"mjpeg", "raw8", "rgb48", "error"}
MCBayers == {"RG"}
MCBayersWithNA == {"RG", "NA"}
MCDecode == {"ok", "throw"}
MCDecodeAll == {"ok", "empty", "throw"}
==============================================================================
