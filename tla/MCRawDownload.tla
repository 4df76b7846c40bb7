--------------------------- MODULE MCRawDownload ----------------------------
(* Two processes on two hours of two archives. *)
EXTENDS RawDownload

MCHours == <<2, 1>>
MCArchives == <<"v2", "v1">>
=============================================================================
