-------------------------------- MODULE Files --------------------------------
(* The contents a file may have besides data: it does not exist, or a write was cut off. *)
CONSTANTS NoFile, Torn

ASSUME FilesAssumption == NoFile # Torn

Whole(file) == file \notin {NoFile, Torn}
=============================================================================
