---------------------------- MODULE MCOutputFile ----------------------------
(* An absolute path whose directories change with the time, and relative     *)
(* paths with and without a directory.                                       *)
EXTENDS OutputFile

MCSeconds == {1, 2}
MCFormats == {<<<<"", "Videos", "2021", "01", "1">>, <<"", "Videos", "2021", "02", "2">>>>,
              <<<<"Clips", "1">>, <<"Clips", "2">>>>, <<<<"1">>, <<"2">>>>}
=============================================================================
