---------------------------- MODULE MCConfigFile ----------------------------
(* Every file of at most MaxLength characters, and some longer for the   *)
(* user; for everybody, files that set the option, fail, or begin with a   *)
(* comment.                                                                *)
EXTENDS ConfigFile

MaxLength == 5
Alphabet == {NL, SP, HASH, EQ, "k"}
Long == {<<"k", EQ, "k", NL, "k", SP, EQ>>, <<"k", EQ, "k", NL, SP, HASH, EQ, NL, "k", EQ, "k", "k">>,
         <<NL, SP, "k", EQ, "k", SP, EQ, HASH, NL, NL, SP, "k">>}
MCLocalFiles == UNION {[1..n -> Alphabet] : n \in 0..MaxLength} \cup Long
MCGlobalFiles == {<<HASH, NL, "k", EQ, "g">>, <<"k", SP, EQ, "g", NL, NL, SP>>, <<"k">>}
MCKeys == {<<"k">>}
MCBad == {<<"k", "k">>}
MCDefault == <<"d">>
=============================================================================
