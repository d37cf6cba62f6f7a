----------------------------- MODULE MCFilePath -----------------------------
(* Literals: a name, names with a separator on either side, a drive alone, *)
(* with a name and with a separator, both separators, a colon, nothing.    *)
EXTENDS FilePath

MCLetters == {"c"}
MCLiterals ==
  {<<>>, <<"c">>, <<Colon>>, <<Separator>>, <<Slash>>, <<"c", Colon>>, <<"c", Separator>>,
   <<Slash, "c">>, <<"c", Colon, "c">>, <<"c", Colon, Separator>>}
=============================================================================
