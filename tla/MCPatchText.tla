----------------------------- MODULE MCPatchText -----------------------------
(***************************************************************************)
(* Every text of up to three characters out of two letters and the line    *)
(* end, two and three lines, and the six lines that two distant edits      *)
(* take, all with either kind of line end, and two texts that mix them.    *)
(***************************************************************************)
EXTENDS PatchText

MCLetters == {"a", "b", "lf"}

MCSixLines == <<"a", "lf", "b", "lf", "c", "lf", "d", "lf", "e", "lf", "f">>

MCTexts ==
  LET plain ==
        BoundedSeq(MCLetters, 3) \cup {MCSixLines, Append(MCSixLines, "lf")}
          \cup {<<"a", "lf", "b", "lf">>, <<"b", "lf", "lf", "a">>, <<"a", "lf", "a", "lf", "b">>}
  IN plain \cup {ReplaceAll(text, "lf", "crlf") : text \in plain}
       \cup {<<"a", "lf", "b", "crlf">>, <<"a", "crlf", "b", "lf", "c">>}

MCWanted ==
  BoundedSeq(MCLetters, 2) \cup {<<"a", "lf", "b">>, <<"b", "lf", "lf">>, <<"a", "lf", "b", "lf">>}

MCEdits ==
  [old : {<<"a">>, <<"a", "lf">>, <<"lf", "b">>, <<"c">>, <<"d", "lf">>, <<"e">>, <<"f">>},
   new : {<<>>, <<"lf">>, <<"c">>, <<"c", "lf", "b">>}]

MCRequests == {<<edit>> : edit \in MCEdits} \cup (MCEdits \X MCEdits)

TextSpec == TextInit /\ [][TextNext]_textVars
=============================================================================
